---------------------------- MODULE WritePathProofs ----------------------------
(***************************************************************************)
(* Proofs about WritePath: the books of the gateway and its pages balance, *)
(* a resume acts on fresh evidence, and a list shows one version.          *)
(*                                                                         *)
(* First the server.  The operators of WriteHost and WritePath take its    *)
(* record to the next one, and so do the lemmas: each says of one operator *)
(* what it changes (...Is), and that it keeps what holds of a server and   *)
(* what the clients were pledged (...Keeps, ...Goes, ...Runs).  What holds *)
(* is Well: the types; the requests and the frames of those they are for;  *)
(* evidence with the resume it was read for; the slots, the gate, the      *)
(* reads and the creations; and of a page of the list, which stretch of    *)
(* which version it is.                                                    *)
(*                                                                         *)
(* Then the whole.  Whole adds to Well and Serves what the clients believe *)
(* and what is on the wires; WriteInv is Whole of the variables.  A step   *)
(* of a client alone, or of both ends of a wire, keeps Whole in one lemma  *)
(* (ClientActs, OneSide, ConnKeeps), and each action's lemma cites it.     *)
(***************************************************************************)
EXTENDS WritePath, FiniteSetTheorems, SequenceTheorems, TLAPS

-------------------------------------------------------------------------------
(* What the server's record is made of *)

AllIds    == {"write", "list", "models", "roots", "none"} \X Nat
FileNames == Files \cup {"none"}
Kinds     == PageWishes \cup {"list", "models", "roots"}
Stages    == {"new", "queued", "running", "asking", "reading", "read", "creating", "session",
              "starting", "failed"}
Results   == Evidence \cup {"none", "busy", "threw"}
ListIds   == {"list"} \X Nat
Slots     == ({"list"} \X ListIds) \cup ({"read"} \X Roots)

Tasks ==
  [at : Stages, by : Conns, kind : Kinds, file : FileNames, named : Nat, round : {1, 2},
   got : Results, fresh : BOOLEAN, live : Nat, gen : Nat, seen : Listings \cup {<< >>}]
Reads == [at : {"queued", "reading"}, by : Conns, knows : SUBSET AllIds, snap : Evidence]
Outcomes  ==
  {"none", "ok", "failed", "no-process", "not-ready", "invalidated", "busy", "launched", "confirmed",
   "deadline-exceeded", "identity-rejected", "execution-failed", "generation-mismatch"}
Answers ==
  [t : {"error", "close", "ack", "welcome", "models-list", "roots-list"}, id : AllIds,
   kind : Kinds \cup {"none"}, file : FileNames, code : Nat, res : Outcomes]
ListAnswers ==
  [t : {"sessions"}, id : AllIds, kind : {"list"}, code : {0},
   rows : SUBSET UNION {ToSet(l) : l \in Listings}, next : Nat, more : BOOLEAN, version : Nat]
Frames == Answers \cup ListAnswers
Sides ==
  [open : BOOLEAN, authed : BOOLEAN, inflight : SUBSET AllIds, strikes : Nat, wire : Seq(Frames)]
Hosts ==
  [sess : {"none", "creating", "ready"}, live : Nat, ready : BOOLEAN, turn : BOOLEAN, last : Nat]
Gates == [active : SUBSET Slots, waiting : Seq(Slots)]
Tables(K, R) == UNION {[S -> R] : S \in SUBSET K}
Servers ==
  [conn : [Conns -> Sides], task : Tables(AllIds, Tasks), gate : Gates,
   read : Tables(Roots, Reads), host : [Roots -> Hosts], disk : [Roots -> Evidence],
   dir : Listings, versions : Seq(Listings), launched : SUBSET AllIds, disposed : BOOLEAN,
   tokens : SUBSET Tokens]

-------------------------------------------------------------------------------
(* Tables *)

\* A table is a function on a subset of its keys.
LEMMA TableIs ==
  ASSUME NEW K, NEW R, NEW f
  PROVE  f \in Tables(K, R) <=> DOMAIN f \subseteq K /\ f \in [DOMAIN f -> R]
  BY DEF Tables

LEMMA TableWith ==
  ASSUME NEW K, NEW R, NEW f \in Tables(K, R), NEW x \in K, NEW y \in R
  PROVE  /\ With(f, x, y) \in Tables(K, R)
         /\ DOMAIN With(f, x, y) = DOMAIN f \cup {x}
         /\ \A z \in DOMAIN f \cup {x} : With(f, x, y)[z] = IF z = x THEN y ELSE f[z]
<1>1. DOMAIN f \subseteq K /\ f \in [DOMAIN f -> R] BY TableIs
<1>2. With(f, x, y) \in [DOMAIN f \cup {x} -> R] BY <1>1 DEF With
<1>3. DOMAIN f \cup {x} \in SUBSET K BY <1>1
<1> QED BY <1>1, <1>2, <1>3 DEF Tables, With

LEMMA TableWithout ==
  ASSUME NEW K, NEW R, NEW f \in Tables(K, R), NEW X
  PROVE  Restrict(f, DOMAIN f \ X) \in Tables(K, R)
<1>1. DOMAIN f \subseteq K /\ f \in [DOMAIN f -> R] BY TableIs
<1>2. Restrict(f, DOMAIN f \ X) \in [DOMAIN f \ X -> R] BY <1>1 DEF Restrict
<1>3. DOMAIN f \ X \in SUBSET K BY <1>1
<1> QED BY <1>2, <1>3 DEF Tables

\* A new value for one key that is there, or none.
LEMMA TableExcept ==
  ASSUME NEW K, NEW R, NEW f \in Tables(K, R), NEW x, NEW y, x \in DOMAIN f => y \in R
  PROVE  [f EXCEPT ![x] = y] \in Tables(K, R)
<1>1. DOMAIN f \subseteq K /\ f \in [DOMAIN f -> R] BY TableIs
<1>2. [f EXCEPT ![x] = y] \in [DOMAIN f -> R] BY <1>1
<1> QED BY <1>1, <1>2 DEF Tables

-------------------------------------------------------------------------------
(* Sequences without some of their members *)

\* Without keeps what is not in H, once if it was there once.
LEMMA WithoutIs ==
  ASSUME NEW S, NEW s \in Seq(S), NEW H
  PROVE  /\ Without(s, H) \in Seq(S)
         /\ ToSet(Without(s, H)) = ToSet(s) \ H
         /\ IsInjective(s) => IsInjective(Without(s, H))
<1> DEFINE kept     == {k \in DOMAIN s : s[k] \notin H}
           below(k) == {l \in kept : l <= k}
           n        == Cardinality(kept)
           place    == [k \in kept |-> Cardinality(below(k))]
           at(m)    == CHOOSE k \in kept : Cardinality(below(k)) = m
           w        == Without(s, H)
<1>1. DOMAIN s = 1 .. Len(s) /\ Len(s) \in Nat BY LenProperties
<1>2. IsFiniteSet(kept)
  <2>1. kept \in SUBSET Nat /\ \A k \in kept : k <= Len(s) BY <1>1
  <2> QED BY <2>1, <1>1, FS_BoundedSetOfNaturals
<1>3. n \in Nat BY <1>2, FS_CardinalityType
<1>4. \A k \in kept : IsFiniteSet(below(k)) /\ Cardinality(below(k)) \in 1 .. n
  <2> TAKE k \in kept
  <2>1. below(k) \in SUBSET kept OBVIOUS
  <2>2. IsFiniteSet(below(k)) /\ Cardinality(below(k)) <= n BY <1>2, <2>1, FS_Subset
  <2>3. k \in below(k) BY <1>1
  <2>4. Cardinality(below(k)) # 0 BY <2>2, <2>3, FS_EmptySet
  <2>5. Cardinality(below(k)) \in Nat BY <2>2, FS_CardinalityType
  <2> QED BY <1>3, <2>2, <2>4, <2>5
<1>5. \A k, l \in kept : k < l => Cardinality(below(k)) < Cardinality(below(l))
  <2> TAKE k, l \in kept
  <2> HAVE k < l
  <2>1. below(k) \in SUBSET (below(l) \ {l}) BY <1>1
  <2>2. l \in below(l) BY <1>1
  <2>3. IsFiniteSet(below(l)) BY <1>4
  <2>4. IsFiniteSet(below(l) \ {l}) /\ Cardinality(below(l) \ {l}) = Cardinality(below(l)) - 1
    BY <2>2, <2>3, FS_RemoveElement
  <2>5. Cardinality(below(k)) <= Cardinality(below(l) \ {l}) BY <2>1, <2>4, FS_Subset
  <2>6. Cardinality(below(k)) \in 1 .. n /\ Cardinality(below(l)) \in 1 .. n BY <1>4
  <2> HIDE DEF below, kept
  <2> QED BY <2>4, <2>5, <2>6, <1>3
<1>6. \A k, l \in kept : Cardinality(below(k)) = Cardinality(below(l)) => k = l
  <2> TAKE k, l \in kept
  <2>1. k \in Nat /\ l \in Nat BY <1>1
  <2>2. Cardinality(below(k)) \in 1 .. n /\ Cardinality(below(l)) \in 1 .. n BY <1>4
  <2> HIDE DEF below, kept
  <2> QED BY <1>5, <2>1, <2>2, <1>3
<1>7. \A m \in 1 .. n : \E k \in kept : Cardinality(below(k)) = m
  <2>1. place \in [kept -> 1 .. n] BY <1>4
  <2>2. \A k \in kept : place[k] = Cardinality(below(k)) OBVIOUS
  <2>3. IsInjective(place) BY <1>6, <2>1, <2>2 DEF IsInjective
  <2>4. place \in Injection(kept, 1 .. n) BY <2>1, <2>3 DEF Injection
  <2>5. IsFiniteSet(1 .. n) /\ Cardinality(1 .. n) = n BY <1>3, FS_Interval
  <2>6. place \in Surjection(kept, 1 .. n) BY <2>4, <2>5, FS_Injection
  <2> QED BY <2>2, <2>6 DEF Surjection
<1>8. \A m \in 1 .. n : at(m) \in kept /\ Cardinality(below(at(m))) = m BY <1>7
<1>9. \A k \in kept : at(Cardinality(below(k))) = k BY <1>4, <1>6, <1>8
<1>10. w = [m \in 1 .. n |-> s[at(m)]] BY DEF Without
<1> HIDE DEF at, below, place, w
<1>11. \A k \in kept : k \in DOMAIN s /\ s[k] \in S /\ s[k] \notin H BY <1>1
<1>12. w \in Seq(S)
  <2>1. \A m \in 1 .. n : s[at(m)] \in S BY <1>8, <1>11
  <2>2. w \in [1 .. n -> S] BY <2>1, <1>10
  <2>3. Seq(S) = UNION {[1 .. m -> S] : m \in Nat} BY SeqDef
  <2> HIDE DEF n
  <2> QED BY <2>2, <2>3, <1>3
<1>13. DOMAIN w = 1 .. n BY <1>10
<1>14. ToSet(w) = ToSet(s) \ H
  <2>1. ToSet(w) \subseteq ToSet(s) \ H BY <1>8, <1>10, <1>11, <1>13 DEF ToSet
  <2>2. ASSUME NEW x \in ToSet(s) \ H PROVE x \in ToSet(w)
    <3>1. PICK k \in DOMAIN s : s[k] = x BY <2>2 DEF ToSet
    <3>2. k \in kept BY <3>1, <2>2
    <3>3. Cardinality(below(k)) \in 1 .. n /\ at(Cardinality(below(k))) = k BY <3>2, <1>4, <1>9
    <3>4. w[Cardinality(below(k))] = x BY <3>1, <3>3, <1>10
    <3> QED BY <3>3, <3>4, <1>13 DEF ToSet
  <2> QED BY <2>1, <2>2
<1>15. ASSUME IsInjective(s) PROVE IsInjective(w)
  <2> SUFFICES ASSUME NEW l \in 1 .. n, NEW m \in 1 .. n, w[l] = w[m] PROVE l = m
    BY <1>13 DEF IsInjective
  <2>1. s[at(l)] = s[at(m)] BY <1>10
  <2>2. at(l) = at(m) BY <2>1, <1>8, <1>11, <1>15 DEF IsInjective
  <2> QED BY <2>2, <1>8
<1> QED BY <1>12, <1>14, <1>15 DEF w

-------------------------------------------------------------------------------
(* The operators of WriteHost *)

ServerFields == {"conn", "task", "gate", "read", "host", "disk", "dir", "versions", "launched",
           "disposed", "tokens"}
\* From s to t nothing changes but the fields in F.
Kept(s, t, F) == \A n \in ServerFields \ F : t[n] = s[n]

LEMMA SentIs ==
  ASSUME NEW s \in Servers, NEW c \in Conns, NEW f \in Frames
  PROVE  LET t == Sent(s, c, f)
         IN /\ t \in Servers
            /\ Kept(s, t, {"conn"})
            /\ ~(s.conn[c].open /\ c \in Heard) => t = s
            /\ s.conn[c].open /\ c \in Heard =>
                 \A d \in Conns :
                   t.conn[d] = IF d = c THEN [s.conn[c] EXCEPT !.wire = Append(@, f)] ELSE s.conn[d]
<1>1. \A d \in Conns : s.conn[d] \in Sides BY DEF Servers
<1>2. CASE ~(s.conn[c].open /\ c \in Heard)
  <2>1. Sent(s, c, f) = s BY <1>2 DEF Sent
  <2> QED BY <1>2, <2>1 DEF Kept
<1>3. CASE s.conn[c].open /\ c \in Heard
  <2> DEFINE side == [s.conn[c] EXCEPT !.wire = Append(@, f)]
             t == [s EXCEPT !.conn[c] = side]
  <2>1. Append(s.conn[c].wire, f) \in Seq(Frames) BY <1>1 DEF Sides
  <2>2. side \in Sides BY <1>1, <2>1 DEF Sides
  <2>3. Sent(s, c, f) = t BY <1>3 DEF Sent
  <2>4. t \in Servers BY <2>2 DEF Servers
  <2>5. Kept(s, t, {"conn"}) BY DEF Kept, Servers, ServerFields
  <2>6. \A d \in Conns : t.conn[d] = IF d = c THEN side ELSE s.conn[d] BY DEF Servers
  <2> HIDE DEF t
  <2> QED BY <1>3, <2>3, <2>4, <2>5, <2>6
<1> QED BY <1>2, <1>3

LEMMA ForgetIs ==
  ASSUME NEW s \in Servers, NEW i \in DOMAIN s.task
  PROVE  LET t == Forget(s, i)
         IN /\ t \in Servers
            /\ Kept(s, t, {"conn", "task"})
            /\ DOMAIN t.task = DOMAIN s.task \ {i}
            /\ \A j \in DOMAIN t.task : t.task[j] = s.task[j]
            /\ \A d \in Conns :
                 t.conn[d] = IF d = s.task[i].by THEN [s.conn[d] EXCEPT !.inflight = @ \ {i}]
                             ELSE s.conn[d]
<1> DEFINE c == s.task[i].by
           side == [s.conn[c] EXCEPT !.inflight = @ \ {i}]
           tasks == Restrict(s.task, DOMAIN s.task \ {i})
           t == [s EXCEPT !.task = tasks, !.conn[c] = side]
<1>1. s.task \in Tables(AllIds, Tasks) BY DEF Servers
<1>2. s.task[i] \in Tasks BY <1>1, TableIs
<1>3. c \in Conns BY <1>2 DEF Tasks
<1>4. \A d \in Conns : s.conn[d] \in Sides BY DEF Servers
<1>5. side \in Sides BY <1>3, <1>4 DEF Sides
<1>6. /\ tasks \in Tables(AllIds, Tasks)
      /\ DOMAIN tasks = DOMAIN s.task \ {i}
      /\ \A j \in DOMAIN tasks : tasks[j] = s.task[j]
  <2>1. tasks \in Tables(AllIds, Tasks) BY <1>1, TableWithout
  <2> QED BY <2>1 DEF Restrict
<1> HIDE DEF tasks, side
<1>7. Forget(s, i) = t BY DEF Forget, tasks, side
<1>8. t \in Servers BY <1>3, <1>5, <1>6 DEF Servers
<1>9. Kept(s, t, {"conn", "task"}) BY DEF Kept, Servers, ServerFields
<1>10. t.task = tasks BY DEF Servers
<1>11. \A d \in Conns : t.conn[d] = IF d = c THEN side ELSE s.conn[d] BY <1>3 DEF Servers
<1> HIDE DEF t, c
<1>12. \A d \in Conns :
         t.conn[d] = IF d = c THEN [s.conn[d] EXCEPT !.inflight = @ \ {i}] ELSE s.conn[d]
  BY <1>11 DEF side
<1> QED BY <1>6, <1>7, <1>8, <1>9, <1>10, <1>12 DEF c

\* A slot is granted: the list or the read begins.
LEMMA GrantIs ==
  ASSUME NEW s \in Servers, NEW h \in Slots
  PROVE  LET t == Grant(s, h)
         IN /\ t \in Servers
            /\ Kept(s, t, {"gate", "task", "read"})
            /\ t.gate.active = s.gate.active \cup {h} /\ t.gate.waiting = s.gate.waiting
            /\ DOMAIN t.task = DOMAIN s.task /\ DOMAIN t.read = DOMAIN s.read
            /\ \A j \in DOMAIN s.task :
                 t.task[j] = IF h = ListSlot(j)
                             THEN [s.task[j] EXCEPT !.at = "running", !.seen = s.dir] ELSE s.task[j]
            /\ \A f \in DOMAIN s.read :
                 t.read[f] = IF h = ReadSlot(f)
                             THEN [s.read[f] EXCEPT !.at = "reading", !.knows = DOMAIN s.task,
                                                    !.snap = s.disk[f]]
                             ELSE s.read[f]
<1> DEFINE gate == [s.gate EXCEPT !.active = @ \cup {h}]
           held == [s EXCEPT !.gate = gate]
<1>1. gate \in Gates /\ gate.active = s.gate.active \cup {h} /\ gate.waiting = s.gate.waiting
  BY DEF Servers, Gates
<1> HIDE DEF gate
<1>2. s.task \in Tables(AllIds, Tasks) /\ s.read \in Tables(Roots, Reads) /\ s.dir \in Listings
  BY DEF Servers
<1>3. DOMAIN s.task \subseteq AllIds BY <1>2, TableIs
<1>4. CASE h[1] = "list"
  <2> DEFINE i == h[2]
             r == [s.task[i] EXCEPT !.at = "running", !.seen = s.dir]
             tasks == [s.task EXCEPT ![i] = r]
             t == [held EXCEPT !.task = tasks]
  <2>1. h = ListSlot(i) /\ \A j : h = ListSlot(j) <=> j = i BY <1>4 DEF Slots, ListSlot
  <2>2. \A f : h # ReadSlot(f) BY <1>4 DEF ReadSlot
  <2>3. i \in DOMAIN s.task => s.task[i] \in Tasks BY <1>2, TableIs
  <2>4. i \in DOMAIN s.task => r \in Tasks BY <1>2, <2>3 DEF Tasks, Stages
  <2>5. Grant(s, h) = t
    <3>1. [s EXCEPT !.gate.active = @ \cup {h}] = held BY DEF gate
    <3>2. [At(held, i, "running") EXCEPT !.task[i].seen = s.dir] = t BY DEF At, Servers
    <3> QED BY <1>4, <3>1, <3>2 DEF Grant
  <2> HIDE DEF r
  <2>6. tasks \in Tables(AllIds, Tasks) BY <1>2, <2>4, TableExcept
  <2>7. /\ DOMAIN tasks = DOMAIN s.task
        /\ \A j \in DOMAIN s.task : tasks[j] = IF j = i THEN r ELSE s.task[j]
    OBVIOUS
  <2> HIDE DEF tasks
  <2>8. /\ t \in Servers /\ Kept(s, t, {"gate", "task", "read"})
        /\ t.gate = gate /\ t.task = tasks /\ t.read = s.read
    BY <1>1, <2>6 DEF Servers, Kept, ServerFields
  <2> HIDE DEF t
  <2> QED BY <1>1, <2>1, <2>2, <2>5, <2>7, <2>8 DEF r
<1>5. CASE h[1] = "read"
  <2> DEFINE f == h[2]
             r == [s.read[f] EXCEPT !.at = "reading", !.knows = DOMAIN s.task, !.snap = s.disk[f]]
             reads == [s.read EXCEPT ![f] = r]
             t == [held EXCEPT !.read = reads]
  <2>1. f \in Roots /\ h = ReadSlot(f) /\ \A k : h = ReadSlot(k) <=> k = f
    BY <1>5 DEF Slots, ReadSlot
  <2>2. \A j : h # ListSlot(j) BY <1>5 DEF ListSlot
  <2>3. s.disk[f] \in Evidence BY <2>1 DEF Servers
  <2>4. f \in DOMAIN s.read => s.read[f] \in Reads BY <1>2, TableIs
  <2>5. f \in DOMAIN s.read => r \in Reads BY <1>3, <2>3, <2>4 DEF Reads
  <2>6. Grant(s, h) = t BY <1>5 DEF Grant, gate, Servers
  <2> HIDE DEF r
  <2>7. reads \in Tables(Roots, Reads) BY <1>2, <2>5, TableExcept
  <2>8. /\ DOMAIN reads = DOMAIN s.read
        /\ \A k \in DOMAIN s.read : reads[k] = IF k = f THEN r ELSE s.read[k]
    OBVIOUS
  <2> HIDE DEF reads
  <2>9. /\ t \in Servers /\ Kept(s, t, {"gate", "task", "read"})
        /\ t.gate = gate /\ t.task = s.task /\ t.read = reads
    BY <1>1, <2>7 DEF Servers, Kept, ServerFields
  <2> HIDE DEF t
  <2> QED BY <1>1, <2>1, <2>2, <2>6, <2>8, <2>9 DEF r
<1> QED BY <1>4, <1>5 DEF Slots

\* One waits for a slot, or has it at once.
LEMMA WaitIs ==
  ASSUME NEW s \in Servers, NEW h \in Slots
  PROVE  LET t == [s EXCEPT !.gate.waiting = Append(@, h)]
         IN /\ t \in Servers /\ Kept(s, t, {"gate"})
            /\ t.gate = [s.gate EXCEPT !.waiting = Append(@, h)]
<1> DEFINE gate == [s.gate EXCEPT !.waiting = Append(@, h)]
           t == [s EXCEPT !.gate = gate]
<1>1. s.gate \in Gates BY DEF Servers
<1>2. Append(s.gate.waiting, h) \in Seq(Slots) BY <1>1 DEF Gates
<1>3. gate \in Gates BY <1>1, <1>2 DEF Gates
<1> HIDE DEF gate
<1>4. t \in Servers /\ Kept(s, t, {"gate"}) /\ t.gate = gate BY <1>3 DEF Servers, Kept, ServerFields
<1> QED BY <1>4 DEF gate

\* The slot of h comes free.
LEMMA FreedIs ==
  ASSUME NEW s \in Servers, NEW h
  PROVE  LET t == [s EXCEPT !.gate.active = @ \ {h}]
         IN /\ t \in Servers /\ Kept(s, t, {"gate"})
            /\ t.gate = [s.gate EXCEPT !.active = @ \ {h}]
<1> DEFINE gate == [s.gate EXCEPT !.active = @ \ {h}]
           t == [s EXCEPT !.gate = gate]
<1>1. gate \in Gates BY DEF Servers, Gates
<1> HIDE DEF gate
<1>2. t \in Servers /\ Kept(s, t, {"gate"}) /\ t.gate = gate BY <1>1 DEF Servers, Kept, ServerFields
<1> QED BY <1>2 DEF gate

LEMMA WithdrawIs ==
  ASSUME NEW s \in Servers, NEW H
  PROVE  LET t == Withdraw(s, H)
         IN /\ t \in Servers /\ Kept(s, t, {"gate"})
            /\ t.gate.active = s.gate.active
            /\ ToSet(t.gate.waiting) = ToSet(s.gate.waiting) \ H
            /\ IsInjective(s.gate.waiting) => IsInjective(t.gate.waiting)
<1> DEFINE gate == [s.gate EXCEPT !.waiting = Without(@, H)]
           t == [s EXCEPT !.gate = gate]
<1>1. s.gate \in Gates BY DEF Servers
<1>2. s.gate.waiting \in Seq(Slots) BY <1>1 DEF Gates
<1>3. /\ Without(s.gate.waiting, H) \in Seq(Slots)
      /\ ToSet(Without(s.gate.waiting, H)) = ToSet(s.gate.waiting) \ H
      /\ IsInjective(s.gate.waiting) => IsInjective(Without(s.gate.waiting, H))
  BY <1>2, WithoutIs
<1>4. gate \in Gates /\ gate.active = s.gate.active /\ gate.waiting = Without(s.gate.waiting, H)
  BY <1>1, <1>3 DEF Gates
<1> HIDE DEF gate
<1>5. t \in Servers /\ Kept(s, t, {"gate"}) /\ t.gate = gate BY <1>4 DEF Servers, Kept, ServerFields
<1>6. Withdraw(s, H) = t BY DEF Withdraw, gate
<1> QED BY <1>3, <1>4, <1>5, <1>6

\* What the first of the waiters is given when a slot comes free.
LEMMA ReleaseIs ==
  ASSUME NEW s \in Servers, NEW h
  PROVE  LET freed == [s EXCEPT !.gate.active = @ \ {h}]
             next  == [freed EXCEPT !.gate.waiting = Tail(@)]
         IN /\ Release(s, h) = IF s.gate.waiting = << >> THEN freed
                               ELSE Grant(next, Head(s.gate.waiting))
            /\ freed \in Servers /\ Kept(s, freed, {"gate"})
            /\ freed.gate = [s.gate EXCEPT !.active = @ \ {h}]
            /\ s.gate.waiting # << >> =>
                 /\ next \in Servers /\ Kept(s, next, {"gate"})
                 /\ next.gate.active = s.gate.active \ {h}
                 /\ next.gate.waiting = Tail(s.gate.waiting)
                 /\ Head(s.gate.waiting) \in Slots
<1> DEFINE freed == [s EXCEPT !.gate.active = @ \ {h}]
           next  == [freed EXCEPT !.gate.waiting = Tail(@)]
<1>1. Release(s, h) = IF s.gate.waiting = << >> THEN freed ELSE Grant(next, Head(s.gate.waiting))
  BY DEF Release
<1>2. /\ freed \in Servers /\ Kept(s, freed, {"gate"})
      /\ freed.gate = [s.gate EXCEPT !.active = @ \ {h}]
  BY FreedIs
<1> HIDE DEF freed
<1>3. ASSUME s.gate.waiting # << >>
      PROVE  /\ next \in Servers /\ Kept(s, next, {"gate"})
             /\ next.gate.active = s.gate.active \ {h}
             /\ next.gate.waiting = Tail(s.gate.waiting)
             /\ Head(s.gate.waiting) \in Slots
  <2> DEFINE gate == [freed.gate EXCEPT !.waiting = Tail(@)]
             t == [freed EXCEPT !.gate = gate]
  <2>1. s.gate \in Gates /\ freed.gate \in Gates BY <1>2 DEF Servers
  <2>2. s.gate.waiting \in Seq(Slots) /\ freed.gate.waiting = s.gate.waiting BY <1>2, <2>1 DEF Gates
  <2>3. Tail(s.gate.waiting) \in Seq(Slots) /\ Head(s.gate.waiting) \in Slots
    BY <1>3, <2>2, HeadTailProperties
  <2>4. gate \in Gates BY <2>1, <2>2, <2>3 DEF Gates
  <2>5. /\ gate.active = s.gate.active \ {h}
        /\ gate.waiting = Tail(s.gate.waiting)
    BY <1>2, <2>1, <2>2 DEF Gates
  <2> HIDE DEF gate
  <2>6. t \in Servers /\ Kept(freed, t, {"gate"}) /\ t.gate = gate
    BY <1>2, <2>4 DEF Servers, Kept, ServerFields
  <2>7. Kept(s, t, {"gate"}) BY <1>2, <2>6 DEF Kept
  <2>8. next = t BY DEF gate
  <2> QED BY <2>3, <2>5, <2>6, <2>7, <2>8
<1> QED BY <1>1, <1>2, <1>3 DEF freed

\* One task is written anew.
LEMMA TaskIs ==
  ASSUME NEW s \in Servers, NEW i \in DOMAIN s.task, NEW r \in Tasks
  PROVE  LET t == [s EXCEPT !.task[i] = r]
         IN /\ t \in Servers /\ Kept(s, t, {"task"})
            /\ DOMAIN t.task = DOMAIN s.task
            /\ \A j \in DOMAIN s.task : t.task[j] = IF j = i THEN r ELSE s.task[j]
<1> DEFINE tasks == [s.task EXCEPT ![i] = r]
           t == [s EXCEPT !.task = tasks]
<1>1. s.task \in Tables(AllIds, Tasks) BY DEF Servers
<1>2. tasks \in Tables(AllIds, Tasks) BY <1>1, TableExcept
<1>3. /\ DOMAIN tasks = DOMAIN s.task
      /\ \A j \in DOMAIN s.task : tasks[j] = IF j = i THEN r ELSE s.task[j]
  OBVIOUS
<1> HIDE DEF tasks
<1>4. t \in Servers /\ Kept(s, t, {"task"}) /\ t.task = tasks BY <1>2 DEF Servers, Kept, ServerFields
<1> QED BY <1>3, <1>4 DEF tasks

LEMMA AtIs ==
  ASSUME NEW s \in Servers, NEW i \in DOMAIN s.task, NEW at \in Stages
  PROVE  LET t == At(s, i, at)
         IN /\ t \in Servers /\ Kept(s, t, {"task"})
            /\ DOMAIN t.task = DOMAIN s.task
            /\ \A j \in DOMAIN s.task :
                 t.task[j] = IF j = i THEN [s.task[j] EXCEPT !.at = at] ELSE s.task[j]
<1> DEFINE r == [s.task[i] EXCEPT !.at = at]
           t == [s EXCEPT !.task[i] = r]
<1>1. s.task \in Tables(AllIds, Tasks) BY DEF Servers
<1>2. s.task[i] \in Tasks BY <1>1, TableIs
<1>3. r \in Tasks BY <1>2 DEF Tasks
<1>4. At(s, i, at) = t BY DEF At
<1> HIDE DEF r
<1>5. /\ t \in Servers /\ Kept(s, t, {"task"}) /\ DOMAIN t.task = DOMAIN s.task
      /\ \A j \in DOMAIN s.task : t.task[j] = IF j = i THEN r ELSE s.task[j]
  BY <1>3, TaskIs
<1> HIDE DEF t
<1> QED BY <1>4, <1>5 DEF r

\* The session of one file changes.
LEMMA HostIs ==
  ASSUME NEW s \in Servers, NEW f \in Roots, NEW h \in Hosts
  PROVE  LET t == [s EXCEPT !.host[f] = h]
         IN /\ t \in Servers /\ Kept(s, t, {"host"})
            /\ \A k \in Roots : t.host[k] = IF k = f THEN h ELSE s.host[k]
<1> DEFINE hosts == [s.host EXCEPT ![f] = h]
           t == [s EXCEPT !.host = hosts]
<1>1. hosts \in [Roots -> Hosts] /\ \A k \in Roots : hosts[k] = IF k = f THEN h ELSE s.host[k]
  BY DEF Servers
<1> HIDE DEF hosts
<1>2. t \in Servers /\ Kept(s, t, {"host"}) /\ t.host = hosts BY <1>1 DEF Servers, Kept, ServerFields
<1> QED BY <1>1, <1>2 DEF hosts

\* From s to t the reads of F end for everyone who joined them.
ReadsEnd(s, t, F, res) ==
  /\ DOMAIN t.task \subseteq DOMAIN s.task
  /\ \A j \in DOMAIN t.task :
       t.task[j] = IF s.task[j].at = "reading" /\ s.task[j].file \in F
                   THEN [s.task[j] EXCEPT !.at = "read", !.got = res,
                                          !.fresh = j \in s.read[s.task[j].file].knows]
                   ELSE s.task[j]
  /\ DOMAIN t.read = DOMAIN s.read \ F
  /\ \A f \in DOMAIN t.read : t.read[f] = s.read[f]

LEMMA EndReadsIs ==
  ASSUME NEW s \in Servers, NEW F \in SUBSET Roots, NEW res \in Results
  PROVE  LET t == EndReads(s, F, res)
         IN /\ t \in Servers /\ Kept(s, t, {"task", "read"})
            /\ DOMAIN t.task = DOMAIN s.task
            /\ ReadsEnd(s, t, F, res)
<1> DEFINE goes(j) == [s.task[j] EXCEPT !.at = "read", !.got = res,
                                        !.fresh = j \in s.read[s.task[j].file].knows]
           tasks == [j \in DOMAIN s.task |->
                       IF s.task[j].at = "reading" /\ s.task[j].file \in F THEN goes(j)
                       ELSE s.task[j]]
           reads == Restrict(s.read, DOMAIN s.read \ F)
           t == [s EXCEPT !.task = tasks, !.read = reads]
<1>1. s.task \in Tables(AllIds, Tasks) /\ s.read \in Tables(Roots, Reads) BY DEF Servers
<1>2. DOMAIN s.task \subseteq AllIds /\ \A j \in DOMAIN s.task : s.task[j] \in Tasks BY <1>1, TableIs
<1>3. \A j \in DOMAIN s.task : goes(j) \in Tasks
  <2> TAKE j \in DOMAIN s.task
  <2> DEFINE knows == j \in s.read[s.task[j].file].knows
  <2>1. s.task[j] \in Tasks BY <1>2
  <2>2. knows \in BOOLEAN OBVIOUS
  <2> HIDE DEF knows
  <2>3. [s.task[j] EXCEPT !.at = "read", !.got = res, !.fresh = knows] \in Tasks
    BY <2>1, <2>2 DEF Tasks, Stages
  <2> QED BY <2>3 DEF knows
<1>4. tasks \in Tables(AllIds, Tasks)
  <2>1. tasks \in [DOMAIN s.task -> Tasks] BY <1>2, <1>3
  <2> QED BY <2>1, <1>2 DEF Tables
<1>5. reads \in Tables(Roots, Reads) BY <1>1, TableWithout
<1>6. DOMAIN reads = DOMAIN s.read \ F /\ \A f \in DOMAIN reads : reads[f] = s.read[f]
  BY DEF Restrict
<1>7. EndReads(s, F, res) = t BY DEF EndReads, Joined
<1> HIDE DEF reads
<1>8. /\ DOMAIN tasks = DOMAIN s.task
      /\ \A j \in DOMAIN s.task :
           tasks[j] = IF s.task[j].at = "reading" /\ s.task[j].file \in F THEN goes(j)
                      ELSE s.task[j]
  OBVIOUS
<1> HIDE DEF tasks
<1>9. t \in Servers /\ Kept(s, t, {"task", "read"}) /\ t.task = tasks /\ t.read = reads
  BY <1>4, <1>5 DEF Servers, Kept, ServerFields
<1> HIDE DEF t
<1> QED BY <1>6, <1>7, <1>8, <1>9 DEF ReadsEnd

LEMMA DropReadsIs ==
  ASSUME NEW s \in Servers, NEW F \in SUBSET Roots
  PROVE  LET t == DropReads(s, F)
         IN /\ t \in Servers /\ Kept(s, t, {"task", "read", "gate"})
            /\ DOMAIN t.task = DOMAIN s.task
            /\ ReadsEnd(s, t, F, "busy")
            /\ t.gate.active = s.gate.active
            /\ ToSet(t.gate.waiting) = ToSet(s.gate.waiting) \ {ReadSlot(f) : f \in F}
            /\ IsInjective(s.gate.waiting) => IsInjective(t.gate.waiting)
<1> DEFINE m == Withdraw(s, {ReadSlot(f) : f \in F})
           t == EndReads(m, F, "busy")
<1>1. /\ m \in Servers /\ Kept(s, m, {"gate"})
      /\ m.gate.active = s.gate.active
      /\ ToSet(m.gate.waiting) = ToSet(s.gate.waiting) \ {ReadSlot(f) : f \in F}
      /\ IsInjective(s.gate.waiting) => IsInjective(m.gate.waiting)
  BY WithdrawIs
<1>2. m.task = s.task /\ m.read = s.read BY <1>1 DEF Kept, ServerFields
<1>3. DropReads(s, F) = t BY DEF DropReads
<1> HIDE DEF m
<1>4. "busy" \in Results BY DEF Results
<1>5. /\ t \in Servers /\ Kept(m, t, {"task", "read"})
      /\ DOMAIN t.task = DOMAIN m.task
      /\ ReadsEnd(m, t, F, "busy")
  BY <1>1, <1>4, EndReadsIs
<1> HIDE DEF t
<1>6. Kept(s, t, {"task", "read", "gate"}) /\ t.gate = m.gate BY <1>1, <1>5 DEF Kept, ServerFields
<1>7. ReadsEnd(s, t, F, "busy") BY <1>2, <1>5 DEF ReadsEnd
<1> QED BY <1>1, <1>2, <1>3, <1>5, <1>6, <1>7

\* The connections that close, the lists they waited for, and the reads that go.
Closing(s, C)   == {c \in C : s.conn[c].open}
ListsOf(s, C)   == {i \in DOMAIN s.task : s.task[i].by \in Closing(s, C) /\ QueuedList(s, i)}
FilesOf(s, C)   == {f \in DOMAIN s.read : s.read[f].by \in Closing(s, C) /\ s.read[f].at = "queued"}

\* From s to t the open ones of C close.
ConnsClose(s, t, C, last) ==
  /\ \A c \in Conns :
       t.conn[c] = IF c \in Closing(s, C)
                   THEN [s.conn[c] EXCEPT !.open = FALSE, !.inflight = @ \ ListsOf(s, C),
                                          !.wire = IF c \in Heard THEN @ \o last ELSE @]
                   ELSE s.conn[c]
  /\ DOMAIN t.task = DOMAIN s.task \ ListsOf(s, C)
  /\ ReadsEnd(s, t, FilesOf(s, C), "busy")
  /\ t.gate.active = s.gate.active
  /\ ToSet(t.gate.waiting) =
       ToSet(s.gate.waiting) \ ({ListSlot(i) : i \in ListsOf(s, C)}
                                  \cup {ReadSlot(f) : f \in FilesOf(s, C)})
  /\ IsInjective(s.gate.waiting) => IsInjective(t.gate.waiting)

LEMMA CloseConnsIs ==
  ASSUME NEW s \in Servers, NEW C \in SUBSET Conns, NEW last \in Seq(Frames)
  PROVE  LET t == CloseConns(s, C, last)
         IN /\ t \in Servers /\ Kept(s, t, {"conn", "task", "read", "gate"})
            /\ ConnsClose(s, t, C, last)
<1> DEFINE lists == ListsOf(s, C)
           files == FilesOf(s, C)
           side(c) == [s.conn[c] EXCEPT !.open = FALSE, !.inflight = @ \ lists,
                                        !.wire = IF c \in Heard THEN @ \o last ELSE @]
           conns == [c \in Conns |-> IF c \in Closing(s, C) THEN side(c) ELSE s.conn[c]]
           tasks == Restrict(s.task, DOMAIN s.task \ lists)
           left  == [s EXCEPT !.task = tasks, !.conn = conns]
           calm  == Withdraw(left, {ListSlot(i) : i \in lists})
           t     == DropReads(calm, files)
<1>1. CloseConns(s, C, last) = t
  <2>1. [s EXCEPT !.task = Restrict(@, DOMAIN @ \ lists),
                  !.conn = [c \in Conns |-> IF c \in Closing(s, C) THEN side(c) ELSE @[c]]] = left
    OBVIOUS
  <2> QED BY <2>1 DEF CloseConns, Closing, ListsOf, FilesOf
<1>2. \A c \in Conns : s.conn[c] \in Sides BY DEF Servers
<1>3. \A c \in Conns : side(c) \in Sides
  <2> TAKE c \in Conns
  <2>1. s.conn[c] \in Sides BY <1>2
  <2> DEFINE w == IF c \in Heard THEN s.conn[c].wire \o last ELSE s.conn[c].wire
  <2>2. w \in Seq(Frames) BY <2>1 DEF Sides
  <2> HIDE DEF w
  <2>3. [s.conn[c] EXCEPT !.open = FALSE, !.inflight = @ \ lists, !.wire = w] \in Sides
    BY <2>1, <2>2 DEF Sides
  <2> QED BY <2>3 DEF w
<1>4. conns \in [Conns -> Sides] BY <1>2, <1>3
<1>5. \A c \in Conns : conns[c] = IF c \in Closing(s, C) THEN side(c) ELSE s.conn[c] OBVIOUS
<1>6. s.task \in Tables(AllIds, Tasks) /\ s.read \in Tables(Roots, Reads) BY DEF Servers
<1>7. tasks \in Tables(AllIds, Tasks) BY <1>6, TableWithout
<1>8. DOMAIN tasks = DOMAIN s.task \ lists /\ \A j \in DOMAIN tasks : tasks[j] = s.task[j]
  BY DEF Restrict
<1>9. files \in SUBSET Roots BY <1>6, TableIs DEF FilesOf
<1> HIDE DEF side, conns, tasks, lists, files
<1>10. left \in Servers /\ Kept(s, left, {"conn", "task"}) /\ left.conn = conns /\ left.task = tasks
  BY <1>4, <1>7 DEF Servers, Kept, ServerFields
<1>11. left.read = s.read /\ left.gate = s.gate BY <1>10 DEF Kept, ServerFields
<1> HIDE DEF left
<1>12. /\ calm \in Servers /\ Kept(left, calm, {"gate"})
       /\ calm.gate.active = left.gate.active
       /\ ToSet(calm.gate.waiting) = ToSet(left.gate.waiting) \ {ListSlot(i) : i \in lists}
       /\ IsInjective(left.gate.waiting) => IsInjective(calm.gate.waiting)
  BY <1>10, WithdrawIs
<1>13. calm.conn = conns /\ calm.task = tasks /\ calm.read = s.read /\ Kept(s, calm, {"conn", "task", "gate"})
  BY <1>10, <1>11, <1>12 DEF Kept, ServerFields
<1> HIDE DEF calm
<1>14. /\ t \in Servers /\ Kept(calm, t, {"task", "read", "gate"})
       /\ DOMAIN t.task = DOMAIN calm.task
       /\ ReadsEnd(calm, t, files, "busy")
       /\ t.gate.active = calm.gate.active
       /\ ToSet(t.gate.waiting) = ToSet(calm.gate.waiting) \ {ReadSlot(f) : f \in files}
       /\ IsInjective(calm.gate.waiting) => IsInjective(t.gate.waiting)
  BY <1>9, <1>12, DropReadsIs
<1> HIDE DEF t
<1>15. t \in Servers /\ Kept(s, t, {"conn", "task", "read", "gate"}) /\ t.conn = conns
  BY <1>13, <1>14 DEF Kept, ServerFields
<1>16. /\ DOMAIN t.task = DOMAIN s.task \ lists
       /\ ReadsEnd(s, t, files, "busy")
  BY <1>8, <1>13, <1>14 DEF ReadsEnd
<1>17. /\ t.gate.active = s.gate.active
       /\ ToSet(t.gate.waiting) = ToSet(s.gate.waiting) \ ({ListSlot(i) : i \in lists}
                                                             \cup {ReadSlot(f) : f \in files})
       /\ IsInjective(s.gate.waiting) => IsInjective(t.gate.waiting)
  BY <1>11, <1>12, <1>14
<1> QED BY <1>1, <1>5, <1>15, <1>16, <1>17 DEF side, lists, files, ConnsClose

-------------------------------------------------------------------------------
(* What holds of a server: W are the wishes, and cl are the clients *)

\* Whose request id is, and what the id says of it.
Owns(W, c, id) ==
  \/ id[1] = "write" /\ id[2] \in DOMAIN W /\ W[id[2]].by = c /\ c \in Pages
  \/ id[1] \in {"list", "models", "roots"} /\ c \in Listers
Fits(W, id, kind, file) ==
  IF id[1] = "write" THEN kind = W[id[2]].kind /\ file = W[id[2]].file
  ELSE kind = id[1] /\ file = "none"
StageOf(kind) ==
  CASE kind = "list" -> {"new", "queued", "running"}
    [] kind = "models" -> {"new", "asking"}
    [] kind = "roots" -> {"new"}
    [] kind = "resume" -> {"new", "reading", "read", "creating", "session", "starting", "failed"}
    [] OTHER -> {"new", "creating", "session", "starting", "failed"}

TaskSound(W, i, r) ==
  /\ Owns(W, r.by, i) /\ Fits(W, i, r.kind, r.file)
  /\ r.at \in StageOf(r.kind)
  /\ r.kind \in PageWishes /\ r.at # "new" => r.file \in Roots
  /\ r.at = "running" => r.seen \in Listings
TasksSound(s, W) == \A i \in DOMAIN s.task : TaskSound(W, i, s.task[i])

FrameSound(W, c, f) ==
  /\ f.t \in {"close", "welcome"} => f.id = NoId
  /\ f.t \in {"ack", "models-list", "roots-list", "sessions"} => f.id # NoId
  /\ f.id # NoId => Owns(W, c, f.id)
  /\ f.t # "sessions" /\ f.id # NoId => Fits(W, f.id, f.kind, f.file)
  /\ f.t = "sessions" => f.id[1] = "list"
  /\ f.t = "ack" => f.id[1] = "write"
  /\ f.t = "models-list" => f.id[1] = "models"
  /\ f.t = "roots-list" => f.id[1] = "roots"
WiresSound(s, W) ==
  \A c \in Conns : \A k \in DOMAIN s.conn[c].wire : FrameSound(W, c, s.conn[c].wire[k])

\* A resume that is past its second read has evidence of its own; and whoever may
\* still join a read for the second time was there when that read began.
EvidenceOf(s, i) ==
  LET r == s.task[i]
  IN r.kind = "resume" =>
       /\ r.at \in {"creating", "session", "starting"} =>
            r.fresh /\ r.got = "listed" /\ (r.live # 0 => r.live = r.named)
       /\ r.at = "read" => r.got # "none" /\ (r.round = 2 /\ r.got \in Evidence => r.fresh)
       /\ (r.at = "read" \/ (r.at = "reading" /\ r.round = 2)) /\ r.file \in DOMAIN s.read
            /\ s.read[r.file].at = "reading" => i \in s.read[r.file].knows
EvidenceSound(s) == \A i \in DOMAIN s.task : EvidenceOf(s, i)

\* A page of the list is a stretch of the version it names; the answer to the last
\* request begins where that asked.
PageSound(versions, f, u) ==
  /\ f.version \in 1 .. Len(versions)
  /\ f.id[2] <= u.seq
  /\ LET list == versions[f.version]
     IN \E from \in 0 .. Len(list) :
          /\ f.next \in from .. Len(list)
          /\ f.rows = ToSet(SubSeq(list, from + 1, f.next))
          /\ f.more = (f.next < Len(list))
          /\ f.id[2] = u.seq => from = u.offset
PagesSound(s, cl) ==
  /\ \A c \in Conns : \A k \in DOMAIN s.conn[c].wire :
       s.conn[c].wire[k].t = "sessions" => PageSound(s.versions, s.conn[c].wire[k], cl[c])
  /\ \A i \in DOMAIN s.task :
       i[1] = "list" => LET u == cl[s.task[i].by]
                        IN i[2] <= u.seq /\ (i[2] = u.seq => s.task[i].named = u.offset)

Slotted(s) == \A c \in Conns : s.conn[c].inflight = {i \in DOMAIN s.task : s.task[i].by = c}
Awaited(s) ==
  \A i \in DOMAIN s.task :
    /\ s.task[i].at = "reading" => s.task[i].file \in DOMAIN s.read
    /\ s.task[i].at = "creating" => s.host[s.task[i].file].sess = "creating"
TokensHold(s) == \A c \in Conns : s.conn[c].open /\ s.conn[c].authed => TokenOf[c] \in s.tokens
ShutWhenDisposed(s) == s.disposed => \A c \in Conns : ~s.conn[c].open

WishesSound(W) ==
  \A k \in DOMAIN W : W[k].by \in Pages => /\ W[k].kind \in PageWishes /\ W[k].file \in Files
                                           /\ W[k].n \in Nat
Sound(s, W, cl) ==
  /\ s \in Servers /\ WishesSound(W)
  /\ TasksSound(s, W) /\ WiresSound(s, W) /\ EvidenceSound(s) /\ PagesSound(s, cl)
  /\ Slotted(s) /\ Awaited(s) /\ TokensHold(s) /\ ShutWhenDisposed(s)

\* The gate knows its holders and waiters but for those in out, whose slot is about
\* to be taken or was just given back.
QueuedSlots(s) ==
  {ListSlot(i) : i \in {j \in DOMAIN s.task : s.task[j].at = "queued"}}
    \cup {ReadSlot(f) : f \in {h \in DOMAIN s.read : s.read[h].at = "queued"}}
BusySlots(s) ==
  {ListSlot(i) : i \in {j \in DOMAIN s.task : s.task[j].at = "running"}}
    \cup {ReadSlot(f) : f \in {h \in DOMAIN s.read : s.read[h].at = "reading"}}
GateSound(s, out) ==
  /\ s.gate.active = BusySlots(s) \ out
  /\ ToSet(s.gate.waiting) = QueuedSlots(s) \ out
  /\ IsInjective(s.gate.waiting)
  /\ IsFiniteSet(s.gate.active)
  /\ Cardinality(s.gate.active) <= GateLimit
  /\ s.gate.waiting # << >> => ~Room(s)
Well(s, W, cl, out) == Sound(s, W, cl) /\ GateSound(s, out)

-------------------------------------------------------------------------------
(* What a step of the server keeps for those it serves *)

Ended(s, c) == \E k \in DOMAIN s.conn[c].wire : s.conn[c].wire[k].t = "close"
\* The answer to id is on the wire of c, or its end, or the request is being served.
Pledged(s, c, id) ==
  \/ \E k \in DOMAIN s.conn[c].wire : s.conn[c].wire[k].id = id \/ s.conn[c].wire[k].t = "close"
  \/ s.conn[c].open /\ id \in DOMAIN s.task /\ s.task[id].by = c
Longer(v, w) == Len(v) <= Len(w) /\ \A k \in 1 .. Len(v) : w[k] = v[k]

\* From s to t: nobody is reopened, what was pledged to D still is, and D is told
\* of its end; versions are only added.
Serves(s, t, D) ==
  /\ \A c \in Conns : t.conn[c].open => s.conn[c].open
  /\ \A c \in Conns : ~s.conn[c].open /\ ~s.conn[c].authed => ~t.conn[c].authed
  /\ \A c \in Conns : Ended(s, c) => Ended(t, c)
  /\ \A c \in D : s.conn[c].open => t.conn[c].open \/ Ended(t, c)
  /\ \A c \in D : \A id \in AllIds : Pledged(s, c, id) => Pledged(t, c, id)
  /\ Longer(s.versions, t.versions)

LEMMA ServesSelf == ASSUME NEW s, NEW D PROVE Serves(s, s, D)
  BY DEF Serves, Longer

LEMMA ServesThrough ==
  ASSUME NEW s \in Servers, NEW m \in Servers, NEW t \in Servers, NEW D \in SUBSET Conns,
         Serves(s, m, D), Serves(m, t, D)
  PROVE  Serves(s, t, D)
<1>1. Longer(s.versions, t.versions)
  <2>1. Len(s.versions) \in Nat /\ Len(m.versions) \in Nat /\ Len(t.versions) \in Nat
    BY DEF Servers
  <2> QED BY <2>1 DEF Serves, Longer
<1> QED BY <1>1 DEF Serves

LEMMA ServesOn ==
  ASSUME NEW s \in Servers, NEW m \in Servers, NEW t \in Servers,
         Serves(s, m, Heard), Serves(m, t, Heard)
  PROVE  Serves(s, t, Heard)
<1>1. Heard \in SUBSET Conns BY HostAssumption DEF Heard
<1> QED BY <1>1, ServesThrough

\* c's wire holds what it held, and more of F.
Wired(s, t, c, F) ==
  /\ \A k \in DOMAIN s.conn[c].wire :
       k \in DOMAIN t.conn[c].wire /\ t.conn[c].wire[k] = s.conn[c].wire[k]
  /\ \A k \in DOMAIN t.conn[c].wire :
       \/ k \in DOMAIN s.conn[c].wire /\ t.conn[c].wire[k] = s.conn[c].wire[k]
       \/ t.conn[c].wire[k] \in F

LEMMA SidesAre ==
  ASSUME NEW s \in Servers, NEW c \in Conns
  PROVE  s.conn[c] \in Sides /\ s.conn[c].wire \in Seq(Frames)
         /\ DOMAIN s.conn[c].wire = 1 .. Len(s.conn[c].wire) /\ Len(s.conn[c].wire) \in Nat
  BY DEF Servers, Sides

LEMMA TasksAre ==
  ASSUME NEW s \in Servers, NEW i \in DOMAIN s.task
  PROVE  s.task[i] \in Tasks /\ s.task[i].by \in Conns /\ i \in AllIds
<1>1. s.task \in Tables(AllIds, Tasks) BY DEF Servers
<1>2. s.task[i] \in Tasks /\ i \in AllIds BY <1>1, TableIs
<1> QED BY <1>2 DEF Tasks

\* A gate that stays as it is, with its users.
LEMMA GateKept ==
  ASSUME NEW s, NEW t, NEW out, GateSound(s, out),
         t.gate = s.gate, t.task = s.task, t.read = s.read
  PROVE  GateSound(t, out)
  BY DEF GateSound, QueuedSlots, BusySlots, Room

LEMMA SentWired ==
  ASSUME NEW s \in Servers, NEW c \in Conns, NEW f \in Frames
  PROVE  LET t == Sent(s, c, f)
         IN \A d \in Conns :
              /\ t.conn[d].open = s.conn[d].open /\ t.conn[d].authed = s.conn[d].authed
              /\ t.conn[d].inflight = s.conn[d].inflight /\ t.conn[d].strikes = s.conn[d].strikes
              /\ Wired(s, t, d, IF d = c THEN {f} ELSE {})
              /\ d = c /\ s.conn[c].open /\ c \in Heard => f \in ToSet(t.conn[c].wire)
<1> DEFINE t == Sent(s, c, f)
<1>1. ~(s.conn[c].open /\ c \in Heard) => t = s
  BY SentIs
<1>2. s.conn[c].open /\ c \in Heard =>
        \A d \in Conns :
          t.conn[d] = IF d = c THEN [s.conn[c] EXCEPT !.wire = Append(@, f)] ELSE s.conn[d]
  BY SentIs
<1> HIDE DEF t
<1> SUFFICES ASSUME NEW d \in Conns
             PROVE  /\ t.conn[d].open = s.conn[d].open /\ t.conn[d].authed = s.conn[d].authed
                    /\ t.conn[d].inflight = s.conn[d].inflight
                    /\ t.conn[d].strikes = s.conn[d].strikes
                    /\ Wired(s, t, d, IF d = c THEN {f} ELSE {})
                    /\ d = c /\ s.conn[c].open /\ c \in Heard => f \in ToSet(t.conn[c].wire)
  BY DEF t
<1>3. CASE ~(s.conn[c].open /\ c \in Heard) \/ d # c
  BY <1>1, <1>2, <1>3 DEF Wired
<1>4. CASE s.conn[c].open /\ c \in Heard /\ d = c
  <2> DEFINE w == s.conn[c].wire
  <2>1. s.conn[c] \in Sides /\ w \in Seq(Frames) /\ Len(w) \in Nat /\ DOMAIN w = 1 .. Len(w)
    BY SidesAre
  <2>2. t.conn[c] = [s.conn[c] EXCEPT !.wire = Append(@, f)] BY <1>2, <1>4
  <2>3. /\ t.conn[c].open = s.conn[c].open /\ t.conn[c].authed = s.conn[c].authed
        /\ t.conn[c].inflight = s.conn[c].inflight /\ t.conn[c].strikes = s.conn[c].strikes
        /\ t.conn[c].wire = Append(w, f)
    BY <2>1, <2>2 DEF Sides
  <2> HIDE DEF w
  <2>4. /\ DOMAIN Append(w, f) = 1 .. Len(w) + 1
        /\ \A k \in 1 .. Len(w) : Append(w, f)[k] = w[k]
        /\ Append(w, f)[Len(w) + 1] = f
    BY <2>1, AppendProperties
  <2>5. \A k \in DOMAIN Append(w, f) : k \in DOMAIN w \/ k = Len(w) + 1 BY <2>1, <2>4
  <2>6. \A k \in DOMAIN w : k \in DOMAIN Append(w, f) /\ Append(w, f)[k] = w[k] BY <2>1, <2>4
  <2>7. Wired(s, t, c, {f}) BY <2>3, <2>4, <2>5, <2>6 DEF Wired, w
  <2>8. Len(w) + 1 \in DOMAIN Append(w, f) BY <2>1, <2>4
  <2> QED BY <1>4, <2>3, <2>4, <2>7, <2>8 DEF ToSet
<1> QED BY <1>3, <1>4

\* What does not touch the requests, the reads and the sessions keeps what it says of
\* them; here c's wire may get frames of F.
LEMMA TellingKeeps ==
  ASSUME NEW W, NEW cl, NEW out, NEW s, Well(s, W, cl, out), NEW t \in Servers,
         Kept(s, t, {"conn"}),
         \A d \in Conns : t.conn[d].open = s.conn[d].open /\ t.conn[d].inflight = s.conn[d].inflight,
         \A d \in Conns : t.conn[d].authed = s.conn[d].authed
                          \/ (s.conn[d].open /\ TokenOf[d] \in s.tokens),
         NEW F \in [Conns -> SUBSET Frames],
         \A d \in Conns : Wired(s, t, d, F[d]),
         \A d \in Conns : \A f \in F[d] : /\ FrameSound(W, d, f)
                                          /\ f.t = "sessions" => PageSound(s.versions, f, cl[d])
  PROVE  Well(t, W, cl, out) /\ Serves(s, t, Heard)
<1> DEFINE D == Heard
<1>1. Heard \subseteq Conns BY HostAssumption DEF Heard
<1>2. s \in Servers BY DEF Well, Sound
<1>3. /\ t.task = s.task /\ t.gate = s.gate /\ t.read = s.read /\ t.host = s.host
      /\ t.versions = s.versions /\ t.disposed = s.disposed /\ t.tokens = s.tokens
  BY DEF Kept, ServerFields
<1>4. TasksSound(t, W) BY <1>3 DEF Well, Sound, TasksSound
<1>5. WiresSound(t, W)
  <2> SUFFICES ASSUME NEW c \in Conns, NEW k \in DOMAIN t.conn[c].wire
               PROVE  FrameSound(W, c, t.conn[c].wire[k])
    BY DEF WiresSound
  <2>1. Wired(s, t, c, F[c]) OBVIOUS
  <2>2. WiresSound(s, W) BY DEF Well, Sound
  <2> QED BY <2>1, <2>2 DEF Wired, WiresSound
<1>6. EvidenceSound(t) BY <1>3 DEF Well, Sound, EvidenceSound, EvidenceOf
<1>7. PagesSound(t, cl)
  <2>1. PagesSound(s, cl) BY DEF Well, Sound
  <2>2. ASSUME NEW c \in Conns, NEW k \in DOMAIN t.conn[c].wire, t.conn[c].wire[k].t = "sessions"
        PROVE  PageSound(t.versions, t.conn[c].wire[k], cl[c])
    <3>1. Wired(s, t, c, F[c]) OBVIOUS
    <3> QED BY <3>1, <2>1, <2>2, <1>3 DEF Wired, PagesSound
  <2> QED BY <2>1, <2>2, <1>3 DEF PagesSound
<1>8. Slotted(t) BY <1>3 DEF Well, Sound, Slotted
<1>9. Awaited(t) BY <1>3 DEF Well, Sound, Awaited
<1>10. TokensHold(t) BY <1>3 DEF Well, Sound, TokensHold
<1>11. ShutWhenDisposed(t) BY <1>3 DEF Well, Sound, ShutWhenDisposed
<1>12. GateSound(t, out) BY <1>3, GateKept DEF Well
<1>13. Well(t, W, cl, out)
  BY <1>4, <1>5, <1>6, <1>7, <1>8, <1>9, <1>10, <1>11, <1>12 DEF Well, Sound
<1>14. Serves(s, t, D)
  <2>1. \A c \in Conns : t.conn[c].open => s.conn[c].open OBVIOUS
  <2>2. \A c \in Conns : ~s.conn[c].open /\ ~s.conn[c].authed => ~t.conn[c].authed OBVIOUS
  <2>3. \A c \in Conns : Ended(s, c) => Ended(t, c) BY DEF Ended, Wired
  <2>4. \A c \in D : \A id \in AllIds : Pledged(s, c, id) => Pledged(t, c, id)
    BY <1>1, <1>3 DEF Pledged, Wired
  <2>5. Longer(s.versions, t.versions)
    <3>1. Len(s.versions) \in Nat BY <1>2 DEF Servers
    <3> QED BY <1>3, <3>1 DEF Longer
  <2> QED BY <1>1, <2>1, <2>2, <2>3, <2>4, <2>5 DEF Serves
<1> QED BY <1>13, <1>14

LEMMA SentKeeps ==
  ASSUME NEW W, NEW cl, NEW out, NEW s, Well(s, W, cl, out),
         NEW c \in Conns, NEW f \in Frames, FrameSound(W, c, f),
         f.t = "sessions" => PageSound(s.versions, f, cl[c])
  PROVE  LET t == Sent(s, c, f)
         IN /\ Well(t, W, cl, out) /\ Serves(s, t, Heard)
            /\ Kept(s, t, {"conn"})
            /\ \A d \in Conns : t.conn[d].open = s.conn[d].open /\ t.conn[d].authed = s.conn[d].authed
            /\ s.conn[c].open /\ c \in Heard => f \in ToSet(t.conn[c].wire)
<1> DEFINE t == Sent(s, c, f)
           F == [d \in Conns |-> IF d = c THEN {f} ELSE {}]
<1>1. s \in Servers BY DEF Well, Sound
<1>2. t \in Servers /\ Kept(s, t, {"conn"}) BY <1>1, SentIs
<1>3. /\ \A d \in Conns :
           /\ t.conn[d].open = s.conn[d].open /\ t.conn[d].authed = s.conn[d].authed
           /\ t.conn[d].inflight = s.conn[d].inflight
           /\ Wired(s, t, d, F[d])
      /\ s.conn[c].open /\ c \in Heard => f \in ToSet(t.conn[c].wire)
  BY <1>1, SentWired
<1>4. F \in [Conns -> SUBSET Frames] OBVIOUS
<1>5. \A d \in Conns : \A h \in F[d] : /\ FrameSound(W, d, h)
                                       /\ h.t = "sessions" => PageSound(s.versions, h, cl[d])
  OBVIOUS
<1> HIDE DEF t, F
<1>6. Well(t, W, cl, out) /\ Serves(s, t, Heard)
  BY <1>2, <1>3, <1>4, <1>5, TellingKeeps
<1> QED BY <1>2, <1>3, <1>6 DEF t

\* i has its answer, or nobody is there to get one.
Answered(s, i) ==
  LET c == s.task[i].by
  IN s.conn[c].open => \E k \in DOMAIN s.conn[c].wire : s.conn[c].wire[k].id = i

LEMMA ForgetKeeps ==
  ASSUME NEW W, NEW cl, NEW out, NEW s, Well(s, W, cl, out),
         NEW i \in DOMAIN s.task, Answered(s, i),
         s.task[i].at \in {"queued", "running"} => ListSlot(i) \in out
  PROVE  LET t == Forget(s, i)
         IN /\ Well(t, W, cl, out \ {ListSlot(i)})
            /\ Serves(s, t, Heard)
            /\ Kept(s, t, {"conn", "task"})
<1> DEFINE t == Forget(s, i)
           c == s.task[i].by
<1>1. s \in Servers BY DEF Well, Sound
<1>2. /\ t \in Servers /\ Kept(s, t, {"conn", "task"})
      /\ DOMAIN t.task = DOMAIN s.task \ {i}
      /\ \A j \in DOMAIN t.task : t.task[j] = s.task[j]
      /\ \A d \in Conns :
           t.conn[d] = IF d = s.task[i].by THEN [s.conn[d] EXCEPT !.inflight = @ \ {i}]
                       ELSE s.conn[d]
  BY <1>1, ForgetIs
<1>3. c \in Conns BY <1>1, TasksAre
<1> HIDE DEF t, c
<1>4. /\ t.gate = s.gate /\ t.read = s.read /\ t.host = s.host
      /\ t.versions = s.versions /\ t.disposed = s.disposed /\ t.tokens = s.tokens
  BY <1>2 DEF Kept, ServerFields
<1>5. \A d \in Conns :
        /\ t.conn[d].open = s.conn[d].open /\ t.conn[d].authed = s.conn[d].authed
        /\ t.conn[d].wire = s.conn[d].wire
        /\ t.conn[d].inflight = IF d = c THEN s.conn[d].inflight \ {i} ELSE s.conn[d].inflight
  <2> TAKE d \in Conns
  <2>1. s.conn[d] \in Sides BY <1>1, SidesAre
  <2> QED BY <2>1, <1>2 DEF Sides, c
<1>6. TasksSound(t, W) BY <1>2 DEF Well, Sound, TasksSound
<1>7. WiresSound(t, W) BY <1>5 DEF Well, Sound, WiresSound
<1>8. EvidenceSound(t) BY <1>2, <1>4 DEF Well, Sound, EvidenceSound, EvidenceOf
<1>9. PagesSound(t, cl) BY <1>2, <1>4, <1>5 DEF Well, Sound, PagesSound
<1>10. Slotted(t)
  <2> SUFFICES ASSUME NEW d \in Conns
               PROVE  t.conn[d].inflight = {j \in DOMAIN t.task : t.task[j].by = d}
    BY DEF Slotted
  <2>1. s.conn[d].inflight = {j \in DOMAIN s.task : s.task[j].by = d} BY DEF Well, Sound, Slotted
  <2>2. {j \in DOMAIN t.task : t.task[j].by = d} = {j \in DOMAIN s.task : s.task[j].by = d} \ {i}
    BY <1>2
  <2>3. d # c => i \notin {j \in DOMAIN s.task : s.task[j].by = d} BY DEF c
  <2> QED BY <1>5, <2>1, <2>2, <2>3
<1>11. Awaited(t) BY <1>2, <1>4 DEF Well, Sound, Awaited
<1>12. TokensHold(t) BY <1>4, <1>5 DEF Well, Sound, TokensHold
<1>13. ShutWhenDisposed(t) BY <1>4, <1>5 DEF Well, Sound, ShutWhenDisposed
<1>14. GateSound(t, out \ {ListSlot(i)})
  <2>1. GateSound(s, out) BY DEF Well
  <2>2. \A j : ListSlot(j) = ListSlot(i) => j = i BY DEF ListSlot
  <2>3. \A f : ReadSlot(f) # ListSlot(i) BY DEF ListSlot, ReadSlot
  <2>4. BusySlots(t) = BusySlots(s) \ {ListSlot(i)}
    BY <1>2, <1>4, <2>2, <2>3 DEF BusySlots
  <2>5. QueuedSlots(t) = QueuedSlots(s) \ {ListSlot(i)}
    BY <1>2, <1>4, <2>2, <2>3 DEF QueuedSlots
  <2>6. ListSlot(i) \in BusySlots(s) \cup QueuedSlots(s) => ListSlot(i) \in out
    <3> SUFFICES ASSUME ListSlot(i) \in BusySlots(s) \cup QueuedSlots(s)
                 PROVE  s.task[i].at \in {"queued", "running"}
      OBVIOUS
    <3> QED BY <2>2, <2>3 DEF BusySlots, QueuedSlots
  <2> DEFINE rest == out \ {ListSlot(i)}
  <2>7. BusySlots(t) \ rest = BusySlots(s) \ out /\ QueuedSlots(t) \ rest = QueuedSlots(s) \ out
    BY <2>4, <2>5, <2>6
  <2> HIDE DEF rest
  <2> QED BY <2>1, <2>7, <1>4 DEF GateSound, Room, rest
<1>15. Well(t, W, cl, out \ {ListSlot(i)})
  BY <1>2, <1>6, <1>7, <1>8, <1>9, <1>10, <1>11, <1>12, <1>13, <1>14 DEF Well, Sound
<1>16. Serves(s, t, Heard)
  <2>1. \A d \in Conns : Ended(s, d) => Ended(t, d) BY <1>5 DEF Ended
  <2>2. Heard \subseteq Conns BY HostAssumption DEF Heard
  <2>3. \A d \in Heard : \A id \in AllIds : Pledged(s, d, id) => Pledged(t, d, id)
    <3> SUFFICES ASSUME NEW d \in Heard, NEW id \in AllIds, Pledged(s, d, id) PROVE Pledged(t, d, id)
      OBVIOUS
    <3>1. d \in Conns BY <2>2
    <3>2. CASE id = i /\ d = c
      <4>1. CASE s.conn[d].open
        <5>1. \E k \in DOMAIN s.conn[d].wire : s.conn[d].wire[k].id = i
          BY <3>2, <4>1 DEF Answered, c
        <5> QED BY <1>5, <3>1, <3>2, <5>1 DEF Pledged
      <4>2. CASE ~s.conn[d].open BY <1>5, <3>1, <4>2 DEF Pledged
      <4> QED BY <4>1, <4>2
    <3>3. CASE ~(id = i /\ d = c) BY <1>2, <1>5, <3>1, <3>3 DEF Pledged, c
    <3> QED BY <3>2, <3>3
  <2>4. Longer(s.versions, t.versions)
    <3>1. Len(s.versions) \in Nat BY <1>1 DEF Servers
    <3> QED BY <1>4, <3>1 DEF Longer
  <2> QED BY <1>5, <2>2, <2>1, <2>3, <2>4 DEF Serves
<1> QED BY <1>2, <1>15, <1>16 DEF t, c

-------------------------------------------------------------------------------
(* Requests that are answered *)

\* What a request's name and stage say of it.
LEMMA TaskFacts ==
  ASSUME NEW W, NEW cl, NEW s, Sound(s, W, cl), NEW i \in DOMAIN s.task
  PROVE  LET r == s.task[i]
         IN /\ r.by \in Heard /\ i # NoId
            /\ i[1] = "write" <=> r.kind \in PageWishes
            /\ i[1] # "write" => r.kind = i[1] /\ r.file = "none" /\ i[1] \in {"list", "models", "roots"}
            /\ r.at \in {"queued", "running"} => i \in ListIds
            /\ r.at = "asking" => i[1] = "models"
            /\ r.at \in {"reading", "read"} => r.kind = "resume"
            /\ r.at \in {"reading", "read", "creating", "session", "starting", "failed"} =>
                 i[1] = "write" /\ r.file \in Roots
<1> DEFINE r == s.task[i]
<1>1. r \in Tasks /\ i \in AllIds BY TasksAre DEF Sound
<1>2. TaskSound(W, i, r) BY DEF Sound, TasksSound
<1>3. r.by \in Heard /\ i # NoId BY <1>2 DEF TaskSound, Owns, NoId, Heard
<1>4. i[1] = "write" => r.kind \in PageWishes BY <1>2 DEF TaskSound, Owns, Fits, Sound, WishesSound
<1>5. i[1] # "write" =>
        r.kind = i[1] /\ r.file = "none" /\ i[1] \in {"list", "models", "roots"}
  BY <1>2 DEF TaskSound, Owns, Fits
<1>6. i[1] = "write" <=> r.kind \in PageWishes BY <1>4, <1>5 DEF PageWishes
<1>7. r.at \in StageOf(r.kind) /\ (r.kind \in PageWishes /\ r.at # "new" => r.file \in Roots)
  BY <1>2 DEF TaskSound
<1>8. r.kind = "list" => i \in ListIds BY <1>1, <1>5, <1>6 DEF PageWishes, AllIds, ListIds
<1>9. r.kind \in {"list", "models", "roots", "prompt", "stop", "resume"}
  BY <1>1 DEF Tasks, Kinds, PageWishes
<1> HIDE DEF r
<1>10. /\ r.at \in {"queued", "running"} => r.kind = "list"
       /\ r.at = "asking" => r.kind = "models"
       /\ r.at \in {"reading", "read"} => r.kind = "resume"
       /\ r.at \in {"reading", "read", "creating", "session", "starting", "failed"} =>
            r.kind \in PageWishes
  BY <1>7, <1>9 DEF StageOf, PageWishes
<1>11. r.kind = "models" => i[1] = "models" BY <1>5, <1>6 DEF PageWishes
<1> QED BY <1>3, <1>5, <1>6, <1>7, <1>8, <1>10, <1>11 DEF r

\* The frames that may answer i, but for the page of a list.
MayTell(kind, i) ==
  /\ kind \in {"error", "ack", "models-list", "roots-list"}
  /\ kind = "ack" => i[1] = "write"
  /\ kind = "models-list" => i[1] = "models"
  /\ kind = "roots-list" => i[1] = "roots"

LEMMA ToldKeeps ==
  ASSUME NEW W, NEW cl, NEW out, NEW s, Well(s, W, cl, out),
         NEW i \in DOMAIN s.task,
         NEW kind, MayTell(kind, i),
         NEW code \in Nat, NEW res \in Outcomes
  PROVE  LET t == Told(s, i, kind, code, res)
         IN /\ Well(t, W, cl, out) /\ Serves(s, t, Heard)
            /\ Kept(s, t, {"conn"})
            /\ Answered(t, i)
            /\ \A d \in Conns : t.conn[d].open = s.conn[d].open
<1> DEFINE r == s.task[i]
           f == Frame(kind, i, r.kind, r.file, code, res)
           t == Sent(s, r.by, f)
<1>1. Told(s, i, kind, code, res) = t BY DEF Told
<1>2. Sound(s, W, cl) /\ s \in Servers BY DEF Well, Sound
<1>3. r \in Tasks /\ i \in AllIds /\ r.by \in Conns BY <1>2, TasksAre
<1>4. r.by \in Heard /\ i # NoId BY <1>2, TaskFacts
<1>5. f \in Frames BY <1>3 DEF Frame, Frames, Answers, Tasks, MayTell
<1>6. FrameSound(W, r.by, f)
  <2>1. TaskSound(W, i, r) BY <1>2 DEF Sound, TasksSound
  <2> QED BY <2>1, <1>4 DEF Frame, FrameSound, TaskSound, MayTell
<1>7. f.t # "sessions" /\ f.id = i BY DEF Frame, MayTell
<1> HIDE DEF f, t
<1>8. /\ Well(t, W, cl, out) /\ Serves(s, t, Heard)
      /\ Kept(s, t, {"conn"})
      /\ \A d \in Conns : t.conn[d].open = s.conn[d].open
      /\ s.conn[r.by].open /\ r.by \in Heard => f \in ToSet(t.conn[r.by].wire)
  BY <1>3, <1>5, <1>6, <1>7, SentKeeps DEF t
<1>9. t.task = s.task BY <1>8 DEF Kept, ServerFields
<1>10. Answered(t, i)
  <2>1. t.task[i].by = r.by /\ t.conn[r.by].open = s.conn[r.by].open BY <1>3, <1>8, <1>9
  <2> QED BY <1>4, <1>7, <1>8, <2>1 DEF Answered, ToSet
<1> QED BY <1>1, <1>8, <1>10

LEMMA AnswerKeeps ==
  ASSUME NEW W, NEW cl, NEW out, NEW s, Well(s, W, cl, out),
         NEW i \in DOMAIN s.task,
         s.task[i].at \in {"queued", "running"} => ListSlot(i) \in out,
         NEW kind, MayTell(kind, i),
         NEW code \in Nat, NEW res \in Outcomes
  PROVE  LET t == Forget(Told(s, i, kind, code, res), i)
         IN /\ Well(t, W, cl, out \ {ListSlot(i)}) /\ Serves(s, t, Heard)
            /\ Kept(s, t, {"conn", "task"})
<1> DEFINE m == Told(s, i, kind, code, res)
           t == Forget(m, i)
<1>1. /\ Well(m, W, cl, out) /\ Serves(s, m, Heard)
      /\ Kept(s, m, {"conn"})
      /\ Answered(m, i)
  BY ToldKeeps
<1>2. m.task = s.task BY <1>1 DEF Kept, ServerFields
<1> HIDE DEF m
<1>3. i \in DOMAIN m.task /\ (m.task[i].at \in {"queued", "running"} => ListSlot(i) \in out) BY <1>2
<1>4. /\ Well(t, W, cl, out \ {ListSlot(i)}) /\ Serves(m, t, Heard)
      /\ Kept(m, t, {"conn", "task"})
  BY <1>1, <1>3, ForgetKeeps
<1> HIDE DEF t
<1>5. s \in Servers /\ m \in Servers /\ t \in Servers BY <1>1, <1>4 DEF Well, Sound
<1>6. Serves(s, t, Heard) BY <1>1, <1>4, <1>5, ServesOn
<1>7. Kept(s, t, {"conn", "task"}) BY <1>1, <1>4 DEF Kept, ServerFields
<1> QED BY <1>4, <1>6, <1>7 DEF t, m

LEMMA AckedKeeps ==
  ASSUME NEW W, NEW cl, NEW s, Well(s, W, cl, {}),
         NEW i \in DOMAIN s.task, i[1] = "write", NEW res \in Outcomes
  PROVE  LET t == Acked(s, i, res)
         IN /\ Well(t, W, cl, {}) /\ Serves(s, t, Heard)
            /\ Kept(s, t, {"conn", "task"})
<1>1. s.task[i].at \notin {"queued", "running"} BY TaskFacts DEF Well, ListIds
<1>2. {} \ {ListSlot(i)} = {} OBVIOUS
<1>3. MayTell("ack", i) /\ 0 \in Nat BY DEF MayTell
<1> DEFINE t == Forget(Told(s, i, "ack", 0, res), i)
<1>4. /\ Well(t, W, cl, {} \ {ListSlot(i)}) /\ Serves(s, t, Heard)
      /\ Kept(s, t, {"conn", "task"})
  BY <1>1, <1>3, AnswerKeeps
<1>5. Acked(s, i, res) = t BY DEF Acked
<1> HIDE DEF t
<1> QED BY <1>2, <1>4, <1>5

LEMMA FailedKeeps ==
  ASSUME NEW W, NEW cl, NEW out, NEW s, Well(s, W, cl, out),
         NEW i \in DOMAIN s.task,
         s.task[i].at \in {"queued", "running"} => ListSlot(i) \in out,
         NEW code \in Nat
  PROVE  LET t == Failed(s, i, code)
         IN /\ Well(t, W, cl, out \ {ListSlot(i)}) /\ Serves(s, t, Heard)
            /\ Kept(s, t, {"conn", "task"})
<1> DEFINE t == Forget(Told(s, i, "error", code, "none"), i)
<1>1. MayTell("error", i) /\ "none" \in Outcomes BY DEF MayTell, Outcomes
<1>2. /\ Well(t, W, cl, out \ {ListSlot(i)}) /\ Serves(s, t, Heard)
      /\ Kept(s, t, {"conn", "task"})
  BY <1>1, AnswerKeeps
<1>3. Failed(s, i, code) = t BY DEF Failed
<1> HIDE DEF t
<1> QED BY <1>2, <1>3

-------------------------------------------------------------------------------
(* The gate *)

LEMMA TailIs ==
  ASSUME NEW S, NEW w \in Seq(S), w # << >>, IsInjective(w)
  PROVE  /\ ToSet(Tail(w)) = ToSet(w) \ {Head(w)} /\ Head(w) \in ToSet(w)
         /\ IsInjective(Tail(w))
<1> DEFINE u == Tail(w)
<1>1. /\ DOMAIN w = 1 .. Len(w) /\ Len(w) \in Nat /\ Len(w) # 0
      /\ u \in Seq(S) /\ Len(u) = Len(w) - 1 /\ DOMAIN u = 1 .. Len(u)
      /\ \A k \in 1 .. Len(u) : u[k] = w[k + 1]
      /\ Head(w) = w[1]
  OBVIOUS
<1> HIDE DEF u
<1>2. 1 \in DOMAIN w /\ \A k \in DOMAIN u : k + 1 \in DOMAIN w /\ k + 1 # 1 BY <1>1
<1>3. \A k \in DOMAIN w : k # 1 => k - 1 \in DOMAIN u /\ u[k - 1] = w[k] BY <1>1
<1>4. \A k, l \in DOMAIN w : w[k] = w[l] => k = l BY DEF IsInjective
<1>5. ToSet(u) \subseteq ToSet(w) \ {w[1]} BY <1>1, <1>2, <1>4 DEF ToSet
<1>6. ToSet(w) \ {w[1]} \subseteq ToSet(u) BY <1>3 DEF ToSet
<1>7. IsInjective(u)
  <2> SUFFICES ASSUME NEW k \in DOMAIN u, NEW l \in DOMAIN u, u[k] = u[l] PROVE k = l
    BY DEF IsInjective
  <2>1. k + 1 = l + 1 BY <1>1, <1>2, <1>4
  <2> QED BY <1>1, <2>1
<1> QED BY <1>1, <1>2, <1>5, <1>6, <1>7 DEF u, ToSet

LEMMA AppendIs ==
  ASSUME NEW S, NEW w \in Seq(S), NEW x \in S, x \notin ToSet(w), IsInjective(w)
  PROVE  ToSet(Append(w, x)) = ToSet(w) \cup {x} /\ IsInjective(Append(w, x))
<1> DEFINE u == Append(w, x)
<1>1. /\ DOMAIN w = 1 .. Len(w) /\ Len(w) \in Nat
      /\ DOMAIN u = 1 .. Len(w) + 1
      /\ \A k \in 1 .. Len(w) : u[k] = w[k]
      /\ u[Len(w) + 1] = x
  OBVIOUS
<1> HIDE DEF u
<1>2. \A k \in DOMAIN u : (k \in DOMAIN w /\ u[k] = w[k]) \/ (k = Len(w) + 1 /\ u[k] = x)
  BY <1>1
<1>3. Len(w) + 1 \in DOMAIN u /\ \A k \in DOMAIN w : k \in DOMAIN u BY <1>1
<1>4. ToSet(u) = ToSet(w) \cup {x} BY <1>1, <1>2, <1>3 DEF ToSet
<1>5. \A k, l \in DOMAIN w : w[k] = w[l] => k = l BY DEF IsInjective
<1>6. \A k \in DOMAIN w : w[k] # x BY DEF ToSet
<1>7. IsInjective(u) BY <1>2, <1>5, <1>6 DEF IsInjective
<1> QED BY <1>4, <1>7 DEF u

LEMMA SlotFacts ==
  ASSUME NEW W, NEW cl, NEW s, Sound(s, W, cl)
  PROVE  /\ QueuedSlots(s) \subseteq Slots
         /\ QueuedSlots(s) \cap BusySlots(s) = {}
<1>1. s.read \in Tables(Roots, Reads) BY DEF Sound, Servers
<1>2. DOMAIN s.read \subseteq Roots BY <1>1, TableIs
<1>3. \A i \in DOMAIN s.task : s.task[i].at = "queued" => ListSlot(i) \in Slots
  BY TaskFacts DEF ListSlot, Slots
<1>4. \A f \in DOMAIN s.read : ReadSlot(f) \in Slots BY <1>2 DEF ReadSlot, Slots
<1>5. QueuedSlots(s) \subseteq Slots BY <1>3, <1>4 DEF QueuedSlots
<1>6. \A i, j, f, h : /\ ListSlot(i) # ReadSlot(f)
                      /\ ListSlot(i) = ListSlot(j) => i = j
                      /\ ReadSlot(f) = ReadSlot(h) => f = h
  BY DEF ListSlot, ReadSlot
<1>7. QueuedSlots(s) \cap BusySlots(s) = {} BY <1>6 DEF QueuedSlots, BusySlots
<1> QED BY <1>5, <1>7

\* The gate itself is not in what is said of the server.
LEMMA GateMoves ==
  ASSUME NEW W, NEW cl, NEW s, Sound(s, W, cl), NEW t \in Servers, Kept(s, t, {"gate"})
  PROVE  Sound(t, W, cl) /\ Serves(s, t, Heard) /\ QueuedSlots(t) = QueuedSlots(s)
         /\ BusySlots(t) = BusySlots(s)
<1>1. /\ t.conn = s.conn /\ t.task = s.task /\ t.read = s.read /\ t.host = s.host
      /\ t.versions = s.versions /\ t.disposed = s.disposed /\ t.tokens = s.tokens
  BY DEF Kept, ServerFields
<1>2. TasksSound(t, W) /\ WiresSound(t, W) BY <1>1 DEF Sound, TasksSound, WiresSound
<1>3. EvidenceSound(t) BY <1>1 DEF Sound, EvidenceSound, EvidenceOf
<1>4. PagesSound(t, cl) BY <1>1 DEF Sound, PagesSound
<1>5. Slotted(t) /\ Awaited(t) BY <1>1 DEF Sound, Slotted, Awaited
<1>6. TokensHold(t) /\ ShutWhenDisposed(t) BY <1>1 DEF Sound, TokensHold, ShutWhenDisposed
<1>7. Sound(t, W, cl) BY <1>2, <1>3, <1>4, <1>5, <1>6 DEF Sound
<1>8. Longer(s.versions, t.versions)
  <2>1. Len(s.versions) \in Nat BY DEF Sound, Servers
  <2> QED BY <1>1, <2>1 DEF Longer
<1>9. Serves(s, t, Heard) BY <1>1, <1>8 DEF Serves, Ended, Pledged
<1> QED BY <1>1, <1>7, <1>9 DEF QueuedSlots, BusySlots

\* From s to t some who waited for the gate were let through.
Admits(s, t) ==
  /\ Kept(s, t, {"gate", "task", "read"})
  /\ DOMAIN t.task = DOMAIN s.task /\ DOMAIN t.read = DOMAIN s.read
  /\ \A j \in DOMAIN s.task : s.task[j].at # "queued" => t.task[j] = s.task[j]
  /\ \A f \in DOMAIN s.read : s.read[f].at # "queued" => t.read[f] = s.read[f]

LEMMA GrantKeeps ==
  ASSUME NEW W, NEW cl, NEW s, Sound(s, W, cl), NEW h \in QueuedSlots(s)
  PROVE  LET t == Grant(s, h)
         IN /\ Sound(t, W, cl) /\ Serves(s, t, Heard) /\ Admits(s, t)
            /\ QueuedSlots(t) = QueuedSlots(s) \ {h} /\ BusySlots(t) = BusySlots(s) \cup {h}
            /\ t.gate.active = s.gate.active \cup {h} /\ t.gate.waiting = s.gate.waiting
<1> DEFINE t == Grant(s, h)
<1>1. s \in Servers /\ h \in Slots BY SlotFacts DEF Sound
<1>2. /\ t \in Servers
      /\ Kept(s, t, {"gate", "task", "read"})
      /\ t.gate.active = s.gate.active \cup {h} /\ t.gate.waiting = s.gate.waiting
      /\ DOMAIN t.task = DOMAIN s.task /\ DOMAIN t.read = DOMAIN s.read
      /\ \A j \in DOMAIN s.task :
           t.task[j] = IF h = ListSlot(j)
                       THEN [s.task[j] EXCEPT !.at = "running", !.seen = s.dir] ELSE s.task[j]
      /\ \A f \in DOMAIN s.read :
           t.read[f] = IF h = ReadSlot(f)
                       THEN [s.read[f] EXCEPT !.at = "reading", !.knows = DOMAIN s.task,
                                              !.snap = s.disk[f]]
                       ELSE s.read[f]
  BY <1>1, GrantIs
<1> HIDE DEF t
<1>3. /\ t.conn = s.conn /\ t.host = s.host
      /\ t.versions = s.versions /\ t.disposed = s.disposed /\ t.tokens = s.tokens
  BY <1>2 DEF Kept, ServerFields
<1>4. \A i, j, f, k : /\ ListSlot(i) # ReadSlot(f)
                      /\ ListSlot(i) = ListSlot(j) => i = j
                      /\ ReadSlot(f) = ReadSlot(k) => f = k
  BY DEF ListSlot, ReadSlot
<1>5. \A j \in DOMAIN s.task : h = ListSlot(j) => s.task[j].at = "queued"
  BY <1>4 DEF QueuedSlots
<1>6. \A f \in DOMAIN s.read : h = ReadSlot(f) => s.read[f].at = "queued"
  BY <1>4 DEF QueuedSlots
<1>7. \A j \in DOMAIN s.task :
        LET u == t.task[j]
            r == s.task[j]
        IN /\ u.by = r.by /\ u.kind = r.kind /\ u.file = r.file /\ u.named = r.named
           /\ u.round = r.round /\ u.got = r.got /\ u.fresh = r.fresh /\ u.live = r.live
           /\ u.at = IF h = ListSlot(j) THEN "running" ELSE r.at
  <2> TAKE j \in DOMAIN s.task
  <2>1. s.task[j] \in Tasks BY <1>1, TasksAre
  <2> QED BY <2>1, <1>2 DEF Tasks
<1>8. \A f \in DOMAIN s.read :
        /\ t.read[f].at = IF h = ReadSlot(f) THEN "reading" ELSE s.read[f].at
        /\ t.read[f].knows = IF h = ReadSlot(f) THEN DOMAIN s.task ELSE s.read[f].knows
  <2> TAKE f \in DOMAIN s.read
  <2>1. s.read \in Tables(Roots, Reads) BY <1>1 DEF Servers
  <2>2. s.read[f] \in Reads BY <2>1, TableIs
  <2> QED BY <2>2, <1>2 DEF Reads
<1>9. TasksSound(t, W)
  <2> SUFFICES ASSUME NEW j \in DOMAIN s.task PROVE TaskSound(W, j, t.task[j])
    BY <1>2 DEF TasksSound
  <2>1. TaskSound(W, j, s.task[j]) BY DEF Sound, TasksSound
  <2>2. CASE h # ListSlot(j) BY <1>2, <2>1, <2>2
  <2>3. CASE h = ListSlot(j)
    <3>1. s.task[j].kind = "list" BY <1>5, <2>3, TaskFacts DEF ListIds
    <3>2. "running" \in StageOf("list") /\ "list" \notin PageWishes BY DEF StageOf, PageWishes
    <3>3. t.task[j].seen \in Listings
      <4>1. s.task[j] \in Tasks /\ s.dir \in Listings BY <1>1, TasksAre DEF Servers
      <4>2. t.task[j] = [s.task[j] EXCEPT !.at = "running", !.seen = s.dir] BY <1>2, <2>3
      <4> QED BY <4>1, <4>2 DEF Tasks
    <3> QED BY <1>7, <2>1, <2>3, <3>1, <3>2, <3>3 DEF TaskSound
  <2> QED BY <2>2, <2>3
<1>10. WiresSound(t, W) BY <1>3 DEF Sound, WiresSound
<1>11. EvidenceSound(t)
  <2> SUFFICES ASSUME NEW j \in DOMAIN s.task PROVE EvidenceOf(t, j)
    BY <1>2 DEF EvidenceSound
  <2>1. EvidenceOf(s, j) BY DEF Sound, EvidenceSound
  <2>2. CASE h = ListSlot(j)
    <3>1. t.task[j].at = "running" BY <1>7, <2>2
    <3> QED BY <3>1 DEF EvidenceOf
  <2>3. CASE h # ListSlot(j)
    <3>1. t.task[j] = s.task[j] BY <1>2, <2>3
    <3> DEFINE f == s.task[j].file
    <3>2. f \in DOMAIN t.read /\ t.read[f].at = "reading" =>
            j \in t.read[f].knows
              \/ (f \in DOMAIN s.read /\ s.read[f].at = "reading"
                    /\ t.read[f].knows = s.read[f].knows)
      BY <1>2, <1>8
    <3> QED BY <2>1, <3>1, <3>2 DEF EvidenceOf
  <2> QED BY <2>2, <2>3
<1>12. PagesSound(t, cl)
  <2>1. \A j \in DOMAIN t.task : t.task[j].by = s.task[j].by /\ t.task[j].named = s.task[j].named
    BY <1>2, <1>7
  <2>2. PagesSound(s, cl) BY DEF Sound
  <2> QED BY <1>2, <1>3, <2>1, <2>2 DEF PagesSound
<1>13. Slotted(t)
  <2> SUFFICES ASSUME NEW d \in Conns
               PROVE  t.conn[d].inflight = {j \in DOMAIN t.task : t.task[j].by = d}
    BY DEF Slotted
  <2>1. s.conn[d].inflight = {j \in DOMAIN s.task : s.task[j].by = d} BY DEF Sound, Slotted
  <2> QED BY <1>2, <1>3, <1>7, <2>1
<1>14. Awaited(t) BY <1>2, <1>3, <1>7 DEF Sound, Awaited
<1>15. TokensHold(t) /\ ShutWhenDisposed(t) BY <1>3 DEF Sound, TokensHold, ShutWhenDisposed
<1>16. Sound(t, W, cl) BY <1>2, <1>9, <1>10, <1>11, <1>12, <1>13, <1>14, <1>15 DEF Sound
<1>17. Longer(s.versions, t.versions)
  <2>1. Len(s.versions) \in Nat BY <1>1 DEF Servers
  <2> QED BY <1>3, <2>1 DEF Longer
<1>18. Serves(s, t, Heard) BY <1>2, <1>3, <1>7, <1>17 DEF Serves, Ended, Pledged
<1>19. Admits(s, t) BY <1>2, <1>5, <1>6 DEF Admits
<1>20. /\ DOMAIN t.task = DOMAIN s.task /\ DOMAIN t.read = DOMAIN s.read
       /\ \A j \in DOMAIN s.task :
            t.task[j].at = IF h = ListSlot(j) THEN "running" ELSE s.task[j].at
       /\ \A f \in DOMAIN s.read :
            t.read[f].at = IF h = ReadSlot(f) THEN "reading" ELSE s.read[f].at
  BY <1>2, <1>7, <1>8
<1>21. QueuedSlots(t) = QueuedSlots(s) \ {h}
  <2>1. QueuedSlots(t) \subseteq QueuedSlots(s) \ {h} BY <1>20 DEF QueuedSlots
  <2>2. QueuedSlots(s) \ {h} \subseteq QueuedSlots(t) BY <1>20 DEF QueuedSlots
  <2> QED BY <2>1, <2>2
<1>22. BusySlots(t) = BusySlots(s) \cup {h}
  <2>1. BusySlots(t) \subseteq BusySlots(s) \cup {h} BY <1>20 DEF BusySlots
  <2>2. BusySlots(s) \subseteq BusySlots(t) BY <1>20, <1>4, <1>5, <1>6 DEF BusySlots
  <2>3. h \in BusySlots(t) BY <1>20 DEF BusySlots, QueuedSlots
  <2> QED BY <2>1, <2>2, <2>3
<1> QED BY <1>2, <1>16, <1>18, <1>19, <1>21, <1>22 DEF t

LEMMA EmptyQueue ==
  ASSUME NEW S, NEW w \in Seq(S)
  PROVE  ToSet(w) = {} <=> w = << >>
<1>1. w # << >> => 1 \in DOMAIN w OBVIOUS
<1>2. DOMAIN << >> = {} OBVIOUS
<1> QED BY <1>1, <1>2 DEF ToSet

\* One who is about to wait gets a slot, or a place in the queue.
LEMMA AcquireKeeps ==
  ASSUME NEW W, NEW cl, NEW s, NEW h \in QueuedSlots(s), Well(s, W, cl, {h})
  PROVE  LET t == Acquire(s, h)
         IN Well(t, W, cl, {}) /\ Serves(s, t, Heard) /\ Admits(s, t)
<1> DEFINE t == Acquire(s, h)
<1>1. Sound(s, W, cl) /\ GateSound(s, {h}) /\ s \in Servers BY DEF Well, Sound
<1>2. h \in Slots /\ QueuedSlots(s) \cap BusySlots(s) = {} /\ h \notin BusySlots(s)
  BY <1>1, SlotFacts
<1>3. s.gate \in Gates /\ s.gate.waiting \in Seq(Slots) BY <1>1 DEF Servers, Gates
<1>4. s.gate.active = BusySlots(s) /\ ToSet(s.gate.waiting) = QueuedSlots(s) \ {h}
  BY <1>1, <1>2 DEF GateSound
<1>5. CASE Room(s)
  <2> DEFINE u == Grant(s, h)
  <2>1. t = u BY <1>5 DEF Acquire
  <2>2. /\ Sound(u, W, cl) /\ Serves(s, u, Heard) /\ Admits(s, u)
        /\ QueuedSlots(u) = QueuedSlots(s) \ {h} /\ BusySlots(u) = BusySlots(s) \cup {h}
        /\ u.gate.active = s.gate.active \cup {h} /\ u.gate.waiting = s.gate.waiting
    BY <1>1, GrantKeeps
  <2> HIDE DEF u
  <2>3. s.gate.waiting = << >> BY <1>1, <1>5 DEF GateSound
  <2>4. IsFiniteSet(s.gate.active) /\ Cardinality(s.gate.active) < GateLimit
    BY <1>1, <1>5 DEF GateSound, Room
  <2>5. /\ IsFiniteSet(u.gate.active)
        /\ Cardinality(u.gate.active) = Cardinality(s.gate.active) + 1
    BY <1>2, <1>4, <2>2, <2>4, FS_AddElement
  <2>6. Cardinality(s.gate.active) \in Nat BY <2>4, FS_CardinalityType
  <2>7. Cardinality(u.gate.active) <= GateLimit BY <2>4, <2>5, <2>6, HostAssumption
  <2>8. GateSound(u, {}) BY <1>1, <1>4, <2>2, <2>3, <2>5, <2>7 DEF GateSound
  <2> QED BY <2>1, <2>2, <2>8 DEF Well
<1>6. CASE ~Room(s)
  <2> DEFINE u == [s EXCEPT !.gate.waiting = Append(@, h)]
  <2>1. t = u BY <1>6 DEF Acquire
  <2>2. u \in Servers /\ Kept(s, u, {"gate"}) /\ u.gate = [s.gate EXCEPT !.waiting = Append(@, h)]
    BY <1>1, <1>2, WaitIs
  <2> HIDE DEF u
  <2>3. u.gate.active = s.gate.active /\ u.gate.waiting = Append(s.gate.waiting, h)
    BY <1>3, <2>2 DEF Gates
  <2>4. /\ Sound(u, W, cl) /\ Serves(s, u, Heard)
        /\ QueuedSlots(u) = QueuedSlots(s) /\ BusySlots(u) = BusySlots(s)
    BY <1>1, <2>2, GateMoves
  <2>5. h \notin ToSet(s.gate.waiting) /\ IsInjective(s.gate.waiting)
    BY <1>1, <1>4 DEF GateSound
  <2>6. /\ ToSet(u.gate.waiting) = ToSet(s.gate.waiting) \cup {h}
        /\ IsInjective(u.gate.waiting)
    BY <1>2, <1>3, <2>3, <2>5, AppendIs
  <2>7. ~Room(u) BY <1>6, <2>3 DEF Room
  <2>8. GateSound(u, {}) BY <1>1, <1>4, <2>3, <2>4, <2>6, <2>7 DEF GateSound
  <2>9. Admits(s, u) BY <2>2 DEF Admits, Kept, ServerFields
  <2> QED BY <2>1, <2>4, <2>8, <2>9 DEF Well
<1> QED BY <1>5, <1>6 DEF t

\* A slot comes free, and the first of those who wait gets it.
LEMMA ReleaseKeeps ==
  ASSUME NEW W, NEW cl, NEW s, Well(s, W, cl, {}), NEW h \in BusySlots(s)
  PROVE  LET t == Release(s, h)
         IN Well(t, W, cl, {h}) /\ Serves(s, t, Heard) /\ Admits(s, t)
<1> DEFINE t == Release(s, h)
           freed == [s EXCEPT !.gate.active = @ \ {h}]
           next  == [freed EXCEPT !.gate.waiting = Tail(@)]
           hd    == Head(s.gate.waiting)
<1>1. Sound(s, W, cl) /\ GateSound(s, {}) /\ s \in Servers BY DEF Well, Sound
<1>2. QueuedSlots(s) \cap BusySlots(s) = {} BY <1>1, SlotFacts
<1>3. s.gate \in Gates /\ s.gate.waiting \in Seq(Slots) BY <1>1 DEF Servers, Gates
<1>4. s.gate.active = BusySlots(s) /\ ToSet(s.gate.waiting) = QueuedSlots(s)
  BY <1>1 DEF GateSound
<1>5. /\ t = IF s.gate.waiting = << >> THEN freed ELSE Grant(next, hd)
      /\ freed \in Servers /\ Kept(s, freed, {"gate"})
      /\ freed.gate = [s.gate EXCEPT !.active = @ \ {h}]
      /\ s.gate.waiting # << >> =>
           /\ next \in Servers /\ Kept(s, next, {"gate"})
           /\ next.gate.active = s.gate.active \ {h}
           /\ next.gate.waiting = Tail(s.gate.waiting)
  BY <1>1, ReleaseIs
<1> HIDE DEF t, freed, next
<1>6. IsFiniteSet(s.gate.active) /\ Cardinality(s.gate.active) \in Nat
  BY <1>1, FS_CardinalityType DEF GateSound
<1>7. /\ IsFiniteSet(s.gate.active \ {h})
      /\ Cardinality(s.gate.active \ {h}) = Cardinality(s.gate.active) - 1
  BY <1>4, <1>6, FS_RemoveElement
<1>8. CASE s.gate.waiting = << >>
  <2>1. t = freed BY <1>5, <1>8
  <2>2. freed.gate.active = s.gate.active \ {h} /\ freed.gate.waiting = << >>
    BY <1>3, <1>5, <1>8 DEF Gates
  <2>3. /\ Sound(freed, W, cl) /\ Serves(s, freed, Heard)
        /\ QueuedSlots(freed) = QueuedSlots(s) /\ BusySlots(freed) = BusySlots(s)
    BY <1>1, <1>5, GateMoves
  <2>4. Cardinality(s.gate.active \ {h}) <= GateLimit
    BY <1>1, <1>6, <1>7, HostAssumption DEF GateSound
  <2>5. QueuedSlots(s) = {} BY <1>3, <1>4, <1>8, EmptyQueue
  <2>6. GateSound(freed, {h})
    BY <1>1, <1>4, <1>7, <1>8, <2>2, <2>3, <2>4, <2>5 DEF GateSound
  <2>7. Admits(s, freed) BY <1>5 DEF Admits, Kept, ServerFields
  <2> QED BY <2>1, <2>3, <2>6, <2>7 DEF Well, t
<1>9. CASE s.gate.waiting # << >>
  <2> DEFINE u == Grant(next, hd)
  <2>1. t = u BY <1>5, <1>9
  <2>2. IsInjective(s.gate.waiting) BY <1>1 DEF GateSound
  <2>3. /\ ToSet(Tail(s.gate.waiting)) = ToSet(s.gate.waiting) \ {hd} /\ hd \in ToSet(s.gate.waiting)
        /\ IsInjective(Tail(s.gate.waiting))
    BY <1>3, <1>9, <2>2, TailIs
  <2>4. /\ Sound(next, W, cl) /\ Serves(s, next, Heard)
        /\ QueuedSlots(next) = QueuedSlots(s) /\ BusySlots(next) = BusySlots(s)
    BY <1>1, <1>5, <1>9, GateMoves
  <2>5. hd \in QueuedSlots(next) BY <1>4, <2>3, <2>4
  <2>6. /\ Sound(u, W, cl) /\ Serves(next, u, Heard) /\ Admits(next, u)
        /\ QueuedSlots(u) = QueuedSlots(next) \ {hd} /\ BusySlots(u) = BusySlots(next) \cup {hd}
        /\ u.gate.active = next.gate.active \cup {hd} /\ u.gate.waiting = next.gate.waiting
    BY <2>4, <2>5, GrantKeeps
  <2> HIDE DEF u, hd
  <2>7. hd \notin BusySlots(s) /\ hd # h BY <1>2, <2>4, <2>5
  <2>8. u.gate.active = (s.gate.active \ {h}) \cup {hd} /\ u.gate.waiting = Tail(s.gate.waiting)
    BY <1>5, <1>9, <2>6
  <2>9. /\ IsFiniteSet(u.gate.active)
        /\ Cardinality(u.gate.active) = Cardinality(s.gate.active)
    <3>1. hd \notin s.gate.active \ {h} BY <1>4, <2>7
    <3>2. /\ IsFiniteSet(u.gate.active)
          /\ Cardinality(u.gate.active) = Cardinality(s.gate.active \ {h}) + 1
      BY <1>7, <2>8, <3>1, FS_AddElement
    <3> QED BY <1>6, <1>7, <3>2
  <2>10. ~Room(u) BY <1>1, <1>9, <2>9 DEF GateSound, Room
  <2>11. u.gate.active = BusySlots(u) \ {h} BY <1>4, <2>4, <2>6, <2>7, <2>8
  <2>12. ToSet(u.gate.waiting) = QueuedSlots(u) \ {h} BY <1>2, <1>4, <2>3, <2>4, <2>6, <2>8
  <2>13. GateSound(u, {h})
    BY <1>1, <2>3, <2>8, <2>9, <2>10, <2>11, <2>12 DEF GateSound
  <2>14. Admits(s, u)
    <3>1. next.task = s.task /\ next.read = s.read BY <1>5, <1>9 DEF Kept, ServerFields
    <3>2. Kept(s, u, {"gate", "task", "read"}) BY <1>5, <1>9, <2>6 DEF Admits, Kept
    <3> QED BY <2>6, <3>1, <3>2 DEF Admits
  <2>15. Serves(s, u, Heard) BY <1>1, <1>5, <1>9, <2>4, <2>6, ServesOn DEF Sound
  <2> QED BY <2>1, <2>6, <2>13, <2>14, <2>15 DEF Well, t
<1> QED BY <1>8, <1>9 DEF t

LEMMA WithdrawKeeps ==
  ASSUME NEW W, NEW cl, NEW s, Well(s, W, cl, {}), NEW H \in SUBSET QueuedSlots(s)
  PROVE  LET t == Withdraw(s, H)
         IN /\ Well(t, W, cl, H) /\ Serves(s, t, Heard) /\ Kept(s, t, {"gate"})
<1> DEFINE t == Withdraw(s, H)
<1>1. Sound(s, W, cl) /\ GateSound(s, {}) /\ s \in Servers BY DEF Well, Sound
<1>2. /\ t \in Servers /\ Kept(s, t, {"gate"})
      /\ t.gate.active = s.gate.active
      /\ ToSet(t.gate.waiting) = ToSet(s.gate.waiting) \ H
      /\ IsInjective(s.gate.waiting) => IsInjective(t.gate.waiting)
  BY <1>1, WithdrawIs
<1> HIDE DEF t
<1>3. QueuedSlots(s) \cap BusySlots(s) = {} BY <1>1, SlotFacts
<1>4. /\ Sound(t, W, cl) /\ Serves(s, t, Heard)
      /\ QueuedSlots(t) = QueuedSlots(s) /\ BusySlots(t) = BusySlots(s)
  BY <1>1, <1>2, GateMoves
<1>5. s.gate.waiting \in Seq(Slots) /\ t.gate.waiting \in Seq(Slots)
  BY <1>1, <1>2 DEF Servers, Gates
<1>6. t.gate.waiting # << >> => s.gate.waiting # << >>
  BY <1>2, <1>5, EmptyQueue
<1>7. GateSound(t, H)
  BY <1>1, <1>2, <1>3, <1>4, <1>6 DEF GateSound, Room
<1> QED BY <1>2, <1>4, <1>7 DEF Well, t

-------------------------------------------------------------------------------
(* Reads *)

ReadSlots(F) == {ReadSlot(f) : f \in F}

LEMMA EndReadsKeeps ==
  ASSUME NEW W, NEW cl, NEW out, NEW s, Well(s, W, cl, out),
         NEW F \in SUBSET DOMAIN s.read, ReadSlots(F) \subseteq out,
         NEW res \in Results \ {"none"},
         res \in Evidence => \A f \in F : s.read[f].at = "reading"
  PROVE  LET t == EndReads(s, F, res)
         IN /\ Well(t, W, cl, out \ ReadSlots(F)) /\ Serves(s, t, Heard)
            /\ Kept(s, t, {"task", "read"})
<1> DEFINE t == EndReads(s, F, res)
<1>1. Sound(s, W, cl) /\ GateSound(s, out) /\ s \in Servers BY DEF Well, Sound
<1>2. s.read \in Tables(Roots, Reads) BY <1>1 DEF Servers
<1>3. F \in SUBSET Roots BY <1>2, TableIs
<1>4. /\ t \in Servers /\ Kept(s, t, {"task", "read"})
      /\ DOMAIN t.task = DOMAIN s.task
      /\ ReadsEnd(s, t, F, res)
  BY <1>1, <1>3, EndReadsIs
<1> HIDE DEF t
<1>5. /\ t.conn = s.conn /\ t.host = s.host /\ t.gate = s.gate
      /\ t.versions = s.versions /\ t.disposed = s.disposed /\ t.tokens = s.tokens
  BY <1>4 DEF Kept, ServerFields
<1>6. DOMAIN t.read = DOMAIN s.read \ F /\ \A f \in DOMAIN t.read : t.read[f] = s.read[f]
  BY <1>4 DEF ReadsEnd
<1> DEFINE Joins(j) == s.task[j].at = "reading" /\ s.task[j].file \in F
<1>7. \A j \in DOMAIN s.task : ~Joins(j) => t.task[j] = s.task[j]
  BY <1>4 DEF ReadsEnd
<1>8. \A j \in DOMAIN s.task :
        LET u == t.task[j]
            r == s.task[j]
        IN /\ u.by = r.by /\ u.kind = r.kind /\ u.file = r.file /\ u.named = r.named
           /\ u.round = r.round
           /\ Joins(j) => u.at = "read" /\ u.got = res /\ u.fresh = (j \in s.read[r.file].knows)
  <2> TAKE j \in DOMAIN s.task
  <2>1. s.task[j] \in Tasks BY <1>1, TasksAre
  <2>2. CASE ~Joins(j) BY <1>7, <2>2
  <2>3. CASE Joins(j)
    <3> DEFINE knows == j \in s.read[s.task[j].file].knows
    <3>1. t.task[j] = [s.task[j] EXCEPT !.at = "read", !.got = res, !.fresh = knows]
      BY <1>4, <2>3 DEF ReadsEnd
    <3>2. knows \in BOOLEAN OBVIOUS
    <3>3. knows = (j \in s.read[s.task[j].file].knows) OBVIOUS
    <3> HIDE DEF knows
    <3>4. t.task[j].fresh = knows BY <2>1, <3>1 DEF Tasks
    <3> QED BY <2>1, <3>1, <3>3, <3>4 DEF Tasks
  <2> QED BY <2>2, <2>3
<1>9. \A j \in DOMAIN s.task : t.task[j].by = s.task[j].by /\ t.task[j].named = s.task[j].named
  BY <1>8
<1>10. \A j \in DOMAIN s.task :
         t.task[j].at = IF Joins(j) THEN "read" ELSE s.task[j].at
  BY <1>7, <1>8
<1>11. TasksSound(t, W)
  <2> SUFFICES ASSUME NEW j \in DOMAIN s.task PROVE TaskSound(W, j, t.task[j])
    BY <1>4 DEF TasksSound
  <2>1. TaskSound(W, j, s.task[j]) BY <1>1 DEF Sound, TasksSound
  <2>2. CASE ~Joins(j) BY <1>7, <2>1, <2>2
  <2>3. CASE Joins(j)
    <3>1. s.task[j].kind = "resume" BY <1>1, <2>3, TaskFacts
    <3>2. "read" \in StageOf("resume") BY DEF StageOf
    <3> QED BY <1>8, <2>1, <2>3, <3>1, <3>2 DEF TaskSound
  <2> QED BY <2>2, <2>3
<1>12. WiresSound(t, W) BY <1>1, <1>5 DEF Sound, WiresSound
<1>13. EvidenceSound(t)
  <2> SUFFICES ASSUME NEW j \in DOMAIN s.task PROVE EvidenceOf(t, j)
    BY <1>4 DEF EvidenceSound
  <2>1. EvidenceOf(s, j) BY <1>1 DEF Sound, EvidenceSound
  <2>2. CASE ~Joins(j)
    <3>1. t.task[j] = s.task[j] BY <1>7, <2>2
    <3> QED BY <1>6, <2>1, <3>1 DEF EvidenceOf
  <2>3. CASE Joins(j)
    <3> DEFINE f == s.task[j].file
    <3>1. /\ t.task[j].at = "read" /\ t.task[j].got = res /\ t.task[j].file = f
          /\ t.task[j].fresh = (j \in s.read[f].knows)
          /\ t.task[j].round = s.task[j].round
      BY <1>8, <2>3
    <3>2. f \notin DOMAIN t.read BY <1>6, <2>3
    <3>3. s.task[j].kind = "resume" BY <1>1, <2>3, TaskFacts
    <3>4. f \in DOMAIN s.read BY <2>3
    <3>5. s.task[j].round = 2 /\ res \in Evidence => j \in s.read[f].knows
      BY <2>1, <2>3, <3>3, <3>4 DEF EvidenceOf
    <3> QED BY <3>1, <3>2, <3>5 DEF EvidenceOf
  <2> QED BY <2>2, <2>3
<1>14. PagesSound(t, cl)
  <2>1. PagesSound(s, cl) BY <1>1 DEF Sound
  <2> QED BY <1>4, <1>5, <1>9, <2>1 DEF PagesSound
<1>15. Slotted(t)
  <2> SUFFICES ASSUME NEW d \in Conns
               PROVE  t.conn[d].inflight = {j \in DOMAIN t.task : t.task[j].by = d}
    BY DEF Slotted
  <2>1. s.conn[d].inflight = {j \in DOMAIN s.task : s.task[j].by = d} BY <1>1 DEF Sound, Slotted
  <2> QED BY <1>4, <1>5, <1>9, <2>1
<1>16. Awaited(t)
  <2>1. Awaited(s) BY <1>1 DEF Sound
  <2> SUFFICES ASSUME NEW j \in DOMAIN s.task
               PROVE  /\ t.task[j].at = "reading" => t.task[j].file \in DOMAIN t.read
                      /\ t.task[j].at = "creating" => t.host[t.task[j].file].sess = "creating"
    BY <1>4 DEF Awaited
  <2>2. CASE ~Joins(j) BY <1>5, <1>6, <1>7, <2>1, <2>2 DEF Awaited
  <2>3. CASE Joins(j) BY <1>10, <2>3
  <2> QED BY <2>2, <2>3
<1>17. TokensHold(t) /\ ShutWhenDisposed(t) BY <1>1, <1>5 DEF Sound, TokensHold, ShutWhenDisposed
<1>18. Sound(t, W, cl) BY <1>1, <1>4, <1>11, <1>12, <1>13, <1>14, <1>15, <1>16, <1>17 DEF Sound
<1>19. Longer(s.versions, t.versions)
  <2>1. Len(s.versions) \in Nat BY <1>1 DEF Servers
  <2> QED BY <1>5, <2>1 DEF Longer
<1>20. Heard \subseteq Conns BY HostAssumption DEF Heard
<1>21. Serves(s, t, Heard) BY <1>4, <1>5, <1>9, <1>19, <1>20 DEF Serves, Ended, Pledged
<1>22. \A i, f, k : ListSlot(i) # ReadSlot(f) /\ (ReadSlot(f) = ReadSlot(k) => f = k)
  BY DEF ListSlot, ReadSlot
<1>23. QueuedSlots(t) = QueuedSlots(s) \ ReadSlots(F)
  <2>1. {j \in DOMAIN t.task : t.task[j].at = "queued"} = {j \in DOMAIN s.task : s.task[j].at = "queued"}
    BY <1>4, <1>10
  <2> QED BY <1>6, <1>22, <2>1 DEF QueuedSlots, ReadSlots
<1>24. BusySlots(t) = BusySlots(s) \ ReadSlots(F)
  <2>1. {j \in DOMAIN t.task : t.task[j].at = "running"} = {j \in DOMAIN s.task : s.task[j].at = "running"}
    BY <1>4, <1>10
  <2> QED BY <1>6, <1>22, <2>1 DEF BusySlots, ReadSlots
<1>25. GateSound(t, out \ ReadSlots(F))
  <2> DEFINE rest == out \ ReadSlots(F)
  <2>1. BusySlots(t) \ rest = BusySlots(s) \ out /\ QueuedSlots(t) \ rest = QueuedSlots(s) \ out
    BY <1>23, <1>24
  <2> HIDE DEF rest
  <2> QED BY <1>1, <1>5, <2>1 DEF GateSound, Room, rest
<1> QED BY <1>4, <1>18, <1>21, <1>25 DEF Well, t

LEMMA DropReadsKeeps ==
  ASSUME NEW W, NEW cl, NEW s, Well(s, W, cl, {}),
         NEW F \in SUBSET DOMAIN s.read, \A f \in F : s.read[f].at = "queued"
  PROVE  LET t == DropReads(s, F)
         IN Well(t, W, cl, {}) /\ Serves(s, t, Heard) /\ Kept(s, t, {"task", "read", "gate"})
<1> DEFINE m == Withdraw(s, {ReadSlot(f) : f \in F})
           t == EndReads(m, F, "busy")
<1>1. {ReadSlot(f) : f \in F} = ReadSlots(F) BY DEF ReadSlots
<1>2. ReadSlots(F) \in SUBSET QueuedSlots(s) BY DEF ReadSlots, QueuedSlots
<1>3. Well(m, W, cl, ReadSlots(F)) /\ Serves(s, m, Heard) /\ Kept(s, m, {"gate"})
  BY <1>1, <1>2, WithdrawKeeps
<1>4. m.read = s.read BY <1>3 DEF Kept, ServerFields
<1> HIDE DEF m
<1>5. F \in SUBSET DOMAIN m.read /\ ReadSlots(F) \subseteq ReadSlots(F) BY <1>4
<1>6. "busy" \in Results \ {"none"} /\ "busy" \notin Evidence BY DEF Results, Evidence
<1>7. /\ Well(t, W, cl, ReadSlots(F) \ ReadSlots(F)) /\ Serves(m, t, Heard)
      /\ Kept(m, t, {"task", "read"})
  BY <1>3, <1>5, <1>6, EndReadsKeeps
<1>8. ReadSlots(F) \ ReadSlots(F) = {} OBVIOUS
<1>9. DropReads(s, F) = t BY DEF DropReads, m
<1> HIDE DEF t
<1>10. Kept(s, t, {"task", "read", "gate"}) BY <1>3, <1>7 DEF Kept
<1>11. s \in Servers /\ m \in Servers /\ t \in Servers BY <1>3, <1>7 DEF Well, Sound
<1>12. Serves(s, t, Heard) BY <1>3, <1>7, <1>11, ServesOn
<1> QED BY <1>7, <1>8, <1>9, <1>10, <1>12

LEMMA FinishReadKeeps ==
  ASSUME NEW W, NEW cl, NEW s, Well(s, W, cl, {}),
         NEW f \in DOMAIN s.read, s.read[f].at = "reading", NEW res \in Results \ {"none"}
  PROVE  LET t == FinishRead(s, f, res)
         IN Well(t, W, cl, {}) /\ Serves(s, t, Heard) /\ Kept(s, t, {"task", "read", "gate"})
<1> DEFINE m == Release(s, ReadSlot(f))
           t == EndReads(m, {f}, res)
<1>1. ReadSlot(f) \in BusySlots(s) BY DEF BusySlots
<1>2. Well(m, W, cl, {ReadSlot(f)}) /\ Serves(s, m, Heard) /\ Admits(s, m)
  BY <1>1, ReleaseKeeps
<1> HIDE DEF m
<1>3. f \in DOMAIN m.read /\ m.read[f].at = "reading" BY <1>2 DEF Admits
<1>4. {f} \in SUBSET DOMAIN m.read /\ ReadSlots({f}) \subseteq {ReadSlot(f)}
      /\ (res \in Evidence => \A h \in {f} : m.read[h].at = "reading")
  BY <1>3 DEF ReadSlots
<1>5. /\ Well(t, W, cl, {ReadSlot(f)} \ ReadSlots({f})) /\ Serves(m, t, Heard)
      /\ Kept(m, t, {"task", "read"})
  BY <1>2, <1>4, EndReadsKeeps
<1>6. {ReadSlot(f)} \ ReadSlots({f}) = {} BY DEF ReadSlots
<1>7. FinishRead(s, f, res) = t BY DEF FinishRead, m
<1> HIDE DEF t
<1>8. Kept(s, t, {"task", "read", "gate"}) BY <1>2, <1>5 DEF Kept, Admits
<1>9. s \in Servers /\ m \in Servers /\ t \in Servers BY <1>2, <1>5 DEF Well, Sound
<1>10. Serves(s, t, Heard) BY <1>2, <1>5, <1>9, ServesOn
<1> QED BY <1>5, <1>6, <1>7, <1>8, <1>10

-------------------------------------------------------------------------------
(* Connections that close *)

\* What a connection is told last says nothing of its requests.
Farewell(last) ==
  /\ last \in Seq(Frames)
  /\ \A f \in ToSet(last) : f.t \in {"close", "error"} /\ f.id = NoId
Final(last) == \E f \in ToSet(last) : f.t = "close"

LEMMA AppendedIs ==
  ASSUME NEW S, NEW v \in Seq(S), NEW w \in Seq(S)
  PROVE  /\ \A k \in DOMAIN v : k \in DOMAIN (v \o w) /\ (v \o w)[k] = v[k]
         /\ \A k \in DOMAIN (v \o w) : (k \in DOMAIN v /\ (v \o w)[k] = v[k]) \/ (v \o w)[k] \in ToSet(w)
         /\ ToSet(w) \subseteq ToSet(v \o w)
<1>1. /\ DOMAIN v = 1 .. Len(v) /\ Len(v) \in Nat
      /\ DOMAIN w = 1 .. Len(w) /\ Len(w) \in Nat
      /\ DOMAIN (v \o w) = 1 .. Len(v) + Len(w)
      /\ \A k \in 1 .. Len(v) + Len(w) : (v \o w)[k] = IF k <= Len(v) THEN v[k] ELSE w[k - Len(v)]
  OBVIOUS
<1> DEFINE u == v \o w
<1> HIDE DEF u
<1>2. /\ DOMAIN u = 1 .. Len(v) + Len(w)
      /\ \A k \in 1 .. Len(v) + Len(w) : u[k] = IF k <= Len(v) THEN v[k] ELSE w[k - Len(v)]
  BY <1>1 DEF u
<1>3. \A k \in DOMAIN v : k \in DOMAIN u /\ u[k] = v[k] BY <1>1, <1>2
<1>4. \A k \in DOMAIN u : k \notin DOMAIN v => k - Len(v) \in DOMAIN w /\ u[k] = w[k - Len(v)]
  BY <1>1, <1>2
<1>5. \A k \in DOMAIN w : k + Len(v) \in DOMAIN u /\ u[k + Len(v)] = w[k]
  <2> TAKE k \in DOMAIN w
  <2>1. k + Len(v) \in 1 .. Len(v) + Len(w) /\ ~(k + Len(v) <= Len(v)) /\ (k + Len(v)) - Len(v) = k
    BY <1>1
  <2> QED BY <1>2, <2>1
<1>6. \A k \in DOMAIN u : (k \in DOMAIN v /\ u[k] = v[k]) \/ u[k] \in ToSet(w)
  BY <1>3, <1>4 DEF ToSet
<1>7. ToSet(w) \subseteq ToSet(u) BY <1>5 DEF ToSet
<1> QED BY <1>3, <1>6, <1>7 DEF u

\* From s to t the connections of C are closed, and only what waited is gone.
Closes(s, t, C) ==
  /\ Kept(s, t, {"conn", "task", "read", "gate"})
  /\ \A c \in Conns : /\ t.conn[c].open <=> (s.conn[c].open /\ c \notin C)
                      /\ t.conn[c].authed = s.conn[c].authed
  /\ \A i \in DOMAIN s.task :
       s.task[i].at \notin {"queued", "reading"} => i \in DOMAIN t.task /\ t.task[i] = s.task[i]

LEMMA CloseConnsKeeps ==
  ASSUME NEW W, NEW cl, NEW s, Well(s, W, cl, {}),
         NEW C \in SUBSET Conns, NEW last, Farewell(last),
         NEW D \in SUBSET Heard, Final(last) \/ D \cap C = {}
  PROVE  LET t == CloseConns(s, C, last)
         IN Well(t, W, cl, {}) /\ Serves(s, t, D) /\ Closes(s, t, C)
<1> DEFINE t == CloseConns(s, C, last)
           L == ListsOf(s, C)
           F == FilesOf(s, C)
<1>1. Heard \subseteq Conns BY HostAssumption DEF Heard
<1>2. Sound(s, W, cl) /\ GateSound(s, {}) /\ s \in Servers BY DEF Well, Sound
<1>3. last \in Seq(Frames) BY DEF Farewell
<1>4. /\ t \in Servers /\ Kept(s, t, {"conn", "task", "read", "gate"})
      /\ ConnsClose(s, t, C, last)
  BY <1>2, <1>3, CloseConnsIs
<1> HIDE DEF t
<1>5. /\ t.host = s.host
      /\ t.versions = s.versions /\ t.disposed = s.disposed /\ t.tokens = s.tokens
  BY <1>4 DEF Kept, ServerFields
<1>6. /\ DOMAIN t.task = DOMAIN s.task \ L
      /\ DOMAIN t.read = DOMAIN s.read \ F /\ \A f \in DOMAIN t.read : t.read[f] = s.read[f]
  BY <1>4 DEF ConnsClose, ReadsEnd
<1>7. \A c \in Conns :
        /\ t.conn[c].open <=> (s.conn[c].open /\ c \notin C)
        /\ t.conn[c].authed = s.conn[c].authed
        /\ t.conn[c].inflight = IF c \in Closing(s, C) THEN s.conn[c].inflight \ L ELSE s.conn[c].inflight
        /\ t.conn[c].wire = IF c \in Closing(s, C) /\ c \in Heard THEN s.conn[c].wire \o last
                            ELSE s.conn[c].wire
  <2> TAKE c \in Conns
  <2>1. s.conn[c] \in Sides /\ s.conn[c].open \in BOOLEAN BY <1>2, SidesAre DEF Sides
  <2>2. CASE c \in Closing(s, C)
    <3> DEFINE w == IF c \in Heard THEN s.conn[c].wire \o last ELSE s.conn[c].wire
    <3>1. t.conn[c] = [s.conn[c] EXCEPT !.open = FALSE, !.inflight = @ \ L, !.wire = w]
      BY <1>4, <2>2 DEF ConnsClose
    <3> HIDE DEF w, L
    <3>2. t.conn[c].open = FALSE /\ t.conn[c].authed = s.conn[c].authed
      BY <2>1, <3>1 DEF Sides
    <3>3. t.conn[c].inflight = s.conn[c].inflight \ L /\ t.conn[c].wire = w
      BY <2>1, <3>1 DEF Sides
    <3> QED BY <2>2, <3>2, <3>3 DEF w, Closing
  <2>3. CASE c \notin Closing(s, C)
    <3>1. t.conn[c] = s.conn[c] BY <1>4, <2>3 DEF ConnsClose
    <3>2. ~(c \in C /\ s.conn[c].open) BY <2>3 DEF Closing
    <3> QED BY <2>1, <2>3, <3>1, <3>2
  <2> QED BY <2>2, <2>3
<1>8. \A c \in Conns : Wired(s, t, c, ToSet(last))
  <2> TAKE c \in Conns
  <2>1. s.conn[c].wire \in Seq(Frames) BY <1>2, SidesAre
  <2>2. CASE c \in Closing(s, C) /\ c \in Heard
    <3>1. t.conn[c].wire = s.conn[c].wire \o last BY <1>7, <2>2
    <3> QED BY <1>3, <2>1, <3>1, AppendedIs DEF Wired
  <2>3. CASE ~(c \in Closing(s, C) /\ c \in Heard)
    <3>1. t.conn[c].wire = s.conn[c].wire BY <1>7, <2>3
    <3> QED BY <3>1 DEF Wired
  <2> QED BY <2>2, <2>3
<1>9. \A c \in Heard : Final(last) /\ c \in Closing(s, C) => Ended(t, c)
  <2> SUFFICES ASSUME NEW c \in Heard, Final(last), c \in Closing(s, C) PROVE Ended(t, c)
    OBVIOUS
  <2>1. c \in Conns /\ s.conn[c].wire \in Seq(Frames) BY <1>1, <1>2, SidesAre
  <2>2. t.conn[c].wire = s.conn[c].wire \o last BY <1>7, <2>1
  <2>3. ToSet(last) \subseteq ToSet(t.conn[c].wire) BY <1>3, <2>1, <2>2, AppendedIs
  <2> QED BY <2>3 DEF Final, Ended, ToSet
<1> DEFINE Joins(j) == s.task[j].at = "reading" /\ s.task[j].file \in F
<1>10. \A j \in DOMAIN t.task : ~Joins(j) => t.task[j] = s.task[j]
  BY <1>4 DEF ConnsClose, ReadsEnd
<1>11. \A j \in DOMAIN t.task :
        LET u == t.task[j]
            r == s.task[j]
        IN /\ u.by = r.by /\ u.kind = r.kind /\ u.file = r.file /\ u.named = r.named
           /\ Joins(j) => u.at = "read" /\ u.got = "busy"
  <2> TAKE j \in DOMAIN t.task
  <2>1. s.task[j] \in Tasks BY <1>2, <1>6, TasksAre
  <2>2. CASE ~Joins(j) BY <1>10, <2>2
  <2>3. CASE Joins(j)
    <3> DEFINE knows == j \in s.read[s.task[j].file].knows
    <3>1. t.task[j] = [s.task[j] EXCEPT !.at = "read", !.got = "busy", !.fresh = knows]
      BY <1>4, <2>3 DEF ConnsClose, ReadsEnd
    <3> HIDE DEF knows
    <3> QED BY <2>1, <3>1 DEF Tasks
  <2> QED BY <2>2, <2>3
<1>12. \A j \in DOMAIN t.task : t.task[j].by = s.task[j].by /\ t.task[j].named = s.task[j].named
  BY <1>11
<1>13. \A j \in DOMAIN t.task :
         t.task[j].at = IF Joins(j) THEN "read" ELSE s.task[j].at
  BY <1>10, <1>11
<1> HIDE DEF L, F
<1>14. TasksSound(t, W)
  <2> SUFFICES ASSUME NEW j \in DOMAIN t.task PROVE TaskSound(W, j, t.task[j])
    BY DEF TasksSound
  <2>1. TaskSound(W, j, s.task[j]) BY <1>2, <1>6 DEF Sound, TasksSound
  <2>2. CASE ~Joins(j) BY <1>10, <2>1, <2>2
  <2>3. CASE Joins(j)
    <3>1. s.task[j].kind = "resume" BY <1>2, <1>6, <2>3, TaskFacts
    <3>2. "read" \in StageOf("resume") BY DEF StageOf
    <3> QED BY <1>11, <2>1, <2>3, <3>1, <3>2 DEF TaskSound
  <2> QED BY <2>2, <2>3
<1>15. WiresSound(t, W)
  <2> SUFFICES ASSUME NEW c \in Conns, NEW k \in DOMAIN t.conn[c].wire
               PROVE  FrameSound(W, c, t.conn[c].wire[k])
    BY DEF WiresSound
  <2>1. WiresSound(s, W) BY <1>2 DEF Sound
  <2>2. \A f \in ToSet(last) : FrameSound(W, c, f) BY DEF Farewell, FrameSound
  <2> QED BY <1>8, <2>1, <2>2 DEF Wired, WiresSound
<1>16. EvidenceSound(t)
  <2> SUFFICES ASSUME NEW j \in DOMAIN t.task PROVE EvidenceOf(t, j)
    BY DEF EvidenceSound
  <2>1. EvidenceOf(s, j) BY <1>2, <1>6 DEF Sound, EvidenceSound
  <2>2. CASE ~Joins(j)
    <3>1. t.task[j] = s.task[j] BY <1>10, <2>2
    <3> QED BY <1>6, <2>1, <3>1 DEF EvidenceOf
  <2>3. CASE Joins(j)
    <3>1. t.task[j].at = "read" /\ t.task[j].got = "busy" /\ t.task[j].file = s.task[j].file
      BY <1>11, <2>3
    <3>2. s.task[j].file \notin DOMAIN t.read BY <1>6, <2>3
    <3>3. "busy" \notin Evidence BY DEF Evidence
    <3> QED BY <3>1, <3>2, <3>3 DEF EvidenceOf
  <2> QED BY <2>2, <2>3
<1>17. PagesSound(t, cl)
  <2>1. PagesSound(s, cl) BY <1>2 DEF Sound
  <2>2. \A f \in ToSet(last) : f.t # "sessions" BY DEF Farewell
  <2>3. ASSUME NEW c \in Conns, NEW k \in DOMAIN t.conn[c].wire, t.conn[c].wire[k].t = "sessions"
        PROVE  PageSound(t.versions, t.conn[c].wire[k], cl[c])
    <3>1. k \in DOMAIN s.conn[c].wire /\ t.conn[c].wire[k] = s.conn[c].wire[k]
      BY <1>8, <2>2, <2>3 DEF Wired
    <3> QED BY <1>5, <2>1, <2>3, <3>1 DEF PagesSound
  <2> QED BY <1>6, <1>12, <2>1, <2>3 DEF PagesSound
<1>18. Slotted(t)
  <2> SUFFICES ASSUME NEW d \in Conns
               PROVE  t.conn[d].inflight = {j \in DOMAIN t.task : t.task[j].by = d}
    BY DEF Slotted
  <2>1. s.conn[d].inflight = {j \in DOMAIN s.task : s.task[j].by = d} BY <1>2 DEF Sound, Slotted
  <2>2. {j \in DOMAIN t.task : t.task[j].by = d} = {j \in DOMAIN s.task : s.task[j].by = d} \ L
    BY <1>6, <1>12
  <2>3. d \notin Closing(s, C) => {j \in DOMAIN s.task : s.task[j].by = d} \cap L = {}
    BY DEF L, ListsOf
  <2> QED BY <1>7, <2>1, <2>2, <2>3
<1>19. Awaited(t)
  <2>1. Awaited(s) BY <1>2 DEF Sound
  <2> SUFFICES ASSUME NEW j \in DOMAIN t.task
               PROVE  /\ t.task[j].at = "reading" => t.task[j].file \in DOMAIN t.read
                      /\ t.task[j].at = "creating" => t.host[t.task[j].file].sess = "creating"
    BY DEF Awaited
  <2>2. CASE ~Joins(j) BY <1>5, <1>6, <1>10, <2>1, <2>2 DEF Awaited
  <2>3. CASE Joins(j) BY <1>13, <2>3
  <2> QED BY <2>2, <2>3
<1>20. TokensHold(t) /\ ShutWhenDisposed(t)
  BY <1>2, <1>5, <1>7 DEF Sound, TokensHold, ShutWhenDisposed
<1>21. Sound(t, W, cl) BY <1>2, <1>4, <1>14, <1>15, <1>16, <1>17, <1>18, <1>19, <1>20 DEF Sound
<1>22. Longer(s.versions, t.versions)
  <2>1. Len(s.versions) \in Nat BY <1>2 DEF Servers
  <2> QED BY <1>5, <2>1 DEF Longer
<1>23. \A c \in Conns : Ended(s, c) => Ended(t, c) BY <1>8 DEF Ended, Wired
<1>24. \A c \in D : s.conn[c].open => t.conn[c].open \/ Ended(t, c)
  BY <1>1, <1>7, <1>9 DEF Closing
<1>25. ASSUME NEW c \in D, NEW id \in AllIds, Pledged(s, c, id) PROVE Pledged(t, c, id)
  <2>1. c \in Conns /\ c \in Heard BY <1>1
  <2>2. CASE c \in Closing(s, C)
    <3>1. Ended(t, c) BY <1>9, <2>1, <2>2 DEF Closing
    <3> QED BY <3>1 DEF Ended, Pledged
  <2>3. CASE c \notin Closing(s, C)
    <3>1. s.conn[c].open => t.conn[c].open BY <1>7, <2>1, <2>3 DEF Closing
    <3>2. id \in DOMAIN s.task /\ s.task[id].by = c => id \notin L BY <2>3 DEF L, ListsOf
    <3> QED BY <1>6, <1>8, <1>12, <1>25, <2>1, <3>1, <3>2 DEF Pledged, Wired
  <2> QED BY <2>2, <2>3
<1>26. Serves(s, t, D) BY <1>7, <1>22, <1>23, <1>24, <1>25 DEF Serves
<1>27. /\ t.gate.active = s.gate.active
       /\ ToSet(t.gate.waiting) =
            ToSet(s.gate.waiting) \ ({ListSlot(i) : i \in L} \cup {ReadSlot(f) : f \in F})
       /\ IsInjective(s.gate.waiting) => IsInjective(t.gate.waiting)
  BY <1>4 DEF ConnsClose, L, F
<1>28. \A i, j, f, k : /\ ListSlot(i) # ReadSlot(f)
                       /\ ListSlot(i) = ListSlot(j) => i = j
                       /\ ReadSlot(f) = ReadSlot(k) => f = k
  BY DEF ListSlot, ReadSlot
<1>29. QueuedSlots(t) = QueuedSlots(s) \ ({ListSlot(i) : i \in L} \cup {ReadSlot(f) : f \in F})
  <2>1. {j \in DOMAIN t.task : t.task[j].at = "queued"}
          = {j \in DOMAIN s.task : s.task[j].at = "queued"} \ L
    BY <1>6, <1>13
  <2>2. {f \in DOMAIN t.read : t.read[f].at = "queued"}
          = {f \in DOMAIN s.read : s.read[f].at = "queued"} \ F
    BY <1>6
  <2> QED BY <1>28, <2>1, <2>2 DEF QueuedSlots
<1>30. BusySlots(t) = BusySlots(s)
  <2>1. {j \in DOMAIN t.task : t.task[j].at = "running"}
          = {j \in DOMAIN s.task : s.task[j].at = "running"}
    <3>1. \A j \in L : s.task[j].at = "queued" BY DEF L, ListsOf, QueuedList
    <3> QED BY <1>6, <1>13, <3>1
  <2>2. {f \in DOMAIN t.read : t.read[f].at = "reading"}
          = {f \in DOMAIN s.read : s.read[f].at = "reading"}
    <3>1. \A f \in F : s.read[f].at = "queued" BY DEF F, FilesOf
    <3> QED BY <1>6, <3>1
  <2> QED BY <2>1, <2>2 DEF BusySlots
<1>31. GateSound(t, {})
  <2>1. s.gate.waiting \in Seq(Slots) /\ t.gate.waiting \in Seq(Slots)
    BY <1>2, <1>4 DEF Servers, Gates
  <2>2. t.gate.waiting # << >> => s.gate.waiting # << >> BY <1>27, <2>1, EmptyQueue
  <2> QED BY <1>2, <1>27, <1>29, <1>30, <2>2 DEF GateSound, Room
<1>32. ASSUME NEW i \in DOMAIN s.task, s.task[i].at \notin {"queued", "reading"}
       PROVE  i \in DOMAIN t.task /\ t.task[i] = s.task[i]
  <2>1. i \notin L BY <1>32 DEF L, ListsOf, QueuedList
  <2> QED BY <1>6, <1>10, <1>32, <2>1
<1>33. Closes(s, t, C) BY <1>4, <1>7, <1>32 DEF Closes
<1> QED BY <1>21, <1>26, <1>31, <1>33 DEF Well, t

\* A strike is counted, or a connection says who it is.
LEMMA SideKeeps ==
  ASSUME NEW W, NEW cl, NEW s, Well(s, W, cl, {}), NEW c \in Conns, NEW x \in Sides,
         x.open = s.conn[c].open, x.inflight = s.conn[c].inflight, x.wire = s.conn[c].wire,
         x.authed = s.conn[c].authed \/ (s.conn[c].open /\ TokenOf[c] \in s.tokens)
  PROVE  LET t == [s EXCEPT !.conn[c] = x]
         IN /\ Well(t, W, cl, {}) /\ Serves(s, t, Heard) /\ Kept(s, t, {"conn"})
            /\ t.conn[c] = x /\ \A d \in Conns : d # c => t.conn[d] = s.conn[d]
<1> DEFINE t == [s EXCEPT !.conn[c] = x]
           F == [d \in Conns |-> {}]
<1>1. s \in Servers BY DEF Well, Sound
<1>2. t \in Servers /\ Kept(s, t, {"conn"}) BY <1>1 DEF Servers, Kept, ServerFields
<1>3. t.conn[c] = x /\ \A d \in Conns : d # c => t.conn[d] = s.conn[d] BY <1>1 DEF Servers
<1> HIDE DEF t
<1>4. \A d \in Conns :
        /\ t.conn[d].open = s.conn[d].open /\ t.conn[d].inflight = s.conn[d].inflight
        /\ t.conn[d].wire = s.conn[d].wire
        /\ t.conn[d].authed = s.conn[d].authed \/ (s.conn[d].open /\ TokenOf[d] \in s.tokens)
  BY <1>3
<1>5. F \in [Conns -> SUBSET Frames] OBVIOUS
<1>6. \A d \in Conns : Wired(s, t, d, F[d]) BY <1>4 DEF Wired
<1>7. \A d \in Conns : \A h \in F[d] : /\ FrameSound(W, d, h)
                                       /\ h.t = "sessions" => PageSound(s.versions, h, cl[d])
  OBVIOUS
<1> HIDE DEF F
<1>8. Well(t, W, cl, {}) /\ Serves(s, t, Heard)
  BY <1>2, <1>4, <1>5, <1>6, <1>7, TellingKeeps
<1> QED BY <1>2, <1>3, <1>8 DEF t

\* What a connection may be told of the request id, or of none.
MayName(W, c, id, kind, file) ==
  /\ id \in AllIds /\ kind \in Kinds \cup {"none"} /\ file \in FileNames
  /\ id # NoId => Owns(W, c, id) /\ Fits(W, id, kind, file)

LEMMA ErrorSound ==
  ASSUME NEW W, NEW c, NEW id, NEW kind, NEW file, MayName(W, c, id, kind, file), NEW code \in Nat
  PROVE  LET f == Frame("error", id, kind, file, code, "none")
         IN f \in Frames /\ FrameSound(W, c, f) /\ f.t # "sessions" /\ f.id = id
<1> DEFINE f == Frame("error", id, kind, file, code, "none")
<1>1. f \in Frames BY DEF MayName, Frame, Frames, Answers, Outcomes
<1>2. FrameSound(W, c, f) /\ f.t # "sessions" /\ f.id = id BY DEF MayName, Frame, FrameSound
<1> QED BY <1>1, <1>2

LEMMA NoOneNamed == ASSUME NEW W, NEW c PROVE MayName(W, c, NoId, "none", "none")
  BY DEF MayName, NoId, AllIds, FileNames

LEMMA LastWord ==
  ASSUME NEW code \in Nat
  PROVE  Farewell(<< CloseTo(code) >>) /\ Final(<< CloseTo(code) >>)
<1> DEFINE f == CloseTo(code)
<1>1. f \in Frames /\ f.t = "close" /\ f.id = NoId
  BY DEF CloseTo, Frame, Frames, Answers, NoId, AllIds, FileNames, Outcomes
<1> HIDE DEF f
<1>2. << f >> \in Seq(Frames) /\ ToSet(<< f >>) = {f} BY <1>1 DEF ToSet
<1> QED BY <1>1, <1>2 DEF Farewell, Final, f

LEMMA LastWords ==
  ASSUME NEW error \in Nat, NEW code \in Nat
  PROVE  Farewell(<< ErrorTo(error), CloseTo(code) >>) /\ Final(<< ErrorTo(error), CloseTo(code) >>)
<1> DEFINE e == ErrorTo(error)
           f == CloseTo(code)
<1>1. /\ f \in Frames /\ f.t = "close" /\ f.id = NoId
      /\ e \in Frames /\ e.t = "error" /\ e.id = NoId
  BY DEF CloseTo, ErrorTo, Frame, Frames, Answers, NoId, AllIds, FileNames, Outcomes
<1> HIDE DEF e, f
<1>2. << e, f >> \in Seq(Frames) /\ ToSet(<< e, f >>) = {e, f} BY <1>1 DEF ToSet
<1> QED BY <1>1, <1>2 DEF Farewell, Final, e, f

\* One connection closes and is told so.
LEMMA CloseConnKeeps ==
  ASSUME NEW W, NEW cl, NEW s, Well(s, W, cl, {}),
         NEW c \in Conns, NEW last, Farewell(last), Final(last)
  PROVE  LET t == CloseConn(s, c, last)
         IN Well(t, W, cl, {}) /\ Serves(s, t, Heard) /\ Closes(s, t, {c})
<1> DEFINE t == CloseConns(s, {c}, last)
<1>1. {c} \in SUBSET Conns OBVIOUS
<1>2. Heard \in SUBSET Heard /\ (Final(last) \/ Heard \cap {c} = {}) OBVIOUS
<1>3. Well(t, W, cl, {}) /\ Serves(s, t, Heard) /\ Closes(s, t, {c})
  BY <1>1, <1>2, CloseConnsKeeps
<1>4. CloseConn(s, c, last) = t BY DEF CloseConn
<1> HIDE DEF t
<1> QED BY <1>3, <1>4

LEMMA StrikeKeeps ==
  ASSUME NEW W, NEW cl, NEW s, Well(s, W, cl, {}),
         NEW c \in Conns, NEW id, NEW kind, NEW file, MayName(W, c, id, kind, file)
  PROVE  LET t == Strike(s, c, id, kind, file)
         IN /\ Well(t, W, cl, {}) /\ Serves(s, t, Heard)
            /\ Kept(s, t, {"conn", "task", "read", "gate"})
            /\ \A i \in DOMAIN s.task :
                 s.task[i].at \notin {"queued", "reading"} => i \in DOMAIN t.task /\ t.task[i] = s.task[i]
            /\ c \in Heard /\ s.conn[c].open =>
                 \/ ~t.conn[c].open /\ Ended(t, c)
                 \/ \E k \in DOMAIN t.conn[c].wire : t.conn[c].wire[k].id = id
<1> DEFINE f == Frame("error", id, kind, file, 4404, "none")
           told == Sent(s, c, f)
           n == s.conn[c].strikes + 1
           x == [told.conn[c] EXCEPT !.strikes = n]
           hit == [told EXCEPT !.conn[c] = x]
           t == Strike(s, c, id, kind, file)
<1>1. f \in Frames /\ FrameSound(W, c, f) /\ f.t # "sessions" /\ f.id = id BY ErrorSound
<1> HIDE DEF f
<1>2. /\ Well(told, W, cl, {}) /\ Serves(s, told, Heard) /\ Kept(s, told, {"conn"})
      /\ \A d \in Conns : told.conn[d].open = s.conn[d].open
      /\ s.conn[c].open /\ c \in Heard => f \in ToSet(told.conn[c].wire)
  BY <1>1, SentKeeps
<1>3. t = IF n >= StrikeMax THEN CloseWith(hit, c, 1002) ELSE hit
  BY DEF Strike, f
<1> HIDE DEF told
<1>4. s.conn[c] \in Sides /\ told.conn[c] \in Sides BY <1>2, SidesAre DEF Well, Sound
<1>5. n \in Nat BY <1>4 DEF Sides
<1> HIDE DEF n
<1>6. /\ x \in Sides /\ x.open = told.conn[c].open /\ x.inflight = told.conn[c].inflight
      /\ x.wire = told.conn[c].wire /\ x.authed = told.conn[c].authed
  BY <1>4, <1>5 DEF Sides
<1> HIDE DEF x
<1>7. /\ Well(hit, W, cl, {}) /\ Serves(told, hit, Heard) /\ Kept(told, hit, {"conn"})
      /\ hit.conn[c] = x
  BY <1>2, <1>6, SideKeeps
<1> HIDE DEF hit, t
<1>8. s \in Servers /\ told \in Servers /\ hit \in Servers BY <1>2, <1>7 DEF Well, Sound
<1>9. Serves(s, hit, Heard) BY <1>2, <1>7, <1>8, ServesOn
<1>10. Kept(s, hit, {"conn"}) /\ hit.task = s.task BY <1>2, <1>7 DEF Kept, ServerFields
<1>11. c \in Heard /\ s.conn[c].open => \E k \in DOMAIN hit.conn[c].wire : hit.conn[c].wire[k].id = id
  BY <1>1, <1>2, <1>6, <1>7 DEF ToSet
<1>12. CASE ~(n >= StrikeMax)
  <2>1. t = hit BY <1>3, <1>12
  <2>2. Kept(s, hit, {"conn", "task", "read", "gate"}) BY <1>10 DEF Kept
  <2> QED BY <1>7, <1>9, <1>10, <1>11, <2>1, <2>2 DEF t
<1>13. CASE n >= StrikeMax
  <2> DEFINE u == CloseConn(hit, c, << CloseTo(1002) >>)
  <2>1. t = u BY <1>3, <1>13 DEF CloseWith
  <2>2. Farewell(<< CloseTo(1002) >>) /\ Final(<< CloseTo(1002) >>) BY LastWord
  <2>3. Well(u, W, cl, {}) /\ Serves(hit, u, Heard) /\ Closes(hit, u, {c})
    BY <1>7, <2>2, CloseConnKeeps
  <2> HIDE DEF u
  <2>4. u \in Servers BY <2>3 DEF Well, Sound
  <2>5. Serves(s, u, Heard) BY <1>8, <1>9, <2>3, <2>4, ServesOn
  <2>6. Kept(s, u, {"conn", "task", "read", "gate"}) BY <1>10, <2>3 DEF Kept, Closes
  <2>7. c \in Heard /\ s.conn[c].open => ~u.conn[c].open /\ Ended(u, c)
    BY <2>3, <2>5 DEF Serves, Closes
  <2> QED BY <1>10, <2>1, <2>3, <2>5, <2>6, <2>7 DEF t, Closes
<1> QED BY <1>12, <1>13

-------------------------------------------------------------------------------
(* Frames that are read *)

\* What every step of the server comes to, but for the one that launches.
Goes(s, t, W, cl) == Well(t, W, cl, {}) /\ Serves(s, t, Heard) /\ t.launched = s.launched

LEMMA GoesOn ==
  ASSUME NEW W, NEW cl, NEW s, Well(s, W, cl, {}), NEW m, Goes(s, m, W, cl), NEW t, Goes(m, t, W, cl)
  PROVE  Goes(s, t, W, cl)
<1>1. s \in Servers /\ m \in Servers /\ t \in Servers BY DEF Goes, Well, Sound
<1> QED BY <1>1, ServesOn DEF Goes

LEMMA StrikeGoes ==
  ASSUME NEW W, NEW cl, NEW s, Well(s, W, cl, {}),
         NEW c \in Conns, NEW id, NEW kind, NEW file, MayName(W, c, id, kind, file)
  PROVE  Goes(s, Strike(s, c, id, kind, file), W, cl)
<1> DEFINE t == Strike(s, c, id, kind, file)
<1>1. Well(t, W, cl, {}) /\ Serves(s, t, Heard) /\ Kept(s, t, {"conn", "task", "read", "gate"})
  BY StrikeKeeps
<1> HIDE DEF t
<1>2. Goes(s, t, W, cl) BY <1>1 DEF Goes, Kept, ServerFields
<1> QED BY <1>2 DEF t

LEMMA CloseConnGoes ==
  ASSUME NEW W, NEW cl, NEW s, Well(s, W, cl, {}),
         NEW c \in Conns, NEW last, Farewell(last), Final(last)
  PROVE  Goes(s, CloseConn(s, c, last), W, cl)
<1> DEFINE t == CloseConn(s, c, last)
<1>1. Well(t, W, cl, {}) /\ Serves(s, t, Heard) /\ Closes(s, t, {c}) BY CloseConnKeeps
<1> HIDE DEF t
<1>2. Goes(s, t, W, cl) BY <1>1 DEF Goes, Closes, Kept, ServerFields
<1> QED BY <1>2 DEF t

LEMMA ExpelGoes ==
  ASSUME NEW W, NEW cl, NEW s, Well(s, W, cl, {}), NEW c \in Conns
  PROVE  Goes(s, Expel(s, c), W, cl)
<1>1. Farewell(Expelled) /\ Final(Expelled) BY LastWords DEF Expelled
<1> QED BY <1>1, CloseConnGoes DEF Expel

\* An error without a name goes to a connection.
LEMMA ErrorGoes ==
  ASSUME NEW W, NEW cl, NEW s, Well(s, W, cl, {}), NEW c \in Conns, NEW code \in Nat
  PROVE  Goes(s, Sent(s, c, ErrorTo(code)), W, cl)
<1> DEFINE f == ErrorTo(code)
           t == Sent(s, c, f)
<1>1. f \in Frames /\ FrameSound(W, c, f) /\ f.t # "sessions"
  BY NoOneNamed, ErrorSound DEF ErrorTo
<1> HIDE DEF f
<1>2. Well(t, W, cl, {}) /\ Serves(s, t, Heard) /\ Kept(s, t, {"conn"}) BY <1>1, SentKeeps
<1> HIDE DEF t
<1>3. Goes(s, t, W, cl) BY <1>2 DEF Goes, Kept, ServerFields
<1> QED BY <1>3 DEF t, f

LEMMA ErrFrameGoes ==
  ASSUME NEW W, NEW cl, NEW s, Well(s, W, cl, {}), NEW c \in Conns,
         NEW code \in {4401, 4403, 4404, 4405}
  PROVE  Goes(s, ErrFrame(s, c, code), W, cl)
<1>1. CASE code = 4401
  <2>1. ErrFrame(s, c, code) = Expel(s, c) BY <1>1 DEF ErrFrame
  <2> QED BY <2>1, ExpelGoes
<1>2. CASE code = 4404
  <2>1. ErrFrame(s, c, code) = Strike(s, c, NoId, "none", "none") BY <1>2 DEF ErrFrame
  <2>2. MayName(W, c, NoId, "none", "none") BY NoOneNamed
  <2> QED BY <2>1, <2>2, StrikeGoes
<1>3. ASSUME NEW error \in Nat, NEW end \in Nat
      PROVE  Goes(s, CloseWith(Sent(s, c, ErrorTo(error)), c, end), W, cl)
  <2> DEFINE m == Sent(s, c, ErrorTo(error))
  <2>1. Goes(s, m, W, cl) BY ErrorGoes
  <2> HIDE DEF m
  <2>2. Farewell(<< CloseTo(end) >>) /\ Final(<< CloseTo(end) >>) BY LastWord
  <2>3. Well(m, W, cl, {}) BY <2>1 DEF Goes
  <2>4. Goes(m, CloseConn(m, c, << CloseTo(end) >>), W, cl) BY <2>2, <2>3, CloseConnGoes
  <2>5. Goes(s, CloseConn(m, c, << CloseTo(end) >>), W, cl) BY <2>1, <2>4, GoesOn
  <2> QED BY <2>5 DEF CloseWith, m
<1>4. CASE code = 4403
  <2>1. ErrFrame(s, c, code) = CloseWith(Sent(s, c, ErrorTo(4403)), c, 1003) BY <1>4 DEF ErrFrame
  <2> QED BY <1>3, <2>1
<1>5. CASE code = 4405
  <2>1. ErrFrame(s, c, code) = CloseWith(Sent(s, c, ErrorTo(4405)), c, 1008) BY <1>5 DEF ErrFrame
  <2> QED BY <1>3, <2>1
<1> QED BY <1>1, <1>2, <1>4, <1>5

LEMMA CheckFrameIs ==
  ASSUME NEW f, NEW authed
  PROVE  CheckFrame(f, authed) \in {0, 4401, 4403, 4404, 4405}
<1>1. ValidateWriteFrame(f) \in {0, 4404, 4405} BY DEF ValidateWriteFrame
<1>2. ValidateClientFrame(f) \in {0, 4403, 4404, 4405} BY DEF ValidateClientFrame
<1> QED BY <1>1, <1>2 DEF CheckFrame

LEMMA HelloGoes ==
  ASSUME NEW W, NEW cl, NEW s, Well(s, W, cl, {}), NEW c \in Conns, s.conn[c].open
  PROVE  Goes(s, HandleHello(s, c), W, cl)
<1>1. CASE s.conn[c].authed
  <2>1. HandleHello(s, c) = ErrFrame(s, c, 4404) BY <1>1 DEF HandleHello
  <2> QED BY <2>1, ErrFrameGoes
<1>2. CASE ~s.conn[c].authed /\ TokenOf[c] \notin s.tokens
  <2>1. HandleHello(s, c) = Expel(s, c) BY <1>2 DEF HandleHello
  <2> QED BY <2>1, ExpelGoes
<1>3. CASE ~s.conn[c].authed /\ TokenOf[c] \in s.tokens
  <2> DEFINE x == [s.conn[c] EXCEPT !.authed = TRUE]
             m == [s EXCEPT !.conn[c] = x]
             f == Frame("welcome", NoId, "none", "none", 0, "none")
             t == Sent(m, c, f)
  <2>1. HandleHello(s, c) = t BY <1>3 DEF HandleHello
  <2>2. s.conn[c] \in Sides BY SidesAre DEF Well, Sound
  <2>3. x \in Sides /\ x.open = s.conn[c].open /\ x.inflight = s.conn[c].inflight /\ x.wire = s.conn[c].wire
    BY <2>2 DEF Sides
  <2> HIDE DEF x
  <2>4. Well(m, W, cl, {}) /\ Serves(s, m, Heard) /\ Kept(s, m, {"conn"})
    BY <1>3, <2>3, SideKeeps
  <2> HIDE DEF m
  <2>5. f \in Frames /\ FrameSound(W, c, f) /\ f.t # "sessions"
    BY DEF Frame, Frames, Answers, FrameSound, NoId, AllIds, FileNames, Outcomes
  <2> HIDE DEF f
  <2>6. Well(t, W, cl, {}) /\ Serves(m, t, Heard) /\ Kept(m, t, {"conn"})
    BY <2>4, <2>5, SentKeeps
  <2> HIDE DEF t
  <2>7. Goes(s, m, W, cl) BY <2>4 DEF Goes, Kept, ServerFields
  <2>8. Goes(m, t, W, cl) BY <2>6 DEF Goes, Kept, ServerFields
  <2>9. Goes(s, t, W, cl) BY <2>7, <2>8, GoesOn
  <2> QED BY <2>1, <2>9
<1> QED BY <1>1, <1>2, <1>3

-------------------------------------------------------------------------------
(* Requests that are taken up *)

RequestSound(W, cl, c, m) ==
  /\ m.id \in AllIds /\ m.kind \in Kinds /\ m.file \in FileNames /\ m.n \in Nat
  /\ Owns(W, c, m.id) /\ Fits(W, m.id, m.kind, m.file)
  /\ m.id[1] = "list" => m.id[2] <= cl[c].seq /\ (m.id[2] = cl[c].seq => m.n = cl[c].offset)

\* From s to t only the gate of requests, one of them, or what nobody waits for changes.
LEMMA QuietKeeps ==
  ASSUME NEW W, NEW cl, NEW out, NEW s, Well(s, W, cl, out), NEW t \in Servers,
         Kept(s, t, {"host", "launched", "dir", "disk"}),
         \A f \in Roots : s.host[f].sess = "creating" => t.host[f].sess = "creating"
  PROVE  Well(t, W, cl, out) /\ Serves(s, t, Heard)
<1>1. /\ t.conn = s.conn /\ t.task = s.task /\ t.read = s.read /\ t.gate = s.gate
      /\ t.versions = s.versions /\ t.disposed = s.disposed /\ t.tokens = s.tokens
  BY DEF Kept, ServerFields
<1>2. Sound(s, W, cl) BY DEF Well
<1>3. TasksSound(t, W) /\ WiresSound(t, W) BY <1>1, <1>2 DEF Sound, TasksSound, WiresSound
<1>4. EvidenceSound(t) BY <1>1, <1>2 DEF Sound, EvidenceSound, EvidenceOf
<1>5. PagesSound(t, cl) BY <1>1, <1>2 DEF Sound, PagesSound
<1>6. Slotted(t) BY <1>1, <1>2 DEF Sound, Slotted
<1>7. Awaited(t)
  <2>1. \A i \in DOMAIN s.task : s.task[i].at = "creating" => s.task[i].file \in Roots
    BY <1>2, TaskFacts
  <2> QED BY <1>1, <1>2, <2>1 DEF Sound, Awaited
<1>8. TokensHold(t) /\ ShutWhenDisposed(t) BY <1>1, <1>2 DEF Sound, TokensHold, ShutWhenDisposed
<1>9. Sound(t, W, cl) BY <1>2, <1>3, <1>4, <1>5, <1>6, <1>7, <1>8 DEF Sound
<1>10. Longer(s.versions, t.versions)
  <2>1. Len(s.versions) \in Nat BY <1>2 DEF Sound, Servers
  <2> QED BY <1>1, <2>1 DEF Longer
<1>11. Serves(s, t, Heard) BY <1>1, <1>10 DEF Serves, Ended, Pledged
<1>12. GateSound(t, out) BY <1>1, GateKept DEF Well
<1> QED BY <1>9, <1>11, <1>12 DEF Well

\* The request i goes on as r.
Same(r, u) == r.by = u.by /\ r.kind = u.kind /\ r.file = u.file /\ r.named = u.named

LEMMA RetaskSound ==
  ASSUME NEW W, NEW cl, NEW s, Sound(s, W, cl), NEW i \in DOMAIN s.task, NEW r \in Tasks,
         Same(r, s.task[i]), TaskSound(W, i, r),
         EvidenceOf([s EXCEPT !.task[i] = r], i),
         r.at = "reading" => r.file \in DOMAIN s.read,
         r.at = "creating" => s.host[r.file].sess = "creating"
  PROVE  LET t == [s EXCEPT !.task[i] = r]
         IN /\ Sound(t, W, cl) /\ Serves(s, t, Heard) /\ Kept(s, t, {"task"})
            /\ DOMAIN t.task = DOMAIN s.task /\ t.task[i] = r
            /\ \A j \in DOMAIN s.task : j # i => t.task[j] = s.task[j]
<1> DEFINE t == [s EXCEPT !.task[i] = r]
<1>1. s \in Servers BY DEF Sound
<1>2. /\ t \in Servers /\ Kept(s, t, {"task"})
      /\ DOMAIN t.task = DOMAIN s.task
      /\ \A j \in DOMAIN s.task : t.task[j] = IF j = i THEN r ELSE s.task[j]
  BY <1>1, TaskIs
<1>3. EvidenceOf(t, i) OBVIOUS
<1> HIDE DEF t
<1>4. /\ t.conn = s.conn /\ t.host = s.host /\ t.read = s.read
      /\ t.versions = s.versions /\ t.disposed = s.disposed /\ t.tokens = s.tokens
  BY <1>2 DEF Kept, ServerFields
<1>5. \A j \in DOMAIN s.task : t.task[j].by = s.task[j].by /\ t.task[j].named = s.task[j].named
  BY <1>2 DEF Same
<1>6. TasksSound(t, W) BY <1>2 DEF Sound, TasksSound
<1>7. WiresSound(t, W) BY <1>4 DEF Sound, WiresSound
<1>8. EvidenceSound(t)
  <2> SUFFICES ASSUME NEW j \in DOMAIN s.task, j # i PROVE EvidenceOf(t, j)
    BY <1>2, <1>3 DEF EvidenceSound
  <2>1. t.task[j] = s.task[j] /\ EvidenceOf(s, j) BY <1>2 DEF Sound, EvidenceSound
  <2> QED BY <1>4, <2>1 DEF EvidenceOf
<1>9. PagesSound(t, cl)
  <2>1. PagesSound(s, cl) BY DEF Sound
  <2> QED BY <1>2, <1>4, <1>5, <2>1 DEF PagesSound
<1>10. Slotted(t)
  <2> SUFFICES ASSUME NEW d \in Conns
               PROVE  t.conn[d].inflight = {j \in DOMAIN t.task : t.task[j].by = d}
    BY DEF Slotted
  <2>1. s.conn[d].inflight = {j \in DOMAIN s.task : s.task[j].by = d} BY DEF Sound, Slotted
  <2> QED BY <1>2, <1>4, <1>5, <2>1
<1>11. Awaited(t)
  <2>1. Awaited(s) BY DEF Sound
  <2> SUFFICES ASSUME NEW j \in DOMAIN s.task
               PROVE  /\ t.task[j].at = "reading" => t.task[j].file \in DOMAIN t.read
                      /\ t.task[j].at = "creating" => t.host[t.task[j].file].sess = "creating"
    BY <1>2 DEF Awaited
  <2>2. CASE j = i BY <1>2, <1>4, <2>2
  <2>3. CASE j # i BY <1>2, <1>4, <2>1, <2>3 DEF Awaited
  <2> QED BY <2>2, <2>3
<1>12. TokensHold(t) /\ ShutWhenDisposed(t) BY <1>4 DEF Sound, TokensHold, ShutWhenDisposed
<1>13. Sound(t, W, cl)
  BY <1>2, <1>6, <1>7, <1>8, <1>9, <1>10, <1>11, <1>12 DEF Sound
<1>14. Longer(s.versions, t.versions)
  <2>1. Len(s.versions) \in Nat BY <1>1 DEF Servers
  <2> QED BY <1>4, <2>1 DEF Longer
<1>15. Serves(s, t, Heard) BY <1>2, <1>4, <1>5, <1>14 DEF Serves, Ended, Pledged
<1> QED BY <1>2, <1>13, <1>15 DEF t

\* ... and neither waits for the gate nor holds it.
LEMMA RetaskKeeps ==
  ASSUME NEW W, NEW cl, NEW out, NEW s, Well(s, W, cl, out), NEW i \in DOMAIN s.task, NEW r \in Tasks,
         Same(r, s.task[i]), TaskSound(W, i, r),
         s.task[i].at \notin {"queued", "running"}, r.at \notin {"queued", "running"},
         EvidenceOf([s EXCEPT !.task[i] = r], i),
         r.at = "reading" => r.file \in DOMAIN s.read,
         r.at = "creating" => s.host[r.file].sess = "creating"
  PROVE  LET t == [s EXCEPT !.task[i] = r]
         IN /\ Well(t, W, cl, out) /\ Serves(s, t, Heard) /\ Kept(s, t, {"task"})
            /\ QueuedSlots(t) = QueuedSlots(s)
<1> DEFINE t == [s EXCEPT !.task[i] = r]
<1>1. Sound(s, W, cl) /\ GateSound(s, out) BY DEF Well
<1>2. /\ Sound(t, W, cl) /\ Serves(s, t, Heard) /\ Kept(s, t, {"task"})
      /\ DOMAIN t.task = DOMAIN s.task /\ t.task[i] = r
      /\ \A j \in DOMAIN s.task : j # i => t.task[j] = s.task[j]
  BY <1>1, RetaskSound
<1> HIDE DEF t
<1>3. t.gate = s.gate /\ t.read = s.read BY <1>2 DEF Kept, ServerFields
<1>4. /\ {j \in DOMAIN t.task : t.task[j].at = "queued"} = {j \in DOMAIN s.task : s.task[j].at = "queued"}
      /\ {j \in DOMAIN t.task : t.task[j].at = "running"} = {j \in DOMAIN s.task : s.task[j].at = "running"}
  BY <1>2
<1>5. QueuedSlots(t) = QueuedSlots(s) /\ BusySlots(t) = BusySlots(s)
  BY <1>3, <1>4 DEF QueuedSlots, BusySlots
<1>6. GateSound(t, out) BY <1>1, <1>3, <1>5 DEF GateSound, Room
<1> QED BY <1>2, <1>5, <1>6 DEF Well, t

LEMMA RetaskGoes ==
  ASSUME NEW W, NEW cl, NEW s, Well(s, W, cl, {}), NEW i \in DOMAIN s.task, NEW r \in Tasks,
         Same(r, s.task[i]), TaskSound(W, i, r),
         s.task[i].at \notin {"queued", "running"}, r.at \notin {"queued", "running"},
         EvidenceOf([s EXCEPT !.task[i] = r], i),
         r.at = "reading" => r.file \in DOMAIN s.read,
         r.at = "creating" => s.host[r.file].sess = "creating"
  PROVE  Goes(s, [s EXCEPT !.task[i] = r], W, cl)
<1> DEFINE t == [s EXCEPT !.task[i] = r]
<1>1. Well(t, W, cl, {}) /\ Serves(s, t, Heard) /\ Kept(s, t, {"task"}) BY RetaskKeeps
<1> HIDE DEF t
<1>2. Goes(s, t, W, cl) BY <1>1 DEF Goes, Kept, ServerFields
<1> QED BY <1>2 DEF t

\* ... and is about to wait for the gate.
LEMMA QueueingKeeps ==
  ASSUME NEW W, NEW cl, NEW s, Well(s, W, cl, {}), NEW i \in DOMAIN s.task,
         s.task[i].at = "new", s.task[i].kind = "list"
  PROVE  LET t == At(s, i, "queued")
         IN /\ Well(t, W, cl, {ListSlot(i)}) /\ Serves(s, t, Heard) /\ Kept(s, t, {"task"})
            /\ ListSlot(i) \in QueuedSlots(t)
<1> DEFINE r == [s.task[i] EXCEPT !.at = "queued"]
           t == [s EXCEPT !.task[i] = r]
<1>1. Sound(s, W, cl) /\ GateSound(s, {}) /\ s \in Servers BY DEF Well, Sound
<1>2. s.task[i] \in Tasks BY <1>1, TasksAre
<1>3. At(s, i, "queued") = t BY DEF At
<1>4. r \in Tasks /\ Same(r, s.task[i]) /\ r.at = "queued" BY <1>2 DEF Tasks, Stages, Same
<1>5. TaskSound(W, i, s.task[i]) BY <1>1 DEF Sound, TasksSound
<1> HIDE DEF r
<1>6. TaskSound(W, i, r)
  <2>1. "queued" \in StageOf("list") /\ "list" \notin PageWishes BY DEF StageOf, PageWishes
  <2> QED BY <1>4, <1>5, <2>1 DEF TaskSound, Same
<1>7. EvidenceOf(t, i)
  <2>1. t.task[i] = r BY <1>1, <1>4, TaskIs
  <2> HIDE DEF t
  <2> QED BY <1>4, <2>1 DEF EvidenceOf
<1>8. /\ Sound(t, W, cl) /\ Serves(s, t, Heard) /\ Kept(s, t, {"task"})
      /\ DOMAIN t.task = DOMAIN s.task /\ t.task[i] = r
      /\ \A j \in DOMAIN s.task : j # i => t.task[j] = s.task[j]
  <2>1. r.at # "reading" /\ r.at # "creating" BY <1>4
  <2> QED BY <1>1, <1>4, <1>6, <1>7, <2>1, RetaskSound
<1> HIDE DEF t
<1>9. t.gate = s.gate /\ t.read = s.read BY <1>8 DEF Kept, ServerFields
<1>10. \A j, f : ListSlot(j) # ReadSlot(f) /\ (ListSlot(j) = ListSlot(i) => j = i)
  BY DEF ListSlot, ReadSlot
<1>11. QueuedSlots(t) = QueuedSlots(s) \cup {ListSlot(i)}
  <2>1. {j \in DOMAIN t.task : t.task[j].at = "queued"}
          = {j \in DOMAIN s.task : s.task[j].at = "queued"} \cup {i}
    BY <1>4, <1>8
  <2> QED BY <1>9, <2>1 DEF QueuedSlots
<1>12. BusySlots(t) = BusySlots(s)
  <2>1. {j \in DOMAIN t.task : t.task[j].at = "running"}
          = {j \in DOMAIN s.task : s.task[j].at = "running"}
    BY <1>4, <1>8
  <2> QED BY <1>9, <2>1 DEF BusySlots
<1>13. ListSlot(i) \notin QueuedSlots(s) \cup BusySlots(s) BY <1>10 DEF QueuedSlots, BusySlots
<1>14. GateSound(t, {ListSlot(i)})
  BY <1>1, <1>9, <1>11, <1>12, <1>13 DEF GateSound, Room
<1> QED BY <1>3, <1>8, <1>11, <1>14 DEF Well

\* Whoever owns a request owns it alone.
LEMMA OneOwner ==
  ASSUME NEW W, NEW c, NEW d, NEW id, Owns(W, c, id), Owns(W, d, id)
  PROVE  c = d
  BY WritePathAssumption DEF Owns

Admitted(s, c, m) ==
  [WithTask(s, m.id, Task(c, m)) EXCEPT !.conn[c].inflight = @ \cup {m.id}]

LEMMA AdmitKeeps ==
  ASSUME NEW W, NEW cl, NEW s, Well(s, W, cl, {}), NEW c \in Conns, NEW m,
         RequestSound(W, cl, c, m), m.id \notin s.conn[c].inflight
  PROVE  LET t == Admitted(s, c, m)
         IN /\ Goes(s, t, W, cl) /\ Kept(s, t, {"conn", "task"})
            /\ m.id \in DOMAIN t.task /\ t.task[m.id] = Task(c, m)
            /\ t.conn[c].open = s.conn[c].open
<1> DEFINE i == m.id
           r == Task(c, m)
           tasks == With(s.task, i, r)
           side == [s.conn[c] EXCEPT !.inflight = @ \cup {i}]
           t == [s EXCEPT !.task = tasks, !.conn[c] = side]
<1>1. Sound(s, W, cl) /\ GateSound(s, {}) /\ s \in Servers BY DEF Well, Sound
<1>2. Admitted(s, c, m) = t BY DEF Admitted, WithTask
<1>3. s.conn[c] \in Sides BY <1>1, SidesAre
<1>4. /\ i \in AllIds /\ m.kind \in Kinds /\ m.file \in FileNames /\ m.n \in Nat
      /\ Owns(W, c, i) /\ Fits(W, i, m.kind, m.file)
      /\ i[1] = "list" => i[2] <= cl[c].seq /\ (i[2] = cl[c].seq => m.n = cl[c].offset)
  BY DEF RequestSound
<1> HIDE DEF i
<1>5. /\ r \in Tasks /\ r.at = "new" /\ r.by = c /\ r.kind = m.kind /\ r.file = m.file /\ r.named = m.n
      /\ r.round = 1
  BY <1>4 DEF Task, Tasks, Stages, Results
<1> HIDE DEF r
<1>6. side \in Sides BY <1>3, <1>4 DEF Sides
<1>7. /\ side.open = s.conn[c].open /\ side.authed = s.conn[c].authed /\ side.wire = s.conn[c].wire
      /\ side.inflight = s.conn[c].inflight \cup {i}
  BY <1>3 DEF Sides
<1> HIDE DEF side
<1>8. s.task \in Tables(AllIds, Tasks) BY <1>1 DEF Servers
<1>9. /\ tasks \in Tables(AllIds, Tasks) /\ DOMAIN tasks = DOMAIN s.task \cup {i}
      /\ \A z \in DOMAIN s.task \cup {i} : tasks[z] = IF z = i THEN r ELSE s.task[z]
  <2> DEFINE old == s.task
  <2>1. i \in AllIds /\ r \in Tasks /\ old \in Tables(AllIds, Tasks) BY <1>4, <1>5, <1>8
  <2>2. tasks = With(old, i, r) OBVIOUS
  <2> HIDE DEF tasks, old, t
  <2>3. /\ With(old, i, r) \in Tables(AllIds, Tasks)
        /\ DOMAIN With(old, i, r) = DOMAIN old \cup {i}
        /\ \A z \in DOMAIN old \cup {i} : With(old, i, r)[z] = IF z = i THEN r ELSE old[z]
    BY <2>1, TableWith
  <2> QED BY <2>2, <2>3 DEF old
<1> HIDE DEF tasks
<1>10. t \in Servers /\ Kept(s, t, {"conn", "task"}) /\ t.task = tasks
  BY <1>1, <1>6, <1>9 DEF Servers, Kept, ServerFields
<1>11. t.conn[c] = side /\ \A d \in Conns : d # c => t.conn[d] = s.conn[d]
  BY <1>1 DEF Servers
<1> HIDE DEF t
<1>12. /\ t.host = s.host /\ t.read = s.read /\ t.gate = s.gate /\ t.launched = s.launched
       /\ t.versions = s.versions /\ t.disposed = s.disposed /\ t.tokens = s.tokens
  BY <1>10 DEF Kept, ServerFields
<1>13. i \notin DOMAIN s.task
  <2> SUFFICES ASSUME i \in DOMAIN s.task PROVE FALSE OBVIOUS
  <2>1. s.task[i].by \in Conns BY <1>1, TasksAre
  <2>2. Owns(W, s.task[i].by, i) BY <1>1 DEF Sound, TasksSound, TaskSound
  <2>3. s.task[i].by = c BY <1>4, <2>2, OneOwner
  <2>4. s.conn[c].inflight = {j \in DOMAIN s.task : s.task[j].by = c} BY <1>1 DEF Sound, Slotted
  <2> QED BY <2>3, <2>4 DEF i
<1>14. \A j \in DOMAIN t.task : (j = i /\ t.task[j] = r) \/ (j \in DOMAIN s.task /\ j # i /\ t.task[j] = s.task[j])
  BY <1>9, <1>10, <1>13
<1>15. \A d \in Conns : /\ t.conn[d].open = s.conn[d].open /\ t.conn[d].authed = s.conn[d].authed
                        /\ t.conn[d].wire = s.conn[d].wire
  BY <1>7, <1>11
<1>16. TasksSound(t, W)
  <2>1. TaskSound(W, i, r)
    <3>1. "new" \in StageOf(m.kind) BY <1>4 DEF Kinds, PageWishes, StageOf
    <3> QED BY <1>4, <1>5, <3>1 DEF TaskSound
  <2> QED BY <1>1, <1>14, <2>1 DEF Sound, TasksSound
<1>17. WiresSound(t, W) BY <1>1, <1>15 DEF Sound, WiresSound
<1>18. EvidenceSound(t)
  <2> SUFFICES ASSUME NEW j \in DOMAIN t.task PROVE EvidenceOf(t, j) BY DEF EvidenceSound
  <2>1. CASE j = i BY <1>5, <1>14, <2>1 DEF EvidenceOf
  <2>2. CASE j # i
    <3>1. t.task[j] = s.task[j] /\ EvidenceOf(s, j) BY <1>1, <1>14, <2>2 DEF Sound, EvidenceSound
    <3> QED BY <1>12, <3>1 DEF EvidenceOf
  <2> QED BY <2>1, <2>2
<1>19. PagesSound(t, cl)
  <2>1. PagesSound(s, cl) BY <1>1 DEF Sound
  <2>2. \A j \in DOMAIN t.task :
          j[1] = "list" => LET u == cl[t.task[j].by]
                           IN j[2] <= u.seq /\ (j[2] = u.seq => t.task[j].named = u.offset)
    BY <1>4, <1>5, <1>14, <2>1 DEF PagesSound
  <2> QED BY <1>12, <1>15, <2>1, <2>2 DEF PagesSound
<1>20. Slotted(t)
  <2> SUFFICES ASSUME NEW d \in Conns
               PROVE  t.conn[d].inflight = {j \in DOMAIN t.task : t.task[j].by = d}
    BY DEF Slotted
  <2>1. s.conn[d].inflight = {j \in DOMAIN s.task : s.task[j].by = d} BY <1>1 DEF Sound, Slotted
  <2>2. {j \in DOMAIN t.task : t.task[j].by = d}
          = {j \in DOMAIN s.task : s.task[j].by = d} \cup (IF d = c THEN {i} ELSE {})
    BY <1>5, <1>9, <1>10, <1>13, <1>14
  <2> QED BY <1>7, <1>11, <2>1, <2>2
<1>21. Awaited(t)
  <2>1. Awaited(s) BY <1>1 DEF Sound
  <2>2. r.at # "reading" /\ r.at # "creating" BY <1>5
  <2> QED BY <1>12, <1>14, <2>1, <2>2 DEF Awaited
<1>22. TokensHold(t) /\ ShutWhenDisposed(t)
  BY <1>1, <1>12, <1>15 DEF Sound, TokensHold, ShutWhenDisposed
<1>23. Sound(t, W, cl)
  BY <1>1, <1>10, <1>16, <1>17, <1>18, <1>19, <1>20, <1>21, <1>22 DEF Sound
<1>24. Longer(s.versions, t.versions)
  <2>1. Len(s.versions) \in Nat BY <1>1 DEF Servers
  <2> QED BY <1>12, <2>1 DEF Longer
<1>25. Heard \subseteq Conns BY HostAssumption DEF Heard
<1>26. Serves(s, t, Heard)
  <2>1. \A id \in DOMAIN s.task : id \in DOMAIN t.task /\ t.task[id] = s.task[id] BY <1>9, <1>10, <1>13
  <2> QED BY <1>15, <1>24, <1>25, <2>1 DEF Serves, Ended, Pledged
<1>27. GateSound(t, {})
  <2>1. /\ {j \in DOMAIN t.task : t.task[j].at = "queued"} = {j \in DOMAIN s.task : s.task[j].at = "queued"}
        /\ {j \in DOMAIN t.task : t.task[j].at = "running"} = {j \in DOMAIN s.task : s.task[j].at = "running"}
    BY <1>5, <1>9, <1>10, <1>13, <1>14
  <2>2. QueuedSlots(t) = QueuedSlots(s) /\ BusySlots(t) = BusySlots(s)
    BY <1>12, <2>1 DEF QueuedSlots, BusySlots
  <2> QED BY <1>1, <1>12, <2>2 DEF GateSound, Room
<1>28. Goes(s, t, W, cl) BY <1>12, <1>23, <1>26, <1>27 DEF Goes, Well
<1>29. i \in DOMAIN t.task /\ t.task[i] = r BY <1>9, <1>10
<1> QED BY <1>2, <1>10, <1>15, <1>28, <1>29 DEF i, r

-------------------------------------------------------------------------------
(* Joining a recovery read, or starting one *)

NewRead(s, f, c) ==
  [s EXCEPT !.read = With(@, f, [at |-> "queued", by |-> c, knows |-> {}, snap |-> "refused"])]

\* A read that is about to wait for the gate.
LEMMA NewReadKeeps ==
  ASSUME NEW W, NEW cl, NEW s, Well(s, W, cl, {}), NEW f \in Roots, f \notin DOMAIN s.read,
         NEW c \in Conns
  PROVE  LET t == NewRead(s, f, c)
         IN /\ Well(t, W, cl, {ReadSlot(f)}) /\ Serves(s, t, Heard) /\ Kept(s, t, {"read"})
            /\ f \in DOMAIN t.read /\ t.read[f].at = "queued"
            /\ ReadSlot(f) \in QueuedSlots(t)
<1> DEFINE x == [at |-> "queued", by |-> c, knows |-> {}, snap |-> "refused"]
           old == s.read
           reads == With(old, f, x)
           t == [s EXCEPT !.read = reads]
<1>1. Sound(s, W, cl) /\ GateSound(s, {}) /\ s \in Servers BY DEF Well, Sound
<1>2. NewRead(s, f, c) = t BY DEF NewRead
<1>3. old \in Tables(Roots, Reads) BY <1>1 DEF Servers
<1>4. x \in Reads /\ x.at = "queued" BY DEF Reads, Evidence
<1> HIDE DEF x
<1>5. /\ reads \in Tables(Roots, Reads) /\ DOMAIN reads = DOMAIN old \cup {f}
      /\ \A z \in DOMAIN old \cup {f} : reads[z] = IF z = f THEN x ELSE old[z]
  <2>1. reads = With(old, f, x) OBVIOUS
  <2> HIDE DEF old, t, reads
  <2>2. /\ With(old, f, x) \in Tables(Roots, Reads) /\ DOMAIN With(old, f, x) = DOMAIN old \cup {f}
        /\ \A z \in DOMAIN old \cup {f} : With(old, f, x)[z] = IF z = f THEN x ELSE old[z]
    <3>1. f \in Roots /\ x \in Reads /\ old \in Tables(Roots, Reads) BY <1>3, <1>4
    <3> QED BY <3>1, TableWith
  <2> QED BY <2>1, <2>2
<1> HIDE DEF reads
<1>6. t \in Servers /\ Kept(s, t, {"read"}) /\ t.read = reads
  BY <1>1, <1>5 DEF Servers, Kept, ServerFields
<1> HIDE DEF t
<1>7. /\ t.conn = s.conn /\ t.task = s.task /\ t.gate = s.gate /\ t.host = s.host
      /\ t.versions = s.versions /\ t.disposed = s.disposed /\ t.tokens = s.tokens
  BY <1>6 DEF Kept, ServerFields
<1>8. /\ DOMAIN t.read = DOMAIN s.read \cup {f} /\ t.read[f].at = "queued"
      /\ \A h \in DOMAIN s.read : h # f /\ t.read[h] = s.read[h]
  BY <1>4, <1>5, <1>6
<1>9. TasksSound(t, W) /\ WiresSound(t, W) BY <1>1, <1>7 DEF Sound, TasksSound, WiresSound
<1>10. EvidenceSound(t)
  <2> SUFFICES ASSUME NEW j \in DOMAIN t.task PROVE EvidenceOf(t, j) BY DEF EvidenceSound
  <2>1. EvidenceOf(s, j) BY <1>1, <1>7 DEF Sound, EvidenceSound
  <2>2. \A h \in DOMAIN t.read : t.read[h].at = "reading" => h \in DOMAIN s.read /\ t.read[h] = s.read[h]
    BY <1>8
  <2> QED BY <1>7, <2>1, <2>2 DEF EvidenceOf
<1>11. PagesSound(t, cl) BY <1>1, <1>7 DEF Sound, PagesSound
<1>12. Slotted(t) /\ Awaited(t) BY <1>1, <1>7, <1>8 DEF Sound, Slotted, Awaited
<1>13. TokensHold(t) /\ ShutWhenDisposed(t) BY <1>1, <1>7 DEF Sound, TokensHold, ShutWhenDisposed
<1>14. Sound(t, W, cl) BY <1>1, <1>6, <1>9, <1>10, <1>11, <1>12, <1>13 DEF Sound
<1>15. Longer(s.versions, t.versions)
  <2>1. Len(s.versions) \in Nat BY <1>1 DEF Servers
  <2> QED BY <1>7, <2>1 DEF Longer
<1>16. Serves(s, t, Heard)
  <2>1. Heard \subseteq Conns BY HostAssumption DEF Heard
  <2> QED BY <1>7, <1>15, <2>1 DEF Serves, Ended, Pledged
<1>17. \A h, j : ListSlot(j) # ReadSlot(h) /\ (ReadSlot(h) = ReadSlot(f) => h = f)
  BY DEF ListSlot, ReadSlot
<1>18. QueuedSlots(t) = QueuedSlots(s) \cup {ReadSlot(f)}
  <2>1. {h \in DOMAIN t.read : t.read[h].at = "queued"}
          = {h \in DOMAIN s.read : s.read[h].at = "queued"} \cup {f}
    BY <1>8
  <2> QED BY <1>7, <2>1 DEF QueuedSlots
<1>19. BusySlots(t) = BusySlots(s)
  <2>1. {h \in DOMAIN t.read : t.read[h].at = "reading"}
          = {h \in DOMAIN s.read : s.read[h].at = "reading"}
    BY <1>8
  <2> QED BY <1>7, <2>1 DEF BusySlots
<1>20. ReadSlot(f) \notin QueuedSlots(s) \cup BusySlots(s)
  BY <1>17 DEF QueuedSlots, BusySlots
<1>21. GateSound(t, {ReadSlot(f)})
  BY <1>1, <1>7, <1>18, <1>19, <1>20 DEF GateSound, Room
<1> QED BY <1>2, <1>6, <1>8, <1>14, <1>16, <1>18, <1>21 DEF Well

\* readOnce() in the name of request i: what it asks it does at the server m, which
\* differs from s in the round of i only.
LEMMA ReadOnceGoes ==
  ASSUME NEW W, NEW cl, NEW s, Well(s, W, cl, {}), NEW i \in DOMAIN s.task,
         s.task[i].kind = "resume", s.task[i].at \in {"new", "read"}, s.task[i].file \in Roots,
         NEW r \in Tasks, Same(r, s.task[i]), r.at = "reading", r.round = 1 \/ s.task[i].at = "read",
         NEW m, At(m, i, "reading") = [s EXCEPT !.task[i] = r],
         m.read = s.read, m.conn = s.conn, m.task[i].file = r.file, m.task[i].by = r.by
  PROVE  Goes(s, ReadOnce(m, i), W, cl)
<1> DEFINE f == r.file
           c == r.by
           x == [at |-> "queued", by |-> c, knows |-> {}, snap |-> "refused"]
           asks == [s EXCEPT !.task[i] = r]
           n == NewRead(s, f, c)
           first == [n EXCEPT !.task[i] = r]
           t == Acquire(first, ReadSlot(f))
<1>1. Sound(s, W, cl) /\ s \in Servers BY DEF Well, Sound
<1>2. /\ s.task[i] \in Tasks /\ TaskSound(W, i, s.task[i]) /\ EvidenceOf(s, i)
  BY <1>1, TasksAre DEF Sound, TasksSound, EvidenceSound
<1>3. c \in Conns /\ f \in Roots /\ f = s.task[i].file BY DEF Tasks, Same
<1>4. TaskSound(W, i, r)
  <2>1. "reading" \in StageOf("resume") BY DEF StageOf
  <2> QED BY <1>2, <2>1 DEF TaskSound, Same
<1>5. [asks EXCEPT !.read = With(@, f, x)] = first
  BY <1>1 DEF NewRead, Servers
<1>6. ReadOnce(m, i) = IF f \in DOMAIN s.read THEN asks
                       ELSE IF t.read[f].at = "queued" /\ ~s.conn[c].open THEN DropReads(t, {f}) ELSE t
  BY <1>5 DEF ReadOnce
<1>7. s.task[i].at \notin {"queued", "running"} /\ r.at \notin {"queued", "running"} OBVIOUS
<1>8. CASE f \in DOMAIN s.read
  <2>1. asks.task[i] = r /\ asks.read = s.read BY <1>1, TaskIs DEF Kept, ServerFields
  <2> HIDE DEF asks
  <2>2. EvidenceOf(asks, i) BY <1>2, <1>3, <2>1 DEF EvidenceOf, Same
  <2> USE DEF asks
  <2>3. Goes(s, asks, W, cl) BY <1>4, <1>7, <1>8, <2>2, RetaskGoes
  <2> QED BY <1>6, <1>8, <2>3
<1>9. CASE f \notin DOMAIN s.read
  <2>1. /\ Well(n, W, cl, {ReadSlot(f)}) /\ Serves(s, n, Heard) /\ Kept(s, n, {"read"})
        /\ f \in DOMAIN n.read /\ n.read[f].at = "queued"
        /\ ReadSlot(f) \in QueuedSlots(n)
    BY <1>3, <1>9, NewReadKeeps
  <2>2. n \in Servers /\ n.task = s.task /\ n.launched = s.launched
    BY <2>1 DEF Well, Sound, Kept, ServerFields
  <2> HIDE DEF n
  <2>3. first.task[i] = r /\ first.read = n.read BY <2>2, TaskIs DEF Kept, ServerFields
  <2>4. EvidenceOf(first, i)
    <3> HIDE DEF first
    <3>1. r.kind = "resume" => r.at = "reading" /\ first.read[r.file].at = "queued" BY <2>1, <2>3
    <3> QED BY <2>3, <3>1 DEF EvidenceOf
  <2>5. /\ Well(first, W, cl, {ReadSlot(f)}) /\ Serves(n, first, Heard) /\ Kept(n, first, {"task"})
        /\ QueuedSlots(first) = QueuedSlots(n)
    <3>1. i \in DOMAIN n.task /\ Same(r, n.task[i]) /\ n.task[i].at \notin {"queued", "running"}
      BY <1>7, <2>2
    <3>2. r.at \notin {"queued", "running"} /\ r.at # "creating" /\ r.file \in DOMAIN n.read
      BY <2>1
    <3> QED BY <1>4, <2>1, <2>4, <3>1, <3>2, RetaskKeeps
  <2> HIDE DEF first
  <2>6. first \in Servers /\ first.launched = s.launched
    BY <2>2, <2>5 DEF Well, Sound, Kept, ServerFields
  <2>7. Well(t, W, cl, {}) /\ Serves(first, t, Heard) /\ Admits(first, t)
    BY <2>1, <2>5, AcquireKeeps
  <2>8. t \in Servers /\ t.launched = s.launched
    BY <2>6, <2>7 DEF Well, Sound, Admits, Kept, ServerFields
  <2>9. f \in DOMAIN t.read BY <2>1, <2>3, <2>7 DEF Admits
  <2> HIDE DEF t
  <2>10. Serves(s, first, Heard) BY <1>1, <2>1, <2>2, <2>5, <2>6, ServesOn
  <2>11. Serves(s, t, Heard) BY <1>1, <2>6, <2>7, <2>8, <2>10, ServesOn
  <2>12. Goes(s, t, W, cl) BY <2>7, <2>8, <2>11 DEF Goes
  <2>13. ASSUME t.read[f].at = "queued" PROVE Goes(s, DropReads(t, {f}), W, cl)
    <3> DEFINE u == DropReads(t, {f})
    <3>1. {f} \in SUBSET DOMAIN t.read /\ \A h \in {f} : t.read[h].at = "queued" BY <2>9, <2>13
    <3>2. Well(u, W, cl, {}) /\ Serves(t, u, Heard) /\ Kept(t, u, {"task", "read", "gate"})
      BY <2>7, <3>1, DropReadsKeeps
    <3> HIDE DEF u
    <3>3. Goes(t, u, W, cl) BY <3>2 DEF Goes, Kept, ServerFields
    <3>4. Goes(s, u, W, cl) BY <2>12, <3>3, GoesOn
    <3> QED BY <3>4 DEF u
  <2> QED BY <1>6, <1>9, <2>12, <2>13
<1> QED BY <1>8, <1>9

-------------------------------------------------------------------------------
(* The handlers of the requests, up to their first await *)

\* The stages of a request that is served by a session.
SessionStages == {"creating", "session", "starting", "failed"}

\* What a request on its way to a session must bring along, if it is a resume.
Cleared(r) == r.kind = "resume" => r.fresh /\ r.got = "listed" /\ (r.live # 0 => r.live = r.named)

\* A request whose evidence is in order moves to a session, or waits for one.
LEMMA SessionOfGoes ==
  ASSUME NEW W, NEW cl, NEW s, Well(s, W, cl, {}), NEW i \in DOMAIN s.task,
         s.task[i].kind \in PageWishes, s.task[i].file \in Roots,
         s.task[i].at \notin {"queued", "running"}, Cleared(s.task[i])
  PROVE  Goes(s, SessionOf(s, i), W, cl)
<1> DEFINE r == s.task[i]
           f == r.file
           u == [s.host[f] EXCEPT !.sess = "creating"]
           h == [s EXCEPT !.host[f] = u]
           ready == [r EXCEPT !.at = "session"]
           waits == [r EXCEPT !.at = "creating"]
<1>1. Sound(s, W, cl) /\ s \in Servers BY DEF Well, Sound
<1>2. r \in Tasks /\ TaskSound(W, i, r) BY <1>1, TasksAre DEF Sound, TasksSound
<1>3. /\ ready \in Tasks /\ Same(ready, r) /\ ready.at = "session" /\ Cleared(ready)
      /\ waits \in Tasks /\ Same(waits, r) /\ waits.at = "creating" /\ Cleared(waits)
  BY <1>2 DEF Tasks, Stages, Same, Cleared
<1> HIDE DEF ready, waits
<1>4. {"session", "creating"} \subseteq StageOf(r.kind)
  BY DEF StageOf, PageWishes
<1>5. TaskSound(W, i, ready) /\ TaskSound(W, i, waits)
  BY <1>2, <1>3, <1>4 DEF TaskSound, Same
<1>6. CASE s.host[f].sess = "ready"
  <2> DEFINE t == [s EXCEPT !.task[i] = ready]
  <2>1. SessionOf(s, i) = t BY <1>6 DEF SessionOf, At, ready
  <2>2. t.task[i] = ready BY <1>1, <1>3, TaskIs
  <2> HIDE DEF t
  <2>3. EvidenceOf(t, i) BY <1>3, <2>2 DEF EvidenceOf, Cleared
  <2> USE DEF t
  <2>4. ready.at \notin {"queued", "running", "reading", "creating"} BY <1>3
  <2>5. Goes(s, t, W, cl) BY <1>3, <1>5, <2>3, <2>4, RetaskGoes
  <2> QED BY <2>1, <2>5
<1>7. CASE s.host[f].sess # "ready"
  <2> DEFINE t == [h EXCEPT !.task[i] = waits]
  <2>1. s.host[f] \in Hosts BY <1>1 DEF Servers
  <2>2. u \in Hosts /\ u.sess = "creating" BY <2>1 DEF Hosts
  <2> HIDE DEF u
  <2>3. h \in Servers /\ Kept(s, h, {"host"}) /\ \A k \in Roots : h.host[k] = IF k = f THEN u ELSE s.host[k]
    BY <1>1, <2>2, HostIs
  <2>4. SessionOf(s, i) = t
    <3>1. [At(s, i, "creating") EXCEPT !.host[f].sess = "creating"] = t
      BY <1>1 DEF At, waits, u, Servers
    <3> QED BY <1>7, <3>1 DEF SessionOf
  <2> HIDE DEF h
  <2>5. Kept(s, h, {"host", "launched", "dir", "disk"}) /\ h.task = s.task /\ h.launched = s.launched
    BY <2>3 DEF Kept, ServerFields
  <2>6. \A k \in Roots : s.host[k].sess = "creating" => h.host[k].sess = "creating" BY <2>2, <2>3
  <2>7. Well(h, W, cl, {}) /\ Serves(s, h, Heard) BY <2>3, <2>5, <2>6, QuietKeeps
  <2>8. Goes(s, h, W, cl) BY <2>5, <2>7 DEF Goes
  <2>9. t.task[i] = waits BY <1>3, <2>3, <2>5, TaskIs
  <2> HIDE DEF t
  <2>10. EvidenceOf(t, i) BY <1>3, <2>9 DEF EvidenceOf, Cleared
  <2> USE DEF t
  <2>11. waits.at \notin {"queued", "running", "reading"} BY <1>3
  <2>12. waits.file = f /\ h.host[waits.file].sess = "creating" BY <1>3, <2>2, <2>3 DEF Same
  <2>13. i \in DOMAIN h.task /\ Same(waits, h.task[i]) /\ h.task[i].at \notin {"queued", "running"}
    BY <1>3, <2>5
  <2>14. Goes(h, t, W, cl) BY <1>3, <1>5, <2>7, <2>10, <2>11, <2>12, <2>13, RetaskGoes
  <2> HIDE DEF t
  <2>15. Goes(s, t, W, cl) BY <2>8, <2>14, GoesOn
  <2> QED BY <2>4, <2>15
<1> QED BY <1>6, <1>7

LEMMA AckedGoes ==
  ASSUME NEW W, NEW cl, NEW s, Well(s, W, cl, {}),
         NEW i \in DOMAIN s.task, i[1] = "write", NEW res \in Outcomes
  PROVE  Goes(s, Acked(s, i, res), W, cl)
<1> DEFINE t == Acked(s, i, res)
<1>1. Well(t, W, cl, {}) /\ Serves(s, t, Heard) /\ Kept(s, t, {"conn", "task"}) BY AckedKeeps
<1> HIDE DEF t
<1>2. Goes(s, t, W, cl) BY <1>1 DEF Goes, Kept, ServerFields
<1> QED BY <1>2 DEF t

\* A request that neither waits for the gate nor holds it is answered and forgotten.
LEMMA AnswerGoes ==
  ASSUME NEW W, NEW cl, NEW s, Well(s, W, cl, {}),
         NEW i \in DOMAIN s.task, s.task[i].at \notin {"queued", "running"},
         NEW kind, MayTell(kind, i), NEW code \in Nat, NEW res \in Outcomes
  PROVE  Goes(s, Forget(Told(s, i, kind, code, res), i), W, cl)
<1> DEFINE t == Forget(Told(s, i, kind, code, res), i)
<1>1. {} \ {ListSlot(i)} = {} OBVIOUS
<1>2. /\ Well(t, W, cl, {} \ {ListSlot(i)}) /\ Serves(s, t, Heard)
      /\ Kept(s, t, {"conn", "task"})
  BY AnswerKeeps
<1> HIDE DEF t
<1>3. Goes(s, t, W, cl) BY <1>1, <1>2 DEF Goes, Kept, ServerFields
<1> QED BY <1>3 DEF t

LEMMA FailedGoes ==
  ASSUME NEW W, NEW cl, NEW s, Well(s, W, cl, {}),
         NEW i \in DOMAIN s.task, s.task[i].at \notin {"queued", "running"}, NEW code \in Nat
  PROVE  Goes(s, Failed(s, i, code), W, cl)
<1>1. MayTell("error", i) /\ "none" \in Outcomes BY DEF MayTell, Outcomes
<1>2. Goes(s, Forget(Told(s, i, "error", code, "none"), i), W, cl) BY <1>1, AnswerGoes
<1> QED BY <1>2 DEF Failed

LEMMA StopCallGoes ==
  ASSUME NEW W, NEW cl, NEW s, Well(s, W, cl, {}), NEW i \in DOMAIN s.task,
         s.task[i].kind = "stop", s.task[i].file \in Roots,
         s.task[i].at \notin {"queued", "running"}
  PROVE  Goes(s, StopCall(s, i), W, cl)
<1>1. i[1] = "write" BY TaskFacts DEF Well, PageWishes
<1>2. s.task[i].kind \in PageWishes /\ Cleared(s.task[i]) BY DEF PageWishes, Cleared
<1>3. Goes(s, SessionOf(s, i), W, cl) BY <1>2, SessionOfGoes
<1>4. Goes(s, Acked(s, i, "no-process"), W, cl) BY <1>1, AckedGoes DEF Outcomes
<1> QED BY <1>3, <1>4 DEF StopCall

LEMMA DispatchGoes ==
  ASSUME NEW W, NEW cl, NEW s, Well(s, W, cl, {}), NEW m, m.id \in DOMAIN s.task,
         s.task[m.id].at = "new", s.task[m.id].round = 1, s.task[m.id].kind = m.kind,
         m.kind \in PageWishes => s.task[m.id].file \in Roots
  PROVE  Goes(s, Dispatch(s, m), W, cl)
<1> DEFINE i == m.id
           r == s.task[i]
<1>1. Sound(s, W, cl) /\ s \in Servers BY DEF Well, Sound
<1>2. r \in Tasks /\ TaskSound(W, i, r) BY <1>1, TasksAre DEF Sound, TasksSound
<1>3. m.kind \in Kinds BY <1>2 DEF Tasks
<1>4. r.at \notin {"queued", "running"} /\ r.at \in {"new", "read"} OBVIOUS
<1>5. CASE m.kind = "list"
  <2> DEFINE n == At(s, i, "queued")
             t == Acquire(n, ListSlot(i))
  <2>1. /\ Well(n, W, cl, {ListSlot(i)}) /\ Serves(s, n, Heard) /\ Kept(s, n, {"task"})
        /\ ListSlot(i) \in QueuedSlots(n)
    BY <1>5, QueueingKeeps
  <2> HIDE DEF n
  <2>2. Well(t, W, cl, {}) /\ Serves(n, t, Heard) /\ Admits(n, t) BY <2>1, AcquireKeeps
  <2> HIDE DEF t
  <2>3. n \in Servers /\ t \in Servers /\ t.launched = s.launched
    BY <2>1, <2>2 DEF Well, Sound, Admits, Kept, ServerFields
  <2>4. Serves(s, t, Heard) BY <1>1, <2>1, <2>2, <2>3, ServesOn
  <2>5. Goes(s, t, W, cl) BY <2>2, <2>3, <2>4 DEF Goes
  <2> QED BY <1>5, <2>5 DEF Dispatch, t, n
<1>6. CASE m.kind = "models"
  <2> DEFINE u == [r EXCEPT !.at = "asking"]
             t == [s EXCEPT !.task[i] = u]
  <2>1. u \in Tasks /\ Same(u, r) /\ u.at = "asking" BY <1>2 DEF Tasks, Stages, Same
  <2>2. Dispatch(s, m) = t BY <1>6 DEF Dispatch, At
  <2> HIDE DEF u
  <2>3. TaskSound(W, i, u)
    <3>1. "asking" \in StageOf("models") /\ "models" \notin PageWishes BY DEF StageOf, PageWishes
    <3> QED BY <1>2, <1>6, <2>1, <3>1 DEF TaskSound, Same
  <2>4. t.task[i] = u BY <1>1, <2>1, TaskIs
  <2> HIDE DEF t
  <2>5. EvidenceOf(t, i) BY <2>1, <2>4 DEF EvidenceOf
  <2> USE DEF t
  <2>6. u.at \notin {"queued", "running", "reading", "creating"} BY <2>1
  <2>7. Goes(s, t, W, cl) BY <1>4, <2>1, <2>3, <2>5, <2>6, RetaskGoes
  <2> QED BY <2>2, <2>7
<1>7. CASE m.kind = "roots"
  <2>1. i[1] = "roots" BY <1>1, <1>7, TaskFacts DEF PageWishes
  <2>2. MayTell("roots-list", i) /\ "ok" \in Outcomes /\ 0 \in Nat BY <2>1 DEF MayTell, Outcomes
  <2>3. Goes(s, Forget(Told(s, i, "roots-list", 0, "ok"), i), W, cl) BY <1>4, <2>2, AnswerGoes
  <2> QED BY <1>7, <2>3 DEF Dispatch
<1>8. CASE m.kind = "resume"
  <2> DEFINE u == [r EXCEPT !.at = "reading"]
  <2>1. /\ u \in Tasks /\ Same(u, r) /\ u.at = "reading" /\ u.round = 1
        /\ r.file = u.file /\ r.by = u.by
    BY <1>2 DEF Tasks, Stages, Same
  <2>2. At(s, i, "reading") = [s EXCEPT !.task[i] = u] BY DEF At
  <2> HIDE DEF u
  <2>3. r.file \in Roots BY <1>8 DEF PageWishes
  <2>4. Goes(s, ReadOnce(s, i), W, cl) BY <1>4, <1>8, <2>1, <2>2, <2>3, ReadOnceGoes
  <2> QED BY <1>8, <2>4 DEF Dispatch
<1>9. CASE m.kind = "prompt"
  <2>1. Cleared(r) /\ r.file \in Roots /\ r.kind \in PageWishes BY <1>9 DEF PageWishes, Cleared
  <2>2. Goes(s, SessionOf(s, i), W, cl) BY <1>4, <2>1, SessionOfGoes
  <2> QED BY <1>9, <2>2 DEF Dispatch
<1>10. CASE m.kind = "stop"
  <2>1. r.file \in Roots BY <1>10 DEF PageWishes
  <2>2. Goes(s, StopCall(s, i), W, cl) BY <1>4, <1>10, <2>1, StopCallGoes
  <2> QED BY <1>10, <2>2 DEF Dispatch
<1> QED BY <1>3, <1>5, <1>6, <1>7, <1>8, <1>9, <1>10 DEF Kinds, PageWishes

\* A request is refused with a strike, and forgotten.
LEMMA RefusedGoes ==
  ASSUME NEW W, NEW cl, NEW s, Well(s, W, cl, {}), NEW i \in DOMAIN s.task,
         s.task[i].at \notin {"queued", "running", "reading"}
  PROVE  LET r == s.task[i]
         IN Goes(s, Forget(Strike(s, r.by, i, r.kind, r.file), i), W, cl)
<1> DEFINE r == s.task[i]
           n == Strike(s, r.by, i, r.kind, r.file)
           t == Forget(n, i)
<1>1. Sound(s, W, cl) /\ s \in Servers BY DEF Well, Sound
<1>2. r \in Tasks /\ TaskSound(W, i, r) /\ i \in AllIds BY <1>1, TasksAre DEF Sound, TasksSound
<1>3. r.by \in Conns /\ r.by \in Heard BY <1>1, <1>2, TaskFacts DEF Tasks
<1>4. MayName(W, r.by, i, r.kind, r.file) BY <1>2 DEF MayName, TaskSound, Tasks
<1>5. /\ Well(n, W, cl, {}) /\ Serves(s, n, Heard)
      /\ Kept(s, n, {"conn", "task", "read", "gate"})
      /\ i \in DOMAIN n.task /\ n.task[i] = r
      /\ s.conn[r.by].open =>
           \/ ~n.conn[r.by].open /\ Ended(n, r.by)
           \/ \E k \in DOMAIN n.conn[r.by].wire : n.conn[r.by].wire[k].id = i
  <2> DEFINE b == r.by
             kind == r.kind
             file == r.file
  <2>1. b \in Conns /\ b \in Heard /\ MayName(W, b, i, kind, file) BY <1>3, <1>4
  <2>2. n = Strike(s, b, i, kind, file) OBVIOUS
  <2> HIDE DEF n, b, kind, file
  <2>3. /\ Well(n, W, cl, {}) /\ Serves(s, n, Heard)
        /\ Kept(s, n, {"conn", "task", "read", "gate"})
        /\ \A j \in DOMAIN s.task :
             s.task[j].at \notin {"queued", "reading"} => j \in DOMAIN n.task /\ n.task[j] = s.task[j]
        /\ b \in Heard /\ s.conn[b].open =>
             \/ ~n.conn[b].open /\ Ended(n, b)
             \/ \E k \in DOMAIN n.conn[b].wire : n.conn[b].wire[k].id = i
    BY <2>1, <2>2, StrikeKeeps
  <2> QED BY <2>1, <2>3 DEF b
<1> HIDE DEF n
<1>6. Answered(n, i) BY <1>3, <1>5 DEF Answered, Serves
<1>7. {} \ {ListSlot(i)} = {} OBVIOUS
<1>8. n.task[i].at \notin {"queued", "running"} BY <1>5
<1>9. /\ Well(t, W, cl, {} \ {ListSlot(i)}) /\ Serves(n, t, Heard)
      /\ Kept(n, t, {"conn", "task"})
  BY <1>5, <1>6, <1>8, ForgetKeeps
<1> HIDE DEF t
<1>10. Goes(s, n, W, cl) BY <1>5 DEF Goes, Kept, ServerFields
<1>11. Goes(n, t, W, cl) BY <1>7, <1>9 DEF Goes, Kept, ServerFields
<1>12. Goes(s, t, W, cl) BY <1>10, <1>11, GoesOn
<1> QED BY <1>12 DEF t, n

\* A request is served, or answered at once.
LEMMA HandleRequestGoes ==
  ASSUME NEW W, NEW cl, NEW s, Well(s, W, cl, {}), NEW c \in Conns, NEW m,
         RequestSound(W, cl, c, m)
  PROVE  LET t == HandleRequest(s, c, m)
         IN Goes(s, t, W, cl) /\ (s.conn[c].open => Pledged(t, c, m.id))
<1> DEFINE i == m.id
           n == Admitted(s, c, m)
           struck == StrikeMessage(s, c, m)
           barred == Forget(StrikeMessage(n, c, m), i)
           served == Dispatch(n, m)
           full == i \in s.conn[c].inflight \/ Cardinality(s.conn[c].inflight) >= InflightMax
           outside == m.kind \in PageWishes /\ m.file \notin Roots
<1>1. Sound(s, W, cl) /\ s \in Servers BY DEF Well, Sound
<1>2. c \in Heard /\ i \in AllIds BY DEF RequestSound, Owns, Heard
<1>3. HandleRequest(s, c, m) = IF full THEN struck ELSE IF outside THEN barred ELSE served
  BY DEF HandleRequest, Admitted
<1>4. Goes(s, struck, W, cl) /\ (s.conn[c].open => Pledged(struck, c, i))
  <2>1. MayName(W, c, i, m.kind, m.file) BY DEF MayName, RequestSound
  <2>2. struck = Strike(s, c, i, m.kind, m.file) BY DEF StrikeMessage
  <2>3. Goes(s, struck, W, cl) BY <2>1, <2>2, StrikeGoes
  <2>4. s.conn[c].open => \/ Ended(struck, c)
                          \/ \E k \in DOMAIN struck.conn[c].wire : struck.conn[c].wire[k].id = i
    BY <1>2, <2>1, <2>2, StrikeKeeps
  <2> HIDE DEF struck
  <2> QED BY <2>3, <2>4 DEF Pledged, Ended
<1>5. ASSUME ~full
      PROVE  /\ Goes(s, n, W, cl) /\ Well(n, W, cl, {})
             /\ i \in DOMAIN n.task /\ n.task[i] = Task(c, m) /\ n.conn[c].open = s.conn[c].open
  <2>1. i \notin s.conn[c].inflight BY <1>5
  <2> QED BY <2>1, AdmitKeeps DEF Goes
<1> HIDE DEF n
<1>6. /\ Task(c, m).at = "new" /\ Task(c, m).round = 1 /\ Task(c, m).by = c
      /\ Task(c, m).kind = m.kind /\ Task(c, m).file = m.file
  BY DEF Task
<1>7. ASSUME ~full, NEW t, Goes(n, t, W, cl)
      PROVE  Goes(s, t, W, cl) /\ (s.conn[c].open => Pledged(t, c, i))
  <2>1. Goes(s, t, W, cl) BY <1>5, <1>7, GoesOn
  <2>2. s.conn[c].open => Pledged(n, c, i) BY <1>5, <1>6, <1>7 DEF Pledged
  <2>3. Pledged(n, c, i) => Pledged(t, c, i) BY <1>2, <1>7 DEF Goes, Serves
  <2> QED BY <2>1, <2>2, <2>3
<1>8. ASSUME ~full PROVE Goes(n, barred, W, cl)
  <2>1. n.task[i].at \notin {"queued", "running", "reading"} /\ n.task[i].by = c
        /\ n.task[i].kind = m.kind /\ n.task[i].file = m.file
    BY <1>5, <1>6, <1>8
  <2>2. Goes(n, Forget(Strike(n, c, i, m.kind, m.file), i), W, cl) BY <1>5, <1>8, <2>1, RefusedGoes
  <2> QED BY <2>2 DEF StrikeMessage
<1>9. ASSUME ~full, ~outside PROVE Goes(n, served, W, cl)
  <2>1. /\ n.task[i].at = "new" /\ n.task[i].round = 1 /\ n.task[i].kind = m.kind
        /\ m.kind \in PageWishes => n.task[i].file \in Roots
    BY <1>5, <1>6, <1>9
  <2> QED BY <1>5, <1>9, <2>1, DispatchGoes
<1> HIDE DEF struck, barred, served, full, outside
<1>10. /\ ~full => Goes(s, barred, W, cl) /\ (s.conn[c].open => Pledged(barred, c, i))
       /\ ~full /\ ~outside => Goes(s, served, W, cl) /\ (s.conn[c].open => Pledged(served, c, i))
  BY <1>7, <1>8, <1>9
<1> QED BY <1>3, <1>4, <1>10

-------------------------------------------------------------------------------
(* What comes in *)

MessageSound(W, cl, c, m) ==
  IF c \in Heard
  THEN /\ m.t \in {"hello", "bye", "request"}
       /\ m.t = "request" => RequestSound(W, cl, c, m)
       /\ m.t # "request" => m.id = NoId
  ELSE m.t = "raw"

\* Every frame but the end: who sent a request has it answered, or served, or is told of its end.
LEMMA InboundGoes ==
  ASSUME NEW W, NEW cl, NEW s, Well(s, W, cl, {}), NEW c \in Conns, NEW m,
         MessageSound(W, cl, c, m), m.t # "bye"
  PROVE  LET t == Inbound(s, c, m)
         IN Goes(s, t, W, cl) /\ (m.t = "request" /\ s.conn[c].open => Pledged(t, c, m.id))
<1> DEFINE t == Inbound(s, c, m)
<1>1. Sound(s, W, cl) /\ s \in Servers BY DEF Well, Sound
<1>2. Goes(s, s, W, cl) BY ServesSelf DEF Goes
<1>3. CASE ~s.conn[c].open \/ s.disposed
  <2>1. t = s BY <1>3 DEF Inbound
  <2>2. ~s.conn[c].open BY <1>1, <1>3 DEF Sound, ShutWhenDisposed
  <2> QED BY <1>2, <2>1, <2>2
<1>4. CASE s.conn[c].open /\ ~s.disposed /\ m.t = "raw"
  <2> DEFINE code == CheckFrame(m.frame, s.conn[c].authed)
  <2>1. t = IF code = 0 THEN s ELSE ErrFrame(s, c, code) BY <1>4 DEF Inbound
  <2>2. code \in {0, 4401, 4403, 4404, 4405} BY CheckFrameIs
  <2> HIDE DEF code
  <2>3. code # 0 => Goes(s, ErrFrame(s, c, code), W, cl) BY <2>2, ErrFrameGoes
  <2> QED BY <1>2, <1>4, <2>1, <2>3
<1>5. CASE s.conn[c].open /\ ~s.disposed /\ m.t = "hello"
  <2>1. t = HandleHello(s, c) BY <1>5 DEF Inbound
  <2> QED BY <1>5, <2>1, HelloGoes
<1>6. CASE s.conn[c].open /\ ~s.disposed /\ m.t = "request"
  <2>1. c \in Heard /\ RequestSound(W, cl, c, m) BY <1>6 DEF MessageSound
  <2>2. ASSUME ~s.conn[c].authed PROVE Goes(s, t, W, cl) /\ Pledged(t, c, m.id)
    <3>1. t = Expel(s, c) BY <1>6, <2>2 DEF Inbound
    <3>2. t = CloseConn(s, c, Expelled) BY <3>1 DEF Expel
    <3>3. Farewell(Expelled) /\ Final(Expelled) BY LastWords DEF Expelled
    <3>4. Serves(s, CloseConn(s, c, Expelled), Heard) /\ Closes(s, CloseConn(s, c, Expelled), {c})
      BY <3>3, CloseConnKeeps
    <3> HIDE DEF t
    <3>5. Ended(t, c) BY <1>6, <2>1, <3>2, <3>4 DEF Serves, Closes
    <3>6. Goes(s, t, W, cl) BY <3>1, ExpelGoes
    <3> QED BY <3>5, <3>6 DEF Pledged, Ended
  <2>3. ASSUME s.conn[c].authed PROVE Goes(s, t, W, cl) /\ Pledged(t, c, m.id)
    <3>1. t = HandleRequest(s, c, m) BY <1>6, <2>3 DEF Inbound
    <3> QED BY <1>6, <2>1, <3>1, HandleRequestGoes
  <2> QED BY <2>2, <2>3
<1>7. m.t \in {"raw", "hello", "request"} BY DEF MessageSound
<1> QED BY <1>3, <1>4, <1>5, <1>6, <1>7

\* The end of a transport.
LEMMA ByeKeeps ==
  ASSUME NEW W, NEW cl, NEW s, Well(s, W, cl, {}), NEW c \in Conns, NEW m, m.t = "bye"
  PROVE  LET t == Inbound(s, c, m)
         IN Well(t, W, cl, {}) /\ Serves(s, t, Heard \ {c}) /\ t.launched = s.launched
<1> DEFINE t == CloseConns(s, {c}, << >>)
<1>1. Inbound(s, c, m) = t BY DEF Inbound, CloseConn
<1>2. Farewell(<< >>)
  <2>1. ToSet(<< >>) = {} BY DEF ToSet
  <2> QED BY <2>1 DEF Farewell
<1>3. {c} \in SUBSET Conns /\ (Heard \ {c}) \in SUBSET Heard /\ (Heard \ {c}) \cap {c} = {} OBVIOUS
<1>4. Well(t, W, cl, {}) /\ Serves(s, t, Heard \ {c}) /\ Closes(s, t, {c})
  BY <1>2, <1>3, CloseConnsKeeps
<1> HIDE DEF t
<1>5. t.launched = s.launched BY <1>4 DEF Closes, Kept, ServerFields
<1> QED BY <1>1, <1>4, <1>5

-------------------------------------------------------------------------------
(* A list that was scanned *)

LEMMA PageStays ==
  ASSUME NEW S, NEW v \in Seq(S), NEW w \in Seq(S), NEW f, NEW u, PageSound(v, f, u), Longer(v, w)
  PROVE  PageSound(w, f, u)
<1>1. Len(v) \in Nat /\ Len(w) \in Nat /\ Len(v) <= Len(w) BY DEF Longer
<1>2. f.version \in 1 .. Len(v) BY DEF PageSound
<1>3. f.version \in 1 .. Len(w) /\ w[f.version] = v[f.version] BY <1>1, <1>2 DEF Longer
<1> QED BY <1>3 DEF PageSound

\* A listing is given its version, if it is a new one.
LEMMA VersionedKeeps ==
  ASSUME NEW W, NEW cl, NEW s, Well(s, W, cl, {}), NEW seen \in Listings
  PROVE  LET t == Versioned(s, seen)
         IN /\ Well(t, W, cl, {}) /\ Serves(s, t, Heard) /\ Kept(s, t, {"versions"})
            /\ Len(t.versions) \in Nat \ {0} /\ t.versions[Len(t.versions)] = seen
<1> DEFINE more == Append(s.versions, seen)
           n == [s EXCEPT !.versions = more]
           t == Versioned(s, seen)
<1>1. Sound(s, W, cl) /\ GateSound(s, {}) /\ s \in Servers /\ s.versions \in Seq(Listings)
  BY DEF Well, Sound, Servers
<1>2. CASE s.versions # << >> /\ Last(s.versions) = seen
  <2>1. t = s BY <1>2 DEF Versioned
  <2>2. Len(s.versions) \in Nat \ {0} BY <1>1, <1>2
  <2>3. s.versions[Len(s.versions)] = seen BY <1>2 DEF Last
  <2> QED BY <2>1, <2>2, <2>3, ServesSelf DEF Kept
<1>3. CASE ~(s.versions # << >> /\ Last(s.versions) = seen)
  <2>1. t = n BY <1>3 DEF Versioned
  <2>2. /\ more \in Seq(Listings) /\ Len(more) = Len(s.versions) + 1 /\ Len(s.versions) \in Nat
        /\ more[Len(more)] = seen
        /\ \A k \in 1 .. Len(s.versions) : more[k] = s.versions[k]
    BY <1>1
  <2> HIDE DEF more
  <2>3. n \in Servers /\ Kept(s, n, {"versions"}) /\ n.versions = more
    BY <1>1, <2>2 DEF Servers, Kept, ServerFields
  <2> HIDE DEF n
  <2>4. /\ n.conn = s.conn /\ n.task = s.task /\ n.read = s.read /\ n.host = s.host
        /\ n.gate = s.gate /\ n.disposed = s.disposed /\ n.tokens = s.tokens
    BY <2>3 DEF Kept, ServerFields
  <2>5. Longer(s.versions, n.versions) BY <2>2, <2>3 DEF Longer
  <2>6. TasksSound(n, W) /\ WiresSound(n, W) BY <1>1, <2>4 DEF Sound, TasksSound, WiresSound
  <2>7. EvidenceSound(n) BY <1>1, <2>4 DEF Sound, EvidenceSound, EvidenceOf
  <2>8. PagesSound(n, cl)
    <3>1. PagesSound(s, cl) BY <1>1 DEF Sound
    <3>2. n.versions \in Seq(Listings) BY <2>2, <2>3
    <3>3. ASSUME NEW c \in Conns, NEW k \in DOMAIN s.conn[c].wire, s.conn[c].wire[k].t = "sessions"
          PROVE  PageSound(n.versions, s.conn[c].wire[k], cl[c])
      <4>1. PageSound(s.versions, s.conn[c].wire[k], cl[c]) BY <3>1, <3>3 DEF PagesSound
      <4> QED BY <1>1, <2>5, <3>2, <4>1, PageStays
    <3> QED BY <2>4, <3>1, <3>3 DEF PagesSound
  <2>9. Slotted(n) /\ Awaited(n) BY <1>1, <2>4 DEF Sound, Slotted, Awaited
  <2>10. TokensHold(n) /\ ShutWhenDisposed(n) BY <1>1, <2>4 DEF Sound, TokensHold, ShutWhenDisposed
  <2>11. Sound(n, W, cl) BY <1>1, <2>3, <2>6, <2>7, <2>8, <2>9, <2>10 DEF Sound
  <2>12. GateSound(n, {}) BY <1>1, <2>4, GateKept
  <2>13. Serves(s, n, Heard)
    <3>1. Heard \subseteq Conns BY HostAssumption DEF Heard
    <3> QED BY <2>4, <2>5, <3>1 DEF Serves, Ended, Pledged
  <2> QED BY <2>1, <2>2, <2>3, <2>11, <2>12, <2>13 DEF Well
<1> QED BY <1>2, <1>3

\* The members of a stretch of a sequence.
LEMMA StretchIs ==
  ASSUME NEW S, NEW w \in Seq(S), NEW a \in Nat, NEW b \in a .. Len(w)
  PROVE  ToSet(SubSeq(w, a + 1, b)) = {w[k] : k \in a + 1 .. b}
<1> DEFINE u == SubSeq(w, a + 1, b)
<1>1. Len(w) \in Nat /\ a + 1 \in 1 .. Len(w) + 1 /\ b \in a .. Len(w) /\ b \in Nat OBVIOUS
<1>2. /\ u \in Seq(S) /\ Len(u) = b - a /\ DOMAIN u = 1 .. (b - a)
      /\ \A k \in 1 .. (b - a) : u[k] = w[a + k]
  BY <1>1
<1> HIDE DEF u
<1>3. ToSet(u) \subseteq {w[k] : k \in a + 1 .. b}
  <2>1. \A k \in 1 .. (b - a) : a + k \in a + 1 .. b BY <1>1
  <2> QED BY <1>2, <2>1 DEF ToSet
<1>4. ASSUME NEW k \in a + 1 .. b PROVE w[k] \in ToSet(u)
  <2>1. k - a \in 1 .. (b - a) /\ a + (k - a) = k BY <1>1
  <2>2. u[k - a] = w[k] BY <1>2, <2>1
  <2> QED BY <1>2, <2>1, <2>2 DEF ToSet
<1>5. {w[k] : k \in a + 1 .. b} \subseteq ToSet(u) BY <1>4
<1> QED BY <1>3, <1>5 DEF u

\* A page is a stretch of the listing of its version, from where it was asked for.
LEMMA SessionsFrameIs ==
  ASSUME NEW W, NEW cl, NEW s, Sound(s, W, cl), NEW i \in DOMAIN s.task, s.task[i].at = "running",
         NEW seen \in Listings, s.task[i].named <= Len(seen),
         Len(s.versions) \in Nat \ {0}, s.versions[Len(s.versions)] = seen
  PROVE  LET f == SessionsFrame(s, i, seen)
             c == s.task[i].by
         IN /\ f \in Frames /\ f.id = i /\ FrameSound(W, c, f)
            /\ PageSound(s.versions, f, cl[c])
<1> DEFINE r == s.task[i]
           c == r.by
           from == r.named
           next == IF from + PageSize < Len(seen) THEN from + PageSize ELSE Len(seen)
           f == SessionsFrame(s, i, seen)
<1>1. s \in Servers /\ r \in Tasks /\ TaskSound(W, i, r) /\ i \in AllIds /\ c \in Conns
  BY TasksAre DEF Sound, TasksSound
<1>2. i \in ListIds /\ i # NoId /\ i[1] = "list" /\ r.kind = "list"
  <2>1. i \in ListIds /\ i # NoId BY TaskFacts
  <2>2. i[1] = "list" BY <2>1 DEF ListIds
  <2> QED BY <2>1, <2>2, TaskFacts
<1>3. seen \in Seq(ToSet(seen)) /\ Len(seen) \in Nat
  BY WritePathAssumption
<1>4. from \in Nat /\ PageSize \in Nat /\ next \in Nat /\ next \in from .. Len(seen)
  BY <1>1, <1>3, HostAssumption DEF Tasks
<1> DEFINE rows == ToSet(SubSeq(seen, from + 1, next))
<1>5. rows \subseteq ToSet(seen)
  <2> HIDE DEF next, from
  <2>1. rows = {seen[k] : k \in from + 1 .. next} BY <1>3, <1>4, StretchIs
  <2>2. DOMAIN seen = 1 .. Len(seen) BY <1>3
  <2>3. from + 1 .. next \subseteq 1 .. Len(seen) BY <1>3, <1>4
  <2> HIDE DEF rows
  <2> QED BY <2>1, <2>2, <2>3 DEF ToSet
<1>6. f = [t |-> "sessions", id |-> i, kind |-> "list", code |-> 0, rows |-> rows, next |-> next,
           more |-> next < Len(seen), version |-> Len(s.versions)]
  BY DEF SessionsFrame
<1>7. rows \in SUBSET UNION {ToSet(l) : l \in Listings} BY <1>5
<1>8. (next < Len(seen)) \in BOOLEAN OBVIOUS
<1> DEFINE more == next < Len(seen)
<1>9. f \in Frames
  <2> HIDE DEF more, next, rows
  <2>1. [t |-> "sessions", id |-> i, kind |-> "list", code |-> 0, rows |-> rows, next |-> next,
         more |-> more, version |-> Len(s.versions)] \in ListAnswers
    BY <1>1, <1>4, <1>7, <1>8 DEF ListAnswers, more
  <2> QED BY <1>6, <2>1 DEF Frames, more
<1>10. /\ f.t = "sessions" /\ f.id = i /\ f.rows = rows /\ f.next = next
       /\ f.more = (next < Len(seen)) /\ f.version = Len(s.versions)
  BY <1>6
<1> HIDE DEF f
<1>11. FrameSound(W, c, f) BY <1>1, <1>2, <1>10 DEF FrameSound, TaskSound
<1>12. PageSound(s.versions, f, cl[c])
  <2>1. i[2] <= cl[c].seq /\ (i[2] = cl[c].seq => from = cl[c].offset)
    BY <1>2 DEF Sound, PagesSound
  <2>2. f.version \in 1 .. Len(s.versions) /\ s.versions[f.version] = seen BY <1>10
  <2>3. from \in 0 .. Len(seen) BY <1>3, <1>4
  <2> HIDE DEF next, from
  <2> QED BY <1>4, <1>10, <2>1, <2>2, <2>3 DEF PageSound
<1> QED BY <1>9, <1>10, <1>11, <1>12 DEF f

\* The answer is on the wire, the slot is given back, and the request is forgotten.
LEMMA SlotBackGoes ==
  ASSUME NEW W, NEW cl, NEW s, Well(s, W, cl, {}), NEW i \in DOMAIN s.task, s.task[i].at = "running",
         Answered(s, i)
  PROVE  Goes(s, Forget(Release(s, ListSlot(i)), i), W, cl)
<1> DEFINE h == ListSlot(i)
           n == Release(s, h)
           t == Forget(n, i)
<1>1. h \in BusySlots(s) BY DEF BusySlots
<1>2. Well(n, W, cl, {h}) /\ Serves(s, n, Heard) /\ Admits(s, n) BY <1>1, ReleaseKeeps
<1> HIDE DEF n
<1>3. i \in DOMAIN n.task /\ n.task[i] = s.task[i] /\ n.conn = s.conn /\ n.launched = s.launched
  BY <1>2 DEF Admits, Kept, ServerFields
<1>4. Answered(n, i) BY <1>3 DEF Answered
<1>5. n.task[i].at \in {"queued", "running"} => ListSlot(i) \in {h} OBVIOUS
<1>6. Well(t, W, cl, {h} \ {ListSlot(i)}) /\ Serves(n, t, Heard) /\ Kept(n, t, {"conn", "task"})
  BY <1>2, <1>3, <1>4, <1>5, ForgetKeeps
<1> HIDE DEF t
<1>7. {h} \ {ListSlot(i)} = {} OBVIOUS
<1>8. s \in Servers /\ n \in Servers /\ t \in Servers BY <1>2, <1>6 DEF Well, Sound
<1>9. Serves(s, t, Heard) BY <1>2, <1>6, <1>8, ServesOn
<1>10. t.launched = s.launched BY <1>3, <1>6 DEF Kept, ServerFields
<1>11. Goes(s, t, W, cl) BY <1>6, <1>7, <1>9, <1>10 DEF Goes
<1> QED BY <1>11 DEF t, n

LEMMA ListedGoes ==
  ASSUME NEW W, NEW cl, NEW s, Well(s, W, cl, {}), NEW i \in DOMAIN s.task, s.task[i].at = "running",
         NEW seen \in Listings
  PROVE  Goes(s, Listed(s, i, seen), W, cl)
<1> DEFINE r == s.task[i]
           c == r.by
           n == Versioned(s, seen)
           late == Told(n, i, "error", 4431, "none")
           good == Sent(n, c, SessionsFrame(n, i, seen))
           end(u) == Forget(Release(u, ListSlot(i)), i)
<1>1. Sound(s, W, cl) /\ s \in Servers /\ r \in Tasks /\ c \in Conns
  BY TasksAre DEF Well, Sound
<1>2. Listed(s, i, seen) = IF s.conn[c].open THEN IF r.named > Len(seen) THEN end(late) ELSE end(good)
                           ELSE end(s)
  BY DEF Listed
<1>3. /\ Well(n, W, cl, {}) /\ Serves(s, n, Heard) /\ Kept(s, n, {"versions"})
      /\ Len(n.versions) \in Nat \ {0} /\ n.versions[Len(n.versions)] = seen
  BY VersionedKeeps
<1> HIDE DEF n
<1>4. /\ n.task = s.task /\ n.conn = s.conn /\ n.launched = s.launched
      /\ Sound(n, W, cl) /\ n \in Servers
  BY <1>3 DEF Well, Sound, Kept, ServerFields
<1>5. Goes(s, n, W, cl) BY <1>3, <1>4 DEF Goes
<1>6. ASSUME NEW u, Well(u, W, cl, {}), Serves(n, u, Heard), Kept(n, u, {"conn"}), Answered(u, i)
      PROVE  Goes(s, end(u), W, cl)
  <2>1. u.task = s.task /\ u.launched = n.launched BY <1>4, <1>6 DEF Kept, ServerFields
  <2>2. Goes(n, u, W, cl) BY <1>6, <2>1 DEF Goes
  <2>3. i \in DOMAIN u.task /\ u.task[i].at = "running" BY <2>1
  <2>4. Goes(u, end(u), W, cl) BY <1>6, <2>3, SlotBackGoes
  <2> HIDE DEF end
  <2> QED BY <1>5, <2>2, <2>4, <1>6, <1>3, GoesOn
<1>7. CASE ~s.conn[c].open
  <2>1. Answered(s, i) BY <1>7 DEF Answered
  <2>2. Goes(s, end(s), W, cl) BY <2>1, SlotBackGoes
  <2> HIDE DEF end, late, good
  <2> QED BY <1>2, <1>7, <2>2
<1>8. CASE s.conn[c].open /\ r.named > Len(seen)
  <2>1. MayTell("error", i) /\ "none" \in Outcomes /\ 4431 \in Nat /\ i \in DOMAIN n.task
    BY <1>4 DEF MayTell, Outcomes
  <2>2. Well(late, W, cl, {}) /\ Serves(n, late, Heard) /\ Kept(n, late, {"conn"}) /\ Answered(late, i)
    BY <1>3, <2>1, ToldKeeps
  <2> HIDE DEF late
  <2>3. Goes(s, end(late), W, cl) BY <1>6, <2>2
  <2> HIDE DEF end, good
  <2> QED BY <1>2, <1>8, <2>3
<1>9. CASE s.conn[c].open /\ ~(r.named > Len(seen))
  <2> DEFINE f == SessionsFrame(n, i, seen)
  <2>1. seen \in Seq(ToSet(seen)) BY WritePathAssumption
  <2>2. n.task[i].named <= Len(seen) BY <1>1, <1>4, <1>9, <2>1 DEF Tasks
  <2>3. i \in DOMAIN n.task /\ n.task[i].at = "running" /\ n.task[i].by = c BY <1>4
  <2>4. f \in Frames /\ f.id = i /\ FrameSound(W, c, f) /\ PageSound(n.versions, f, cl[c])
    BY <1>3, <1>4, <2>2, <2>3, SessionsFrameIs
  <2>5. good = Sent(n, c, f) OBVIOUS
  <2> HIDE DEF f, good
  <2>6. /\ Well(good, W, cl, {}) /\ Serves(n, good, Heard) /\ Kept(n, good, {"conn"})
        /\ n.conn[c].open /\ c \in Heard => f \in ToSet(good.conn[c].wire)
    BY <1>1, <1>3, <2>4, <2>5, SentKeeps
  <2>7. c \in Heard BY <1>1, TaskFacts
  <2>8. f \in ToSet(good.conn[c].wire) BY <1>4, <1>9, <2>6, <2>7
  <2>9. good.task = s.task BY <1>4, <2>6 DEF Kept, ServerFields
  <2>10. Answered(good, i) BY <2>4, <2>8, <2>9 DEF Answered, ToSet
  <2>11. Goes(s, end(good), W, cl) BY <1>6, <2>6, <2>10
  <2> HIDE DEF end, late
  <2> QED BY <1>2, <1>9, <2>11
<1> QED BY <1>7, <1>8, <1>9

\* A scan that threw.
LEMMA ListThrowsGoes ==
  ASSUME NEW W, NEW cl, NEW s, Well(s, W, cl, {}), NEW i \in DOMAIN s.task, s.task[i].at = "running"
  PROVE  Goes(s, Failed(Release(s, ListSlot(i)), i, 4402), W, cl)
<1> DEFINE h == ListSlot(i)
           n == Release(s, h)
           t == Failed(n, i, 4402)
<1>1. h \in BusySlots(s) BY DEF BusySlots
<1>2. Well(n, W, cl, {h}) /\ Serves(s, n, Heard) /\ Admits(s, n) BY <1>1, ReleaseKeeps
<1> HIDE DEF n
<1>3. i \in DOMAIN n.task /\ n.launched = s.launched BY <1>2 DEF Admits, Kept, ServerFields
<1>4. n.task[i].at \in {"queued", "running"} => ListSlot(i) \in {h} OBVIOUS
<1>5. Well(t, W, cl, {h} \ {ListSlot(i)}) /\ Serves(n, t, Heard) /\ Kept(n, t, {"conn", "task"})
  BY <1>2, <1>3, <1>4, FailedKeeps
<1> HIDE DEF t
<1>6. {h} \ {ListSlot(i)} = {} OBVIOUS
<1>7. s \in Servers /\ n \in Servers /\ t \in Servers BY <1>2, <1>5 DEF Well, Sound
<1>8. Serves(s, t, Heard) BY <1>2, <1>5, <1>7, ServesOn
<1>9. t.launched = s.launched BY <1>3, <1>5 DEF Kept, ServerFields
<1>10. Goes(s, t, W, cl) BY <1>5, <1>6, <1>8, <1>9 DEF Goes
<1> QED BY <1>10 DEF t, n

\* A waiter of the gate that waited too long.
LEMMA QueueTimeoutGoes ==
  ASSUME NEW W, NEW cl, NEW s, Well(s, W, cl, {}), NEW h \in ToSet(s.gate.waiting)
  PROVE  Goes(s, IF h[1] = "list" THEN Failed(Withdraw(s, {h}), h[2], 4409)
                 ELSE DropReads(s, {h[2]}), W, cl)
<1>1. Sound(s, W, cl) /\ s \in Servers /\ h \in QueuedSlots(s) BY DEF Well, Sound, GateSound
<1>2. CASE \E i \in DOMAIN s.task : s.task[i].at = "queued" /\ h = ListSlot(i)
  <2>1. PICK i \in DOMAIN s.task : s.task[i].at = "queued" /\ h = ListSlot(i) BY <1>2
  <2>2. h[1] = "list" /\ h[2] = i BY <2>1 DEF ListSlot
  <2> DEFINE n == Withdraw(s, {h})
             t == Failed(n, i, 4409)
  <2>3. {h} \in SUBSET QueuedSlots(s) BY <1>1
  <2>4. Well(n, W, cl, {h}) /\ Serves(s, n, Heard) /\ Kept(s, n, {"gate"}) BY <2>3, WithdrawKeeps
  <2> HIDE DEF n
  <2>5. i \in DOMAIN n.task /\ n.launched = s.launched BY <2>1, <2>4 DEF Kept, ServerFields
  <2>6. n.task[i].at \in {"queued", "running"} => ListSlot(i) \in {h} BY <2>1
  <2>7. Well(t, W, cl, {h} \ {ListSlot(i)}) /\ Serves(n, t, Heard) /\ Kept(n, t, {"conn", "task"})
    BY <2>4, <2>5, <2>6, FailedKeeps
  <2> HIDE DEF t
  <2>8. {h} \ {ListSlot(i)} = {} BY <2>1
  <2>9. n \in Servers /\ t \in Servers BY <2>4, <2>7 DEF Well, Sound
  <2>10. Serves(s, t, Heard) BY <1>1, <2>4, <2>7, <2>9, ServesOn
  <2>11. t.launched = s.launched BY <2>5, <2>7 DEF Kept, ServerFields
  <2>12. Goes(s, t, W, cl) BY <2>7, <2>8, <2>10, <2>11 DEF Goes
  <2> QED BY <2>2, <2>12 DEF t, n
<1>3. CASE \E f \in DOMAIN s.read : s.read[f].at = "queued" /\ h = ReadSlot(f)
  <2>1. PICK f \in DOMAIN s.read : s.read[f].at = "queued" /\ h = ReadSlot(f) BY <1>3
  <2>2. h[1] # "list" /\ h[2] = f BY <2>1 DEF ReadSlot
  <2> DEFINE t == DropReads(s, {f})
  <2>3. {f} \in SUBSET DOMAIN s.read /\ \A k \in {f} : s.read[k].at = "queued" BY <2>1
  <2>4. Well(t, W, cl, {}) /\ Serves(s, t, Heard) /\ Kept(s, t, {"task", "read", "gate"})
    BY <2>3, DropReadsKeeps
  <2> HIDE DEF t
  <2>5. Goes(s, t, W, cl) BY <2>4 DEF Goes, Kept, ServerFields
  <2> QED BY <2>2, <2>5 DEF t
<1> QED BY <1>1, <1>2, <1>3 DEF QueuedSlots

-------------------------------------------------------------------------------
(* Sessions and their processes *)

\* What is launched between s and t was asked for, and a resume has its evidence.
LaunchSound(s, t) ==
  \A i \in t.launched \ s.launched :
    LET r == s.task[i]
    IN r.kind = "resume" =>
         /\ r.fresh /\ r.got = "listed"
         /\ r.live # 0 => t.host[r.file].live = r.named
Runs(s, t, W, cl) == Well(t, W, cl, {}) /\ Serves(s, t, Heard) /\ LaunchSound(s, t)

LEMMA GoesRuns ==
  ASSUME NEW W, NEW cl, NEW s, NEW t, Goes(s, t, W, cl)
  PROVE  Runs(s, t, W, cl)
  BY DEF Goes, Runs, LaunchSound

\* The session of a file changes, but for a creation under way.
LEMMA HostGoes ==
  ASSUME NEW W, NEW cl, NEW s, Well(s, W, cl, {}), NEW f \in Roots, NEW u \in Hosts,
         s.host[f].sess = "creating" => u.sess = "creating"
  PROVE  LET t == [s EXCEPT !.host[f] = u]
         IN Goes(s, t, W, cl) /\ Kept(s, t, {"host"}) /\ t.host[f] = u
<1> DEFINE t == [s EXCEPT !.host[f] = u]
<1>1. s \in Servers BY DEF Well, Sound
<1>2. t \in Servers /\ Kept(s, t, {"host"}) /\ \A k \in Roots : t.host[k] = IF k = f THEN u ELSE s.host[k]
  BY <1>1, HostIs
<1> HIDE DEF t
<1>3. Kept(s, t, {"host", "launched", "dir", "disk"}) /\ t.launched = s.launched
  BY <1>2 DEF Kept, ServerFields
<1>4. \A k \in Roots : s.host[k].sess = "creating" => t.host[k].sess = "creating" BY <1>2
<1>5. Well(t, W, cl, {}) /\ Serves(s, t, Heard) BY <1>2, <1>3, <1>4, QuietKeeps
<1>6. Goes(s, t, W, cl) BY <1>3, <1>5 DEF Goes
<1> QED BY <1>2, <1>6 DEF t

LEMMA ProcessGoneGoes ==
  ASSUME NEW W, NEW cl, NEW s, Well(s, W, cl, {}), NEW f \in Roots
  PROVE  LET t == ProcessGone(s, f)
         IN Goes(s, t, W, cl) /\ Kept(s, t, {"host"})
<1> DEFINE u == [s.host[f] EXCEPT !.live = 0, !.ready = FALSE, !.turn = FALSE]
<1>1. s \in Servers BY DEF Well, Sound
<1>2. s.host[f] \in Hosts BY <1>1 DEF Servers
<1>3. u \in Hosts /\ u.sess = s.host[f].sess BY <1>2 DEF Hosts
<1>4. ProcessGone(s, f) = [s EXCEPT !.host[f] = u] BY DEF ProcessGone
<1> HIDE DEF u
<1> QED BY <1>3, <1>4, HostGoes

\* The end of send().
LEMMA SubmitRuns ==
  ASSUME NEW W, NEW cl, NEW s, Well(s, W, cl, {}), NEW i \in DOMAIN s.task,
         i[1] = "write", s.task[i].file \in Roots, Cleared(s.task[i])
  PROVE  Runs(s, Submit(s, i), W, cl)
<1> DEFINE r == s.task[i]
           f == r.file
           h == s.host[f]
           u == [h EXCEPT !.turn = TRUE]
           m == [s EXCEPT !.host[f] = u]
           n == [m EXCEPT !.launched = @ \cup {i}]
           t == Acked(n, i, "launched")
<1>1. s \in Servers /\ i \in AllIds BY TasksAre DEF Well, Sound
<1>2. \A res \in Outcomes : Runs(s, Acked(s, i, res), W, cl) BY AckedGoes, GoesRuns
<1>3. {"not-ready", "invalidated", "busy", "launched"} \subseteq Outcomes BY DEF Outcomes
<1>4. [s EXCEPT !.host[f].turn = TRUE, !.launched = @ \cup {i}] = n BY <1>1 DEF Servers
<1>5. h \in Hosts BY <1>1 DEF Servers
<1>6. u \in Hosts /\ u.sess = h.sess /\ u.live = h.live BY <1>5 DEF Hosts
<1> HIDE DEF u
<1>7. Goes(s, m, W, cl) /\ Kept(s, m, {"host"}) /\ m.host[f] = u BY <1>6, HostGoes
<1>8. m \in Servers /\ Well(m, W, cl, {}) BY <1>7 DEF Goes, Well, Sound
<1>9. m.launched = s.launched /\ m.task = s.task BY <1>7 DEF Kept, ServerFields
<1> HIDE DEF m
<1>10. n \in Servers /\ Kept(m, n, {"launched"}) /\ n.launched = s.launched \cup {i}
  BY <1>1, <1>8, <1>9 DEF Servers, Kept, ServerFields
<1> HIDE DEF n
<1>11. Kept(m, n, {"host", "launched", "dir", "disk"}) /\ n.host = m.host /\ n.task = s.task
  BY <1>9, <1>10 DEF Kept, ServerFields
<1>12. Well(n, W, cl, {}) /\ Serves(m, n, Heard) BY <1>8, <1>10, <1>11, QuietKeeps
<1>13. Well(t, W, cl, {}) /\ Serves(n, t, Heard) /\ Kept(n, t, {"conn", "task"})
  BY <1>3, <1>11, <1>12, AckedKeeps
<1> HIDE DEF t
<1>14. t \in Servers /\ t.launched = s.launched \cup {i} /\ t.host[f] = u
  BY <1>7, <1>10, <1>11, <1>13 DEF Well, Sound, Kept, ServerFields
<1>15. Serves(s, t, Heard)
  <2>1. Serves(s, m, Heard) BY <1>7 DEF Goes
  <2>2. Serves(s, n, Heard) BY <1>1, <1>8, <1>10, <1>12, <2>1, ServesOn
  <2> QED BY <1>1, <1>10, <1>13, <1>14, <2>2, ServesOn
<1>16. ASSUME ~(r.live # 0 /\ r.live # h.live) PROVE LaunchSound(s, t)
  <2>1. t.launched \ s.launched \subseteq {i} BY <1>14
  <2>2. r.kind = "resume" => r.fresh /\ r.got = "listed" /\ (r.live # 0 => t.host[f].live = r.named)
    BY <1>6, <1>14, <1>16 DEF Cleared
  <2> QED BY <2>1, <2>2 DEF LaunchSound
<1>17. ~(r.live # 0 /\ r.live # h.live) => Runs(s, t, W, cl) BY <1>13, <1>15, <1>16 DEF Runs
<1>18. Submit(s, i) = IF ~h.ready THEN Acked(s, i, "not-ready")
                      ELSE IF r.live # 0 /\ r.live # h.live THEN Acked(s, i, "invalidated")
                      ELSE IF h.turn THEN Acked(s, i, "busy") ELSE t
  BY <1>4 DEF Submit, t
<1> QED BY <1>2, <1>3, <1>17, <1>18

\* A request in a session has its evidence.
LEMMA InSession ==
  ASSUME NEW W, NEW cl, NEW s, Sound(s, W, cl), NEW i \in DOMAIN s.task,
         s.task[i].at \in {"creating", "session", "starting"}
  PROVE  i[1] = "write" /\ s.task[i].file \in Roots /\ Cleared(s.task[i])
<1>1. EvidenceOf(s, i) BY DEF Sound, EvidenceSound
<1> QED BY <1>1, TaskFacts DEF EvidenceOf, Cleared

LEMMA SendRuns ==
  ASSUME NEW W, NEW cl, NEW s, Well(s, W, cl, {}), NEW i \in DOMAIN s.task, s.task[i].at = "session"
  PROVE  Runs(s, Send(s, i), W, cl)
<1> DEFINE r == s.task[i]
           f == r.file
           h == s.host[f]
           gen == h.last + 1
           u == [h EXCEPT !.live = gen, !.last = gen, !.ready = FALSE]
           v == [r EXCEPT !.at = "starting", !.gen = gen]
           n == [s EXCEPT !.host[f] = u]
           t == [n EXCEPT !.task[i] = v]
<1>1. Sound(s, W, cl) /\ s \in Servers BY DEF Well, Sound
<1>2. r \in Tasks /\ TaskSound(W, i, r) BY <1>1, TasksAre DEF Sound, TasksSound
<1>3. i[1] = "write" /\ f \in Roots /\ Cleared(r) BY <1>1, InSession
<1>4. h \in Hosts /\ gen \in Nat
  <2>1. h \in Hosts BY <1>1, <1>3 DEF Servers
  <2>2. h.last \in Nat BY <2>1 DEF Hosts
  <2> QED BY <2>1, <2>2
<1>5. Send(s, i) = IF h.live # 0 THEN Submit(s, i)
                   ELSE IF h.last = MaxGen THEN Acked(s, i, "not-ready") ELSE t
  <2>1. [At(s, i, "starting") EXCEPT !.task[i].gen = h.last + 1,
             !.host[f] = [@ EXCEPT !.live = h.last + 1, !.last = h.last + 1, !.ready = FALSE]] = t
    BY <1>1 DEF At, Servers
  <2> QED BY <2>1 DEF Send
<1> HIDE DEF gen
<1>6. u \in Hosts /\ u.sess = h.sess BY <1>4 DEF Hosts
<1>7. v \in Tasks /\ Same(v, r) /\ v.at = "starting" /\ Cleared(v)
  BY <1>2, <1>3, <1>4 DEF Tasks, Stages, Same, Cleared
<1> HIDE DEF u, v
<1>8. Runs(s, Submit(s, i), W, cl) BY <1>3, SubmitRuns
<1>9. Runs(s, Acked(s, i, "not-ready"), W, cl) BY <1>3, AckedGoes, GoesRuns DEF Outcomes
<1>10. Goes(s, n, W, cl) /\ Kept(s, n, {"host"}) BY <1>3, <1>6, HostGoes
<1> HIDE DEF n
<1>11. n.task = s.task /\ Well(n, W, cl, {}) /\ n \in Servers
  BY <1>10 DEF Goes, Well, Sound, Kept, ServerFields
<1>12. TaskSound(W, i, v)
  <2>1. r.kind \in PageWishes BY <1>1, <1>3, TaskFacts
  <2>2. "starting" \in StageOf(r.kind) BY <2>1 DEF StageOf, PageWishes
  <2> QED BY <1>2, <1>3, <1>7, <2>2 DEF TaskSound, Same
<1>13. t.task[i] = v BY <1>7, <1>11, TaskIs
<1> HIDE DEF t
<1>14. EvidenceOf(t, i) BY <1>7, <1>13 DEF EvidenceOf, Cleared
<1> USE DEF t
<1>15. v.at \notin {"queued", "running", "reading", "creating"} BY <1>7
<1>16. i \in DOMAIN n.task /\ Same(v, n.task[i]) /\ n.task[i].at \notin {"queued", "running"}
  BY <1>7, <1>11
<1>17. Goes(n, t, W, cl) BY <1>7, <1>11, <1>12, <1>14, <1>15, <1>16, RetaskGoes
<1> HIDE DEF t
<1>18. Goes(s, t, W, cl) BY <1>10, <1>11, <1>17, GoesOn
<1>19. Runs(s, t, W, cl) BY <1>18, GoesRuns
<1> QED BY <1>5, <1>8, <1>9, <1>19

LEMMA StartedRuns ==
  ASSUME NEW W, NEW cl, NEW s, Well(s, W, cl, {}), NEW i \in DOMAIN s.task, s.task[i].at = "starting"
  PROVE  Runs(s, Started(s, i), W, cl)
<1>1. i[1] = "write" /\ s.task[i].file \in Roots /\ Cleared(s.task[i]) BY InSession DEF Well
<1>2. Runs(s, Submit(s, i), W, cl) BY <1>1, SubmitRuns
<1>3. Runs(s, Acked(s, i, "not-ready"), W, cl) BY <1>1, AckedGoes, GoesRuns DEF Outcomes
<1> QED BY <1>2, <1>3 DEF Started

LEMMA StopGoes ==
  ASSUME NEW W, NEW cl, NEW s, Well(s, W, cl, {}), NEW i \in DOMAIN s.task, s.task[i].at = "session",
         NEW confirmed \in BOOLEAN
  PROVE  Goes(s, Stop(s, i, confirmed), W, cl)
<1> DEFINE f == s.task[i].file
           n == ProcessGone(s, f)
           t == Acked(n, i, "confirmed")
<1>1. i[1] = "write" /\ f \in Roots BY InSession DEF Well
<1>2. {"no-process", "confirmed", "deadline-exceeded"} \subseteq Outcomes BY DEF Outcomes
<1>3. Goes(s, n, W, cl) /\ Kept(s, n, {"host"}) BY <1>1, ProcessGoneGoes
<1>4. Stop(s, i, confirmed) = IF s.host[f].live = 0 THEN Acked(s, i, "no-process")
                              ELSE IF confirmed THEN t ELSE Acked(s, i, "deadline-exceeded")
  BY DEF Stop
<1> HIDE DEF n
<1>5. i \in DOMAIN n.task /\ Well(n, W, cl, {}) BY <1>3 DEF Goes, Kept, ServerFields
<1>6. Goes(n, t, W, cl) BY <1>1, <1>2, <1>5, AckedGoes
<1> HIDE DEF t
<1>7. Goes(s, t, W, cl) BY <1>3, <1>5, <1>6, GoesOn
<1>8. Goes(s, Acked(s, i, "no-process"), W, cl) /\ Goes(s, Acked(s, i, "deadline-exceeded"), W, cl)
  BY <1>1, <1>2, AckedGoes
<1> QED BY <1>4, <1>7, <1>8

\* The creation of a session ends, for everyone who waited for it.
LEMMA CreationEndsGoes ==
  ASSUME NEW W, NEW cl, NEW s, Well(s, W, cl, {}), NEW f \in Roots, NEW ok \in BOOLEAN
  PROVE  Goes(s, CreationEnds(s, f, ok), W, cl)
<1> DEFINE at == IF ok THEN "session" ELSE "failed"
           sess == IF ok THEN "ready" ELSE "none"
           u == [s.host[f] EXCEPT !.sess = sess]
           n == [s EXCEPT !.host[f] = u]
           tasks == [i \in DOMAIN s.task |->
                       IF i \in Awaiting(s, f) THEN [s.task[i] EXCEPT !.at = at] ELSE s.task[i]]
           t == [n EXCEPT !.task = tasks]
<1>1. Sound(s, W, cl) /\ GateSound(s, {}) /\ s \in Servers BY DEF Well, Sound
<1>2. CreationEnds(s, f, ok) = t
  BY <1>1 DEF CreationEnds, Servers
<1>3. s.host[f] \in Hosts BY <1>1 DEF Servers
<1>4. u \in Hosts BY <1>3 DEF Hosts
<1> HIDE DEF u
<1>5. n \in Servers /\ Kept(s, n, {"host"}) /\ \A k \in Roots : n.host[k] = IF k = f THEN u ELSE s.host[k]
  BY <1>1, <1>4, HostIs
<1> HIDE DEF n
<1>6. at \in {"session", "failed"} OBVIOUS
<1> HIDE DEF at
<1>7. \A i \in DOMAIN s.task : [s.task[i] EXCEPT !.at = at] \in Tasks
  <2> TAKE i \in DOMAIN s.task
  <2>1. s.task[i] \in Tasks BY <1>1, TasksAre
  <2> QED BY <1>6, <2>1 DEF Tasks, Stages
<1>8. tasks \in Tables(AllIds, Tasks) /\ DOMAIN tasks = DOMAIN s.task
  <2>1. s.task \in Tables(AllIds, Tasks) BY <1>1 DEF Servers
  <2>2. DOMAIN s.task \subseteq AllIds /\ s.task \in [DOMAIN s.task -> Tasks] BY <2>1, TableIs
  <2>3. tasks \in [DOMAIN s.task -> Tasks] BY <1>7, <2>2
  <2> HIDE DEF tasks
  <2>4. DOMAIN tasks = DOMAIN s.task BY <2>3
  <2> QED BY <2>2, <2>3, <2>4, TableIs
<1>9. \A i \in DOMAIN s.task :
        \/ s.task[i].at = "creating" /\ s.task[i].file = f /\ tasks[i] = [s.task[i] EXCEPT !.at = at]
        \/ ~(s.task[i].at = "creating" /\ s.task[i].file = f) /\ tasks[i] = s.task[i]
  BY DEF Awaiting
<1> HIDE DEF tasks
<1>10. t \in Servers /\ Kept(n, t, {"task"}) /\ t.task = tasks
  BY <1>5, <1>8 DEF Servers, Kept, ServerFields
<1> HIDE DEF t
<1>11. /\ t.conn = s.conn /\ t.gate = s.gate /\ t.read = s.read /\ t.host = n.host
       /\ t.versions = s.versions /\ t.disposed = s.disposed /\ t.tokens = s.tokens
       /\ t.launched = s.launched
  BY <1>5, <1>10 DEF Kept, ServerFields
<1>12. \A i \in DOMAIN s.task :
         \/ /\ s.task[i].at = "creating" /\ s.task[i].file = f /\ t.task[i].at = at
            /\ Same(t.task[i], s.task[i])
            /\ t.task[i].fresh = s.task[i].fresh /\ t.task[i].got = s.task[i].got
            /\ t.task[i].live = s.task[i].live /\ t.task[i].round = s.task[i].round
         \/ ~(s.task[i].at = "creating" /\ s.task[i].file = f) /\ t.task[i] = s.task[i]
  <2> TAKE i \in DOMAIN s.task
  <2>1. s.task[i] \in Tasks BY <1>1, TasksAre
  <2> QED BY <1>9, <1>10, <2>1 DEF Tasks, Same
<1>13. DOMAIN t.task = DOMAIN s.task BY <1>8, <1>10
<1>14. \A i \in DOMAIN s.task : t.task[i].by = s.task[i].by BY <1>12 DEF Same
<1>15. TasksSound(t, W)
  <2> SUFFICES ASSUME NEW i \in DOMAIN s.task PROVE TaskSound(W, i, t.task[i])
    BY <1>13 DEF TasksSound
  <2>1. TaskSound(W, i, s.task[i]) BY <1>1 DEF Sound, TasksSound
  <2>2. CASE s.task[i].at = "creating" /\ s.task[i].file = f
    <3>1. s.task[i].kind \in PageWishes BY <1>1, <2>2, TaskFacts
    <3>2. at \in StageOf(s.task[i].kind) BY <1>6, <3>1 DEF StageOf, PageWishes
    <3> QED BY <1>6, <1>12, <2>1, <2>2, <3>2 DEF TaskSound, Same
  <2> QED BY <1>12, <2>1, <2>2
<1>16. WiresSound(t, W) BY <1>1, <1>11 DEF Sound, WiresSound
<1>17. EvidenceSound(t)
  <2> SUFFICES ASSUME NEW i \in DOMAIN s.task PROVE EvidenceOf(t, i)
    BY <1>13 DEF EvidenceSound
  <2>1. EvidenceOf(s, i) BY <1>1 DEF Sound, EvidenceSound
  <2>2. CASE s.task[i].at = "creating" /\ s.task[i].file = f
    <3>1. t.task[i].at \notin {"read", "reading"} BY <1>6, <1>12, <2>2
    <3> QED BY <1>12, <2>1, <2>2, <3>1 DEF EvidenceOf, Same
  <2>3. CASE ~(s.task[i].at = "creating" /\ s.task[i].file = f)
    <3>1. t.task[i] = s.task[i] BY <1>12, <2>3
    <3> QED BY <1>11, <2>1, <3>1 DEF EvidenceOf
  <2> QED BY <2>2, <2>3
<1>18. PagesSound(t, cl)
  <2>1. PagesSound(s, cl) BY <1>1 DEF Sound
  <2>2. \A i \in DOMAIN s.task : t.task[i].named = s.task[i].named BY <1>12 DEF Same
  <2> QED BY <1>11, <1>13, <1>14, <2>1, <2>2 DEF PagesSound
<1>19. Slotted(t)
  <2> SUFFICES ASSUME NEW c \in Conns
               PROVE  t.conn[c].inflight = {i \in DOMAIN t.task : t.task[i].by = c}
    BY DEF Slotted
  <2>1. s.conn[c].inflight = {i \in DOMAIN s.task : s.task[i].by = c} BY <1>1 DEF Sound, Slotted
  <2>2. {i \in DOMAIN t.task : t.task[i].by = c} = {i \in DOMAIN s.task : s.task[i].by = c}
    BY <1>13, <1>14
  <2> QED BY <1>11, <2>1, <2>2
<1>20. Awaited(t)
  <2> SUFFICES ASSUME NEW i \in DOMAIN s.task
               PROVE  /\ t.task[i].at = "reading" => t.task[i].file \in DOMAIN t.read
                      /\ t.task[i].at = "creating" => t.host[t.task[i].file].sess = "creating"
    BY <1>13 DEF Awaited
  <2>1. /\ s.task[i].at = "reading" => s.task[i].file \in DOMAIN s.read
        /\ s.task[i].at = "creating" => s.host[s.task[i].file].sess = "creating"
    BY <1>1 DEF Sound, Awaited
  <2>2. CASE s.task[i].at = "creating" /\ s.task[i].file = f
    BY <1>6, <1>12, <2>2
  <2>3. CASE ~(s.task[i].at = "creating" /\ s.task[i].file = f)
    <3>1. t.task[i] = s.task[i] BY <1>12, <2>3
    <3>2. s.task[i].at = "creating" => s.task[i].file \in Roots /\ s.task[i].file # f
      BY <1>1, <2>3, TaskFacts
    <3> QED BY <1>5, <1>11, <2>1, <3>1, <3>2
  <2> QED BY <2>2, <2>3
<1>21. TokensHold(t) /\ ShutWhenDisposed(t) BY <1>1, <1>11 DEF Sound, TokensHold, ShutWhenDisposed
<1>22. Sound(t, W, cl)
  BY <1>1, <1>10, <1>15, <1>16, <1>17, <1>18, <1>19, <1>20, <1>21 DEF Sound
<1>23. Longer(s.versions, t.versions)
  <2>1. Len(s.versions) \in Nat BY <1>1 DEF Servers
  <2> QED BY <1>11, <2>1 DEF Longer
<1>24. Serves(s, t, Heard)
  <2>1. Heard \subseteq Conns BY HostAssumption DEF Heard
  <2> QED BY <1>11, <1>13, <1>14, <1>23, <2>1 DEF Serves, Ended, Pledged
<1>25. GateSound(t, {})
  <2>1. \A i \in DOMAIN s.task : t.task[i].at = s.task[i].at
                                 \/ (s.task[i].at = "creating" /\ t.task[i].at \in {"session", "failed"})
    BY <1>6, <1>12
  <2>2. /\ {j \in DOMAIN t.task : t.task[j].at = "queued"} = {j \in DOMAIN s.task : s.task[j].at = "queued"}
        /\ {j \in DOMAIN t.task : t.task[j].at = "running"} = {j \in DOMAIN s.task : s.task[j].at = "running"}
    BY <1>13, <2>1
  <2>3. QueuedSlots(t) = QueuedSlots(s) /\ BusySlots(t) = BusySlots(s)
    BY <1>11, <2>2 DEF QueuedSlots, BusySlots
  <2> QED BY <1>1, <1>11, <2>3 DEF GateSound, Room
<1>26. Goes(s, t, W, cl) BY <1>11, <1>22, <1>24, <1>25 DEF Goes, Well
<1> QED BY <1>2, <1>26

\* A request that joined a read goes on.
LEMMA ResumeGoes ==
  ASSUME NEW W, NEW cl, NEW s, Well(s, W, cl, {}), NEW i \in DOMAIN s.task, s.task[i].at = "read"
  PROVE  Goes(s, Resume(s, i), W, cl)
<1> DEFINE r == s.task[i]
           f == r.file
           live == s.host[f].live
           v == Verdict(r, live)
           again == [s EXCEPT !.task[i].round = 2]
           w == [r EXCEPT !.live = live]
           m == [s EXCEPT !.task[i] = w]
           fail == Failed(s, i, IF r.got = "busy" THEN 4409 ELSE 4402)
<1>1. Sound(s, W, cl) /\ s \in Servers BY DEF Well, Sound
<1>2. r \in Tasks /\ TaskSound(W, i, r) /\ EvidenceOf(s, i)
  BY <1>1, TasksAre DEF Sound, TasksSound, EvidenceSound
<1>3. r.kind = "resume" /\ i[1] = "write" /\ f \in Roots /\ r.kind \in PageWishes
  BY <1>1, TaskFacts DEF PageWishes
<1>4. s.host[f] \in Hosts BY <1>1, <1>3 DEF Servers
<1>5. live \in Nat BY <1>4 DEF Hosts
<1>6. r.at \notin {"queued", "running"} /\ r.at \in {"new", "read"} OBVIOUS
<1>7. Resume(s, i) = IF r.got \in {"busy", "threw"} THEN fail
                     ELSE IF v # "pass" THEN Acked(s, i, v)
                     ELSE IF r.round = 1 THEN ReadOnce(again, i)
                     ELSE SessionOf(m, i)
  <2>1. [s EXCEPT !.task[i].live = live] = m OBVIOUS
  <2> QED BY <2>1 DEF Resume
<1>8. Goes(s, fail, W, cl)
  <2>1. (IF r.got = "busy" THEN 4409 ELSE 4402) \in Nat OBVIOUS
  <2> QED BY <1>6, <2>1, FailedGoes
<1>9. Goes(s, Acked(s, i, v), W, cl) \/ v = "pass"
  <2>1. v \in {"identity-rejected", "execution-failed", "generation-mismatch", "pass"} BY DEF Verdict
  <2>2. v = "pass" \/ v \in Outcomes BY <2>1 DEF Outcomes
  <2> HIDE DEF v
  <2> QED BY <1>3, <2>2, AckedGoes
<1>10. Goes(s, ReadOnce(again, i), W, cl)
  <2> DEFINE x == [r EXCEPT !.at = "reading", !.round = 2]
  <2>1. /\ x \in Tasks /\ Same(x, r) /\ x.at = "reading" /\ x.file = f /\ x.by = r.by
    BY <1>2 DEF Tasks, Stages, Same
  <2>2. At(again, i, "reading") = [s EXCEPT !.task[i] = x] BY <1>1 DEF At, Servers
  <2>3. again.read = s.read /\ again.conn = s.conn BY <1>1 DEF Servers
  <2>4. again.task[i].file = x.file /\ again.task[i].by = x.by
    BY <1>1, <1>2 DEF Servers, Tasks
  <2> HIDE DEF x, again
  <2> QED BY <1>3, <1>6, <2>1, <2>2, <2>3, <2>4, ReadOnceGoes
<1>11. ASSUME r.got \notin {"busy", "threw"}, v = "pass", r.round # 1 PROVE Goes(s, SessionOf(m, i), W, cl)
  <2>1. /\ w \in Tasks /\ Same(w, r) /\ w.at = "read" /\ w.live = live /\ w.got = r.got
        /\ w.fresh = r.fresh /\ w.round = r.round
    BY <1>2, <1>5 DEF Tasks, Same
  <2>2. r.round = 2 /\ r.got \in Results BY <1>2, <1>11 DEF Tasks
  <2>3. r.got # "refused" /\ r.got # "nopayload" /\ ~(live # 0 /\ live # r.named)
    BY <1>11, <2>2 DEF Verdict
  <2>4. r.got # "none" /\ (r.got \in Evidence => r.fresh) BY <1>2, <1>3, <2>2 DEF EvidenceOf
  <2>5. r.got = "listed" /\ r.fresh BY <1>11, <2>2, <2>3, <2>4 DEF Results, Evidence
  <2>6. Cleared(w) BY <2>1, <2>3, <2>5 DEF Cleared, Same
  <2> HIDE DEF w
  <2>7. TaskSound(W, i, w) BY <1>2, <2>1 DEF TaskSound, Same
  <2>8. m.task[i] = w /\ m.read = s.read BY <1>1, <2>1, TaskIs DEF Kept, ServerFields
  <2> HIDE DEF m
  <2>9. EvidenceOf(m, i) BY <1>2, <2>1, <2>8 DEF EvidenceOf, Same
  <2> USE DEF m
  <2>10. w.at \notin {"queued", "running", "reading", "creating"} BY <2>1
  <2>11. Goes(s, m, W, cl) BY <1>6, <2>1, <2>7, <2>9, <2>10, RetaskGoes
  <2>12. m.task[i] = w /\ DOMAIN m.task = DOMAIN s.task BY <1>1, <2>1, TaskIs
  <2> HIDE DEF m
  <2>13. /\ Well(m, W, cl, {}) /\ i \in DOMAIN m.task /\ m.task[i].kind \in PageWishes
         /\ m.task[i].file \in Roots /\ m.task[i].at \notin {"queued", "running"} /\ Cleared(m.task[i])
    BY <1>3, <2>1, <2>6, <2>11, <2>12 DEF Goes, Same
  <2>14. Goes(m, SessionOf(m, i), W, cl) BY <2>13, SessionOfGoes
  <2> QED BY <2>11, <2>13, <2>14, GoesOn
<1> HIDE DEF v, m, again, fail
<1> QED BY <1>7, <1>8, <1>9, <1>10, <1>11

LEMMA FinishReadGoes ==
  ASSUME NEW W, NEW cl, NEW s, Well(s, W, cl, {}),
         NEW f \in DOMAIN s.read, s.read[f].at = "reading", NEW res \in Evidence \cup {"threw"}
  PROVE  Goes(s, FinishRead(s, f, res), W, cl)
<1> DEFINE t == FinishRead(s, f, res)
<1>1. res \in Results \ {"none"} BY DEF Results, Evidence
<1>2. Well(t, W, cl, {}) /\ Serves(s, t, Heard) /\ Kept(s, t, {"task", "read", "gate"})
  BY <1>1, FinishReadKeeps
<1> HIDE DEF t
<1>3. Goes(s, t, W, cl) BY <1>2 DEF Goes, Kept, ServerFields
<1> QED BY <1>3 DEF t

\* handleGetModels()
LEMMA ModelsGoes ==
  ASSUME NEW W, NEW cl, NEW s, Well(s, W, cl, {}), NEW i \in DOMAIN s.task, s.task[i].at = "asking"
  PROVE  /\ \A res \in {"ok", "failed"} : Goes(s, Forget(Told(s, i, "models-list", 0, res), i), W, cl)
         /\ LET m == [id |-> i, kind |-> "models", file |-> "none"]
            IN Goes(s, Forget(StrikeMessage(s, s.task[i].by, m), i), W, cl)
<1>1. i[1] = "models" /\ s.task[i].kind = "models" /\ s.task[i].file = "none"
  <2>1. i[1] = "models" BY TaskFacts DEF Well
  <2> QED BY <2>1, TaskFacts DEF Well
<1>2. MayTell("models-list", i) /\ 0 \in Nat /\ {"ok", "failed"} \subseteq Outcomes
  BY <1>1 DEF MayTell, Outcomes
<1>3. \A res \in {"ok", "failed"} : Goes(s, Forget(Told(s, i, "models-list", 0, res), i), W, cl)
  BY <1>2, AnswerGoes
<1> DEFINE m == [id |-> i, kind |-> "models", file |-> "none"]
<1>4. StrikeMessage(s, s.task[i].by, m) = Strike(s, s.task[i].by, i, s.task[i].kind, s.task[i].file)
  BY <1>1 DEF StrikeMessage
<1>5. Goes(s, Forget(StrikeMessage(s, s.task[i].by, m), i), W, cl) BY <1>4, RefusedGoes
<1> QED BY <1>3, <1>5

-------------------------------------------------------------------------------
(* What closes many connections at once *)

\* s with its tokens and its end set.
Put(s, d, k) == [s EXCEPT !.disposed = d, !.tokens = k]

LEMMA PutIs ==
  ASSUME NEW s \in Servers, NEW d \in BOOLEAN, NEW k \in SUBSET Tokens
  PROVE  LET t == Put(s, d, k)
         IN t \in Servers /\ Kept(s, t, {"disposed", "tokens"}) /\ t.disposed = d /\ t.tokens = k
  BY DEF Put, Servers, Kept, ServerFields

LEMMA WithdrawPut ==
  ASSUME NEW s \in Servers, NEW H, NEW d, NEW k
  PROVE  Withdraw(Put(s, d, k), H) = Put(Withdraw(s, H), d, k)
<1> DEFINE w == Without(s.gate.waiting, H)
<1>1. Put(s, d, k).gate = s.gate BY DEF Put, Servers
<1>2. Withdraw(s, H) = [s EXCEPT !.gate.waiting = w] BY DEF Withdraw
<1>3. Withdraw(Put(s, d, k), H) = [Put(s, d, k) EXCEPT !.gate.waiting = w] BY <1>1 DEF Withdraw
<1> HIDE DEF w
<1> QED BY <1>2, <1>3 DEF Put, Servers

LEMMA EndReadsPut ==
  ASSUME NEW s \in Servers, NEW F, NEW res, NEW d, NEW k
  PROVE  EndReads(Put(s, d, k), F, res) = Put(EndReads(s, F, res), d, k)
<1> DEFINE goes(j) == [s.task[j] EXCEPT !.at = "read", !.got = res,
                                        !.fresh = j \in s.read[s.task[j].file].knows]
           tasks == [j \in DOMAIN s.task |->
                       IF s.task[j].at = "reading" /\ s.task[j].file \in F THEN goes(j)
                       ELSE s.task[j]]
           reads == Restrict(s.read, DOMAIN s.read \ F)
<1>1. Put(s, d, k).task = s.task /\ Put(s, d, k).read = s.read BY DEF Put, Servers
<1>2. EndReads(s, F, res) = [s EXCEPT !.task = tasks, !.read = reads] BY DEF EndReads, Joined
<1>3. EndReads(Put(s, d, k), F, res) = [Put(s, d, k) EXCEPT !.task = tasks, !.read = reads]
  BY <1>1 DEF EndReads, Joined
<1> HIDE DEF tasks, reads
<1> QED BY <1>2, <1>3 DEF Put, Servers

\* What is left when the connections of C are closed, before anybody's wait is given up.
Leaving(s, C, last) ==
  [s EXCEPT !.task = Restrict(s.task, DOMAIN s.task \ ListsOf(s, C)),
            !.conn = [c \in Conns |->
               IF c \in Closing(s, C)
               THEN [s.conn[c] EXCEPT !.open = FALSE, !.inflight = @ \ ListsOf(s, C),
                                      !.wire = IF c \in Heard THEN @ \o last ELSE @]
               ELSE s.conn[c]]]
GivenUp(s, L, F) ==
  EndReads(Withdraw(Withdraw(s, {ListSlot(i) : i \in L}), {ReadSlot(f) : f \in F}), F, "busy")

LEMMA LeavingIs ==
  ASSUME NEW s, NEW C, NEW last
  PROVE  CloseConns(s, C, last) = GivenUp(Leaving(s, C, last), ListsOf(s, C), FilesOf(s, C))
  BY DEF CloseConns, Closing, ListsOf, FilesOf, DropReads, Leaving, GivenUp

LEMMA GivenUpPut ==
  ASSUME NEW s \in Servers, NEW L, NEW F, NEW d, NEW k
  PROVE  GivenUp(Put(s, d, k), L, F) = Put(GivenUp(s, L, F), d, k)
<1> DEFINE H == {ListSlot(i) : i \in L}
           R == {ReadSlot(f) : f \in F}
<1>1. /\ GivenUp(s, L, F) = EndReads(Withdraw(Withdraw(s, H), R), F, "busy")
      /\ GivenUp(Put(s, d, k), L, F) = EndReads(Withdraw(Withdraw(Put(s, d, k), H), R), F, "busy")
  BY DEF GivenUp
<1> HIDE DEF H, R
<1>2. Withdraw(s, H) \in Servers BY WithdrawIs
<1>3. Withdraw(Withdraw(s, H), R) \in Servers BY <1>2, WithdrawIs
<1>4. Withdraw(Put(s, d, k), H) = Put(Withdraw(s, H), d, k) BY WithdrawPut
<1>5. Withdraw(Withdraw(Put(s, d, k), H), R) = Put(Withdraw(Withdraw(s, H), R), d, k)
  BY <1>2, <1>4, WithdrawPut
<1>6. EndReads(Put(Withdraw(Withdraw(s, H), R), d, k), F, "busy")
        = Put(EndReads(Withdraw(Withdraw(s, H), R), F, "busy"), d, k)
  BY <1>3, EndReadsPut
<1> QED BY <1>1, <1>5, <1>6

LEMMA ClosePut ==
  ASSUME NEW s \in Servers, NEW C \in SUBSET Conns, NEW last \in Seq(Frames),
         NEW d \in BOOLEAN, NEW k \in SUBSET Tokens
  PROVE  CloseConns(Put(s, d, k), C, last) = Put(CloseConns(s, C, last), d, k)
<1> DEFINE p     == Put(s, d, k)
           lists == ListsOf(s, C)
           files == FilesOf(s, C)
           side(c) == [s.conn[c] EXCEPT !.open = FALSE, !.inflight = @ \ lists,
                                        !.wire = IF c \in Heard THEN @ \o last ELSE @]
           conns == [c \in Conns |-> IF c \in Closing(s, C) THEN side(c) ELSE s.conn[c]]
           tasks == Restrict(s.task, DOMAIN s.task \ lists)
           left  == [s EXCEPT !.task = tasks, !.conn = conns]
           pleft == [p EXCEPT !.task = tasks, !.conn = conns]
<1>1. p.task = s.task /\ p.conn = s.conn /\ p.read = s.read BY DEF Put, Servers
<1>2. CloseConns(s, C, last) = GivenUp(left, lists, files)
  BY LeavingIs DEF Leaving
<1>3. ListsOf(p, C) = lists /\ FilesOf(p, C) = files /\ Closing(p, C) = Closing(s, C)
  BY <1>1 DEF Closing, ListsOf, FilesOf, QueuedList
<1>4. CloseConns(p, C, last) = GivenUp(pleft, lists, files)
  <2>1. CloseConns(p, C, last) = GivenUp(Leaving(p, C, last), ListsOf(p, C), FilesOf(p, C))
    BY LeavingIs
  <2>2. Leaving(p, C, last) = pleft
    <3> HIDE DEF p, lists
    <3> QED BY <1>1, <1>3 DEF Leaving
  <2> QED BY <1>3, <2>1, <2>2
<1>5. \A c \in Conns : s.conn[c] \in Sides BY DEF Servers
<1>6. \A c \in Conns : side(c) \in Sides
  <2> TAKE c \in Conns
  <2>1. s.conn[c] \in Sides BY <1>5
  <2> DEFINE w == IF c \in Heard THEN s.conn[c].wire \o last ELSE s.conn[c].wire
  <2>2. w \in Seq(Frames) BY <2>1 DEF Sides
  <2> HIDE DEF w
  <2>3. [s.conn[c] EXCEPT !.open = FALSE, !.inflight = @ \ lists, !.wire = w] \in Sides
    BY <2>1, <2>2 DEF Sides
  <2> QED BY <2>3 DEF w
<1>7. conns \in [Conns -> Sides] BY <1>5, <1>6
<1>8. tasks \in Tables(AllIds, Tasks)
  <2>1. s.task \in Tables(AllIds, Tasks) BY DEF Servers
  <2> QED BY <2>1, TableWithout
<1> HIDE DEF conns, tasks, lists, files
<1>9. left \in Servers BY <1>7, <1>8 DEF Servers
<1>10. pleft = Put(left, d, k) BY DEF Put, Servers
<1> HIDE DEF left, pleft, p
<1>11. GivenUp(pleft, lists, files) = Put(GivenUp(left, lists, files), d, k)
  BY <1>9, <1>10, GivenUpPut
<1> QED BY <1>2, <1>4, <1>11 DEF p

\* Connections close while what the server may serve changes.
LEMMA ClosePutGoes ==
  ASSUME NEW W, NEW cl, NEW s, Well(s, W, cl, {}),
         NEW C \in SUBSET Conns, NEW last, Farewell(last), Final(last),
         NEW d \in BOOLEAN, NEW k \in SUBSET Tokens,
         d => s.disposed \/ C = Conns,
         \A c \in Conns : s.conn[c].open /\ s.conn[c].authed => c \in C \/ TokenOf[c] \in k
  PROVE  Goes(s, CloseConns(Put(s, d, k), C, last), W, cl)
<1> DEFINE u == CloseConns(s, C, last)
           t == Put(u, d, k)
<1>1. Sound(s, W, cl) /\ s \in Servers /\ last \in Seq(Frames) BY DEF Well, Sound, Farewell
<1>2. CloseConns(Put(s, d, k), C, last) = t BY <1>1, ClosePut
<1>3. Well(u, W, cl, {}) /\ Serves(s, u, Heard) /\ Closes(s, u, C) BY CloseConnsKeeps
<1> HIDE DEF u
<1>4. Sound(u, W, cl) /\ GateSound(u, {}) /\ u \in Servers BY <1>3 DEF Well, Sound
<1>5. t \in Servers /\ Kept(u, t, {"disposed", "tokens"}) /\ t.disposed = d /\ t.tokens = k
  BY <1>4, PutIs
<1> HIDE DEF t
<1>6. /\ t.conn = u.conn /\ t.task = u.task /\ t.read = u.read /\ t.host = u.host
      /\ t.gate = u.gate /\ t.versions = u.versions /\ t.launched = u.launched
  BY <1>5 DEF Kept, ServerFields
<1>7. TasksSound(t, W) /\ WiresSound(t, W) BY <1>4, <1>6 DEF Sound, TasksSound, WiresSound
<1>8. EvidenceSound(t) BY <1>4, <1>6 DEF Sound, EvidenceSound, EvidenceOf
<1>9. PagesSound(t, cl) BY <1>4, <1>6 DEF Sound, PagesSound
<1>10. Slotted(t) /\ Awaited(t) BY <1>4, <1>6 DEF Sound, Slotted, Awaited
<1>11. TokensHold(t) BY <1>3, <1>5, <1>6 DEF TokensHold, Closes
<1>12. ShutWhenDisposed(t)
  <2>1. s.disposed => \A c \in Conns : ~s.conn[c].open BY <1>1 DEF Sound, ShutWhenDisposed
  <2> QED BY <1>3, <1>5, <1>6, <2>1 DEF ShutWhenDisposed, Closes
<1>13. Sound(t, W, cl)
  BY <1>4, <1>5, <1>7, <1>8, <1>9, <1>10, <1>11, <1>12 DEF Sound
<1>14. GateSound(t, {}) BY <1>4, <1>6, GateKept
<1>15. Longer(u.versions, t.versions)
  <2>1. Len(u.versions) \in Nat BY <1>4 DEF Servers
  <2> QED BY <1>6, <2>1 DEF Longer
<1>16. Serves(u, t, Heard)
  <2>1. Heard \subseteq Conns BY HostAssumption DEF Heard
  <2> QED BY <1>6, <1>15, <2>1 DEF Serves, Ended, Pledged
<1>17. Serves(s, t, Heard) BY <1>1, <1>3, <1>4, <1>5, <1>16, ServesOn
<1>18. t.launched = s.launched BY <1>3, <1>6 DEF Closes, Kept, ServerFields
<1>19. Goes(s, t, W, cl) BY <1>13, <1>14, <1>17, <1>18 DEF Goes, Well
<1> QED BY <1>2, <1>19

LEMMA ReloadedGoes ==
  ASSUME NEW W, NEW cl, NEW s, Well(s, W, cl, {}), NEW listed \in SUBSET Tokens
  PROVE  Goes(s, Reloaded(s, listed), W, cl)
<1> DEFINE out == {c \in Conns : s.conn[c].open /\ s.conn[c].authed /\ TokenOf[c] \in s.tokens \ listed}
<1>1. Sound(s, W, cl) /\ s \in Servers BY DEF Well, Sound
<1>2. [s EXCEPT !.tokens = listed] = Put(s, s.disposed, listed) BY <1>1 DEF Put, Servers
<1>3. Reloaded(s, listed) = CloseConns(Put(s, s.disposed, listed), out, Expelled)
  BY <1>2 DEF Reloaded
<1>4. s.disposed \in BOOLEAN /\ out \in SUBSET Conns BY <1>1 DEF Servers
<1>5. \A c \in Conns : s.conn[c].open /\ s.conn[c].authed => c \in out \/ TokenOf[c] \in listed
  BY <1>1 DEF Sound, TokensHold
<1>6. Farewell(Expelled) /\ Final(Expelled) BY LastWords DEF Expelled
<1> HIDE DEF out
<1>7. Goes(s, CloseConns(Put(s, s.disposed, listed), out, Expelled), W, cl)
  BY <1>4, <1>5, <1>6, ClosePutGoes
<1> QED BY <1>3, <1>7

LEMMA DisposeGoes ==
  ASSUME NEW W, NEW cl, NEW s, Well(s, W, cl, {})
  PROVE  Goes(s, CloseConns([s EXCEPT !.disposed = TRUE], Conns, << CloseTo(1000) >>), W, cl)
<1>1. Sound(s, W, cl) /\ s \in Servers BY DEF Well, Sound
<1>2. [s EXCEPT !.disposed = TRUE] = Put(s, TRUE, s.tokens) BY <1>1 DEF Put, Servers
<1> DEFINE last == << CloseTo(1000) >>
<1>3. /\ s.tokens \in SUBSET Tokens /\ Conns \in SUBSET Conns /\ TRUE \in BOOLEAN
      /\ \A c \in Conns : s.conn[c].open /\ s.conn[c].authed => c \in Conns \/ TokenOf[c] \in s.tokens
  BY <1>1 DEF Servers
<1>4. Farewell(last) /\ Final(last) BY LastWord
<1> HIDE DEF last
<1>5. Goes(s, CloseConns(Put(s, TRUE, s.tokens), Conns, last), W, cl)
  BY <1>3, <1>4, ClosePutGoes
<1>6. Goes(s, CloseConns([s EXCEPT !.disposed = TRUE], Conns, last), W, cl) BY <1>2, <1>5
<1> QED BY <1>6 DEF last

\* What the world changes beneath the server.
LEMMA WorldGoes ==
  ASSUME NEW W, NEW cl, NEW s, Well(s, W, cl, {})
  PROVE  /\ \A f \in Roots, v \in Evidence : Goes(s, [s EXCEPT !.disk[f] = v], W, cl)
         /\ \A d \in Listings : Goes(s, [s EXCEPT !.dir = d], W, cl)
<1>1. s \in Servers BY DEF Well, Sound
<1>2. ASSUME NEW t \in Servers, Kept(s, t, {"dir", "disk"}) PROVE Goes(s, t, W, cl)
  <2>1. Kept(s, t, {"host", "launched", "dir", "disk"}) /\ t.host = s.host /\ t.launched = s.launched
    BY <1>2 DEF Kept, ServerFields
  <2>2. Well(t, W, cl, {}) /\ Serves(s, t, Heard) BY <2>1, QuietKeeps
  <2> QED BY <2>1, <2>2 DEF Goes
<1>3. ASSUME NEW f \in Roots, NEW v \in Evidence PROVE Goes(s, [s EXCEPT !.disk[f] = v], W, cl)
  <2>1. [s EXCEPT !.disk[f] = v] \in Servers BY <1>1 DEF Servers
  <2>2. Kept(s, [s EXCEPT !.disk[f] = v], {"dir", "disk"}) BY <1>1 DEF Servers, Kept, ServerFields
  <2> QED BY <1>2, <2>1, <2>2
<1>4. ASSUME NEW d \in Listings PROVE Goes(s, [s EXCEPT !.dir = d], W, cl)
  <2>1. [s EXCEPT !.dir = d] \in Servers BY <1>1 DEF Servers
  <2>2. Kept(s, [s EXCEPT !.dir = d], {"dir", "disk"}) BY <1>1 DEF Servers, Kept, ServerFields
  <2> QED BY <1>2, <2>1, <2>2
<1> QED BY <1>3, <1>4

-------------------------------------------------------------------------------
(* The clients, and what is on its way *)

ConnStates == {"connecting", "authenticating", "ready", "closed", "error"}
Entries == [id : AllIds, kind : PageWishes, file : Files]
PageClients ==
  [conn : ConnStates, stopped : BOOLEAN, pending : SUBSET Entries,
   inflight : SUBSET (PageWishes \X Files), resuming : SUBSET Files]
Rows == UNION {ToSet(l) : l \in Listings}
ListerClients ==
  [conn : ConnStates, stopped : BOOLEAN, pending : BOOLEAN, seq : Nat, offset : Nat, gen : Nat,
   asked : Nat, dirty : BOOLEAN, sessions : SUBSET Rows, version : Nat, more : BOOLEAN, next : Nat,
   page : {"idle", "loading", "error"}, models : Outcomes \cup {"idle", "loading"},
   modelsPending : BOOLEAN, roots : {"idle", "loading", "ok", "failed"}, rootsPending : BOOLEAN,
   rootsSeq : Nat]
Mail(W) ==
  [t : {"hello", "bye", "request"}, id : AllIds, kind : Kinds \cup {"none"}, file : FileNames, n : Nat]
    \cup [t : {"raw"}, frame : {W[k].frame : k \in DOMAIN W}]

\* The answer to id comes, or the end, or the request is still under way to the server;
\* q is what c sent and s has not read.
Comes(s, q, c, id) ==
  Pledged(s, c, id) \/ (s.conn[c].open /\ \E k \in DOMAIN q : q[k].id = id)

\* Who listens is connected, or is told of the end.
LinkSound(s, u, q, ln, c) ==
  /\ u.conn = "connecting" => ~s.conn[c].open /\ ~s.conn[c].authed
  /\ ~Deaf(u) /\ u.conn # "connecting" => (c \in ln /\ s.conn[c].open) \/ Ended(s, c)
  /\ \A k \in DOMAIN q : q[k].t = "bye" => Deaf(u) \/ Ended(s, c)

\* A page has its promises and the views of them, each for one kind and file.
PageKept(s, u, q, W, c) ==
  /\ u \in PageClients /\ IsFiniteSet(u.pending)
  /\ \A e \in u.pending : Owns(W, c, e.id) /\ Fits(W, e.id, e.kind, e.file) /\ Comes(s, q, c, e.id)
  /\ \A d, e \in u.pending : d.kind = e.kind /\ d.file = e.file => d = e
  /\ u.conn # "ready" \/ u.stopped => u.pending = {}
  /\ u.inflight = {<< e.kind, e.file >> : e \in {d \in u.pending : d.kind # "resume"}}
  /\ u.resuming = {e.file : e \in {d \in u.pending : d.kind = "resume"}}

\* A list is a beginning of one version, and what is asked for begins where it ends.
Stretch(versions, u) ==
  LET list == versions[u.version]
  IN u.version # 0 => /\ u.version <= Len(versions) /\ u.next <= Len(list)
                      /\ u.sessions = ToSet(SubSeq(list, 1, u.next))
                      /\ u.more = (u.next < Len(list))
ListerKept(s, u, q, c) ==
  /\ u \in ListerClients
  /\ u.conn # "ready" \/ u.stopped => ~u.pending /\ ~u.rootsPending
  /\ u.pending /\ u.offset > 0 => u.offset = u.next
  /\ Stretch(s.versions, u)
  /\ u.pending => Comes(s, q, c, << "list", u.seq >>)
  /\ u.rootsPending => Comes(s, q, c, << "roots", u.rootsSeq >>)

Face(s, u, q, ln, W, c) ==
  /\ LinkSound(s, u, q, ln, c)
  /\ c \in Pages => PageKept(s, u, q, W, c)
  /\ c \in Listers => ListerKept(s, u, q, c)

Posted(W, cl, mail) ==
  /\ mail \in [Conns -> Seq(Mail(W))]
  /\ \A c \in Conns : \A k \in DOMAIN mail[c] : MessageSound(W, cl, c, mail[c][k])

\* The system with server s, clients cl, mail on its way, open sockets ln and wishes W.
Whole(s, cl, mail, ln, W) ==
  /\ Well(s, W, cl, {}) /\ Posted(W, cl, mail)
  /\ \A c \in Heard : Face(s, cl[c], mail[c], ln, W, c)

-------------------------------------------------------------------------------
(* Steps of one side *)

\* c's client goes on in a step that does not touch what its requests say.
Moves(u, v) == (v.seq = u.seq /\ v.offset = u.offset) \/ v.seq > u.seq

LEMMA ClientsMove ==
  ASSUME NEW W, NEW cl, NEW cm, NEW s, Sound(s, W, cl),
         \A c \in Listers : cl[c].seq \in Nat /\ cm[c].seq \in Nat /\ Moves(cl[c], cm[c])
  PROVE  Sound(s, W, cm)
<1>1. s \in Servers /\ PagesSound(s, cl) BY DEF Sound
<1>2. ASSUME NEW c \in Conns, NEW k \in DOMAIN s.conn[c].wire, s.conn[c].wire[k].t = "sessions"
      PROVE  PageSound(s.versions, s.conn[c].wire[k], cm[c])
  <2> DEFINE f == s.conn[c].wire[k]
  <2>1. FrameSound(W, c, f) BY DEF Sound, WiresSound
  <2>2. c \in Listers
    <3>1. f.id # NoId /\ f.id[1] = "list" BY <1>2, <2>1 DEF FrameSound
    <3> QED BY <2>1, <3>1 DEF FrameSound, Owns
  <2>3. PageSound(s.versions, f, cl[c]) BY <1>1, <1>2 DEF PagesSound
  <2>4. f.id \in AllIds
    <3>1. f \in Frames BY <1>1, SidesAre
    <3> QED BY <3>1 DEF Frames, Answers, ListAnswers
  <2>5. f.id[2] \in Nat BY <2>4 DEF AllIds
  <2> HIDE DEF f
  <2>6. Moves(cl[c], cm[c]) /\ cl[c].seq \in Nat /\ cm[c].seq \in Nat BY <2>2
  <2>7. f.id[2] <= cm[c].seq /\ (f.id[2] = cm[c].seq => f.id[2] = cl[c].seq /\ cm[c].offset = cl[c].offset)
    BY <2>3, <2>5, <2>6 DEF Moves, PageSound
  <2>8. PageSound(s.versions, f, cm[c]) BY <2>3, <2>7 DEF PageSound
  <2> QED BY <2>8 DEF f
<1>3. ASSUME NEW i \in DOMAIN s.task, i[1] = "list"
      PROVE  LET u == cm[s.task[i].by] IN i[2] <= u.seq /\ (i[2] = u.seq => s.task[i].named = u.offset)
  <2> DEFINE c == s.task[i].by
  <2>1. TaskSound(W, i, s.task[i]) BY DEF Sound, TasksSound
  <2>2. c \in Listers BY <1>3, <2>1 DEF TaskSound, Owns
  <2>3. i[2] <= cl[c].seq /\ (i[2] = cl[c].seq => s.task[i].named = cl[c].offset)
    BY <1>1, <1>3 DEF PagesSound
  <2>4. i \in AllIds BY <1>1, TasksAre
  <2>5. i[2] \in Nat BY <2>4 DEF AllIds
  <2>6. Moves(cl[c], cm[c]) /\ cl[c].seq \in Nat /\ cm[c].seq \in Nat BY <2>2
  <2> HIDE DEF c
  <2>7. i[2] <= cm[c].seq /\ (i[2] = cm[c].seq => s.task[i].named = cm[c].offset)
    BY <2>3, <2>5, <2>6 DEF Moves
  <2> QED BY <2>7 DEF c
<1>4. PagesSound(s, cm) BY <1>2, <1>3 DEF PagesSound
<1> QED BY <1>4 DEF Sound

LEMMA MailMoves ==
  ASSUME NEW W, NEW cl, NEW cm, NEW c, NEW m, MessageSound(W, cl, c, m),
         c \in Listers => cl[c].seq \in Nat /\ cm[c].seq \in Nat /\ Moves(cl[c], cm[c])
  PROVE  MessageSound(W, cm, c, m)
<1>1. ASSUME RequestSound(W, cl, c, m) PROVE RequestSound(W, cm, c, m)
  <2>1. m.id \in AllIds BY <1>1 DEF RequestSound
  <2>2. m.id[2] \in Nat BY <2>1 DEF AllIds
  <2>3. m.id[1] = "list" => c \in Listers BY <1>1 DEF RequestSound, Owns
  <2>4. m.id[1] = "list" => m.id[2] <= cm[c].seq /\ (m.id[2] = cm[c].seq => m.n = cm[c].offset)
    BY <1>1, <2>2, <2>3 DEF RequestSound, Moves
  <2> QED BY <1>1, <2>4 DEF RequestSound
<1> QED BY <1>1 DEF MessageSound

LEMMA ComesStays ==
  ASSUME NEW s, NEW t, Serves(s, t, Heard), NEW c \in Heard, NEW id \in AllIds, NEW q,
         Comes(s, q, c, id)
  PROVE  Comes(t, q, c, id)
  BY DEF Comes, Serves, Pledged, Ended

\* What a client shows stays true while what it waits for still comes.
LEMMA FaceOn ==
  ASSUME NEW W, NEW c \in Heard, NEW s, NEW t, NEW u, NEW q, NEW r, NEW ln, NEW on,
         Face(s, u, q, ln, W, c),
         s.versions \in Seq(Listings), t.versions \in Seq(Listings), Longer(s.versions, t.versions),
         LinkSound(t, u, r, on, c),
         ~Deaf(u) => \A id \in AllIds \ {NoId} : Comes(s, q, c, id) => Comes(t, r, c, id)
  PROVE  Face(t, u, r, on, W, c)
<1>1. ASSUME c \in Pages PROVE PageKept(t, u, r, W, c)
  <2>1. PageKept(s, u, q, W, c) BY <1>1 DEF Face
  <2>2. \A e \in u.pending : Comes(t, r, c, e.id)
    <3> TAKE e \in u.pending
    <3>1. e.id \in AllIds BY <2>1 DEF PageKept, PageClients, Entries
    <3>2. Comes(s, q, c, e.id) /\ Owns(W, c, e.id) BY <2>1 DEF PageKept
    <3>3. ~Deaf(u) BY <2>1 DEF PageKept, Deaf
    <3>4. e.id # NoId BY <3>2 DEF Owns, NoId
    <3> QED BY <3>1, <3>2, <3>3, <3>4
  <2> QED BY <2>1, <2>2 DEF PageKept
<1>2. ASSUME c \in Listers PROVE ListerKept(t, u, r, c)
  <2>1. ListerKept(s, u, q, c) BY <1>2 DEF Face
  <2>2. u.seq \in Nat /\ u.rootsSeq \in Nat /\ u.version \in Nat BY <2>1 DEF ListerKept, ListerClients
  <2>3. << "list", u.seq >> \in AllIds \ {NoId} /\ << "roots", u.rootsSeq >> \in AllIds \ {NoId}
    BY <2>2 DEF AllIds, NoId
  <2>4. u.pending \/ u.rootsPending => ~Deaf(u) BY <2>1 DEF ListerKept, Deaf
  <2>5. u.pending => Comes(t, r, c, << "list", u.seq >>) BY <2>1, <2>3, <2>4 DEF ListerKept
  <2>6. u.rootsPending => Comes(t, r, c, << "roots", u.rootsSeq >>) BY <2>1, <2>3, <2>4 DEF ListerKept
  <2>7. Stretch(t.versions, u)
    <3>1. Len(s.versions) \in Nat /\ Len(t.versions) \in Nat OBVIOUS
    <3>2. Stretch(s.versions, u) BY <2>1 DEF ListerKept
    <3>3. u.version # 0 => u.version \in 1 .. Len(s.versions) BY <2>2, <3>1, <3>2 DEF Stretch
    <3>4. u.version # 0 => u.version <= Len(t.versions) /\ t.versions[u.version] = s.versions[u.version]
      BY <3>1, <3>3 DEF Longer
    <3> QED BY <3>2, <3>4 DEF Stretch
  <2> QED BY <2>1, <2>5, <2>6, <2>7 DEF ListerKept
<1> QED BY <1>1, <1>2 DEF Face

LEMMA VersionsAre ==
  ASSUME NEW W, NEW cl, NEW s, Well(s, W, cl, {})
  PROVE  s \in Servers /\ s.versions \in Seq(Listings) /\ Longer(s.versions, s.versions)
  BY DEF Well, Sound, Servers, Longer

\* A step of the server keeps its word.
LEMMA ServerStep ==
  ASSUME NEW W, NEW cl, NEW mail, NEW ln, NEW s, Whole(s, cl, mail, ln, W),
         NEW t, Well(t, W, cl, {}), Serves(s, t, Heard)
  PROVE  Whole(t, cl, mail, ln, W)
<1>1. Heard \subseteq Conns BY HostAssumption DEF Heard
<1> SUFFICES ASSUME NEW c \in Heard PROVE Face(t, cl[c], mail[c], ln, W, c)
  BY DEF Whole
<1> DEFINE u == cl[c]
           q == mail[c]
<1>2. Face(s, u, q, ln, W, c) BY DEF Whole
<1>3. s.versions \in Seq(Listings) /\ t.versions \in Seq(Listings) BY VersionsAre DEF Whole
<1> HIDE DEF u, q
<1>4. LinkSound(t, u, q, ln, c)
  <2>1. LinkSound(s, u, q, ln, c) BY <1>2 DEF Face
  <2> QED BY <1>1, <2>1 DEF LinkSound, Serves
<1>5. Longer(s.versions, t.versions) BY DEF Serves
<1>6. \A id \in AllIds \ {NoId} : Comes(s, q, c, id) => Comes(t, q, c, id) BY ComesStays
<1>7. Face(t, u, q, ln, W, c) BY <1>2, <1>3, <1>4, <1>5, <1>6, FaceOn
<1> QED BY <1>7 DEF u, q

\* Whoever has no part in a step sees nothing of it.
LEMMA OneSide ==
  ASSUME NEW W, NEW cl, NEW mail, NEW ln, NEW s, Whole(s, cl, mail, ln, W),
         NEW c \in Conns, NEW t, NEW cm, NEW post, NEW on,
         Well(t, W, cl, {}), t.task = s.task, t.versions = s.versions,
         \A d \in Conns : d # c => /\ t.conn[d] = s.conn[d] /\ post[d] = mail[d]
                                   /\ (d \in on <=> d \in ln) /\ (d \in Heard => cm[d] = cl[d]),
         post \in [Conns -> Seq(Mail(W))], \A k \in DOMAIN post[c] : MessageSound(W, cm, c, post[c][k]),
         c \in Listers => cl[c].seq \in Nat /\ cm[c].seq \in Nat /\ Moves(cl[c], cm[c]),
         c \in Heard => Face(t, cm[c], post[c], on, W, c)
  PROVE  Whole(t, cm, post, on, W)
<1>1. Listers \subseteq Heard /\ Heard \subseteq Conns BY HostAssumption DEF Heard
<1>2. Well(s, W, cl, {}) /\ Posted(W, cl, mail) BY DEF Whole
<1>3. \A d \in Listers : cl[d].seq \in Nat /\ cm[d].seq \in Nat /\ Moves(cl[d], cm[d])
  <2> SUFFICES ASSUME NEW d \in Listers, d # c PROVE cl[d].seq \in Nat /\ cm[d] = cl[d]
    BY DEF Moves
  <2>1. Face(s, cl[d], mail[d], ln, W, d) BY <1>1 DEF Whole
  <2> QED BY <1>1, <2>1 DEF Face, ListerKept, ListerClients
<1>4. Well(t, W, cm, {})
  <2>1. Sound(t, W, cl) /\ GateSound(t, {}) BY DEF Well
  <2>2. Sound(t, W, cm) BY <1>3, <2>1, ClientsMove
  <2> QED BY <2>1, <2>2 DEF Well
<1>5. Posted(W, cm, post)
  <2> SUFFICES ASSUME NEW d \in Conns, NEW k \in DOMAIN post[d], d # c
               PROVE  MessageSound(W, cm, d, post[d][k])
    BY DEF Posted
  <2> DEFINE m == mail[d][k]
  <2>1. MessageSound(W, cl, d, m) /\ post[d][k] = m BY <1>2 DEF Posted
  <2> HIDE DEF m
  <2>2. d \in Listers => cl[d].seq \in Nat /\ cm[d].seq \in Nat /\ Moves(cl[d], cm[d]) BY <1>3
  <2>3. MessageSound(W, cm, d, m) BY <2>1, <2>2, MailMoves
  <2> QED BY <2>1, <2>3
<1>6. ASSUME NEW d \in Heard PROVE Face(t, cm[d], post[d], on, W, d)
  <2>1. CASE d = c BY <2>1
  <2>2. CASE d # c
    <3> DEFINE u == cl[d]
               q == mail[d]
    <3>1. t.conn[d] = s.conn[d] /\ (d \in on <=> d \in ln) /\ cm[d] = u /\ post[d] = q BY <1>1, <2>2
    <3>2. Face(s, u, q, ln, W, d) BY DEF Whole
    <3> HIDE DEF u, q
    <3>3. s.versions \in Seq(Listings) /\ Longer(s.versions, s.versions) BY <1>2, VersionsAre
    <3>4. LinkSound(s, u, q, ln, d) BY <3>2 DEF Face
    <3>5. LinkSound(t, u, q, on, d) BY <3>1, <3>4 DEF LinkSound, Ended
    <3>6. \A id \in AllIds \ {NoId} : Comes(s, q, d, id) => Comes(t, q, d, id)
      BY <3>1 DEF Comes, Pledged
    <3>7. Face(t, u, q, on, W, d) BY <3>2, <3>3, <3>5, <3>6, FaceOn
    <3> QED BY <3>1, <3>7
  <2> QED BY <2>1, <2>2
<1> QED BY <1>4, <1>5, <1>6 DEF Whole

\* Frames are taken off the wire of c, or its end is put there, or c is opened.
LEMMA ConnKeeps ==
  ASSUME NEW W, NEW cl, NEW s, Well(s, W, cl, {}), NEW c \in Conns, NEW x \in Sides,
         x.inflight = s.conn[c].inflight, x.authed = s.conn[c].authed,
         x.open => s.conn[c].open \/ (~s.conn[c].authed /\ ~s.disposed),
         \A k \in DOMAIN x.wire : \/ x.wire[k].t = "close" /\ x.wire[k].id = NoId
                                  \/ \E l \in DOMAIN s.conn[c].wire : x.wire[k] = s.conn[c].wire[l]
  PROVE  LET t == [s EXCEPT !.conn[c] = x]
         IN /\ Well(t, W, cl, {}) /\ Kept(s, t, {"conn"})
            /\ t.conn[c] = x /\ \A d \in Conns : d # c => t.conn[d] = s.conn[d]
<1> DEFINE t == [s EXCEPT !.conn[c] = x]
<1>1. s \in Servers BY DEF Well, Sound
<1>2. t \in Servers /\ Kept(s, t, {"conn"}) BY <1>1 DEF Servers, Kept, ServerFields
<1>3. t.conn[c] = x /\ \A d \in Conns : d # c => t.conn[d] = s.conn[d] BY <1>1 DEF Servers
<1> HIDE DEF t
<1>4. /\ t.task = s.task /\ t.gate = s.gate /\ t.read = s.read /\ t.host = s.host
      /\ t.versions = s.versions /\ t.disposed = s.disposed /\ t.tokens = s.tokens
  BY <1>2 DEF Kept, ServerFields
<1>5. \A d \in Conns : \A k \in DOMAIN t.conn[d].wire :
        \/ t.conn[d].wire[k].t = "close" /\ t.conn[d].wire[k].id = NoId
        \/ \E l \in DOMAIN s.conn[d].wire : t.conn[d].wire[k] = s.conn[d].wire[l]
  BY <1>3
<1>6. \A d \in Conns : /\ t.conn[d].inflight = s.conn[d].inflight /\ t.conn[d].authed = s.conn[d].authed
                       /\ t.conn[d].open => s.conn[d].open \/ (~s.conn[d].authed /\ ~s.disposed)
  BY <1>3
<1>7. TasksSound(t, W) BY <1>4 DEF Well, Sound, TasksSound
<1>8. WiresSound(t, W)
  <2> SUFFICES ASSUME NEW d \in Conns, NEW k \in DOMAIN t.conn[d].wire
               PROVE  FrameSound(W, d, t.conn[d].wire[k])
    BY DEF WiresSound
  <2>1. CASE t.conn[d].wire[k].t = "close" /\ t.conn[d].wire[k].id = NoId BY <2>1 DEF FrameSound
  <2>2. CASE \E l \in DOMAIN s.conn[d].wire : t.conn[d].wire[k] = s.conn[d].wire[l]
    BY <2>2 DEF Well, Sound, WiresSound
  <2> QED BY <1>5, <2>1, <2>2
<1>9. EvidenceSound(t) BY <1>4 DEF Well, Sound, EvidenceSound, EvidenceOf
<1>10. PagesSound(t, cl)
  <2>1. PagesSound(s, cl) BY DEF Well, Sound
  <2>2. ASSUME NEW d \in Conns, NEW k \in DOMAIN t.conn[d].wire, t.conn[d].wire[k].t = "sessions"
        PROVE  PageSound(t.versions, t.conn[d].wire[k], cl[d])
    BY <1>4, <1>5, <2>1, <2>2 DEF PagesSound
  <2> QED BY <1>4, <2>1, <2>2 DEF PagesSound
<1>11. Slotted(t) /\ Awaited(t) BY <1>4, <1>6 DEF Well, Sound, Slotted, Awaited
<1>12. TokensHold(t) /\ ShutWhenDisposed(t)
  BY <1>4, <1>6 DEF Well, Sound, TokensHold, ShutWhenDisposed
<1>13. GateSound(t, {}) BY <1>4, GateKept DEF Well
<1>14. Well(t, W, cl, {})
  BY <1>2, <1>7, <1>8, <1>9, <1>10, <1>11, <1>12, <1>13 DEF Well, Sound
<1> QED BY <1>2, <1>3, <1>14 DEF t

-------------------------------------------------------------------------------
(* Connections, from both sides *)

LEMMA TailOf ==
  ASSUME NEW S, NEW w \in Seq(S), w # << >>
  PROVE  /\ Head(w) \in S /\ Tail(w) \in Seq(S) /\ 1 \in DOMAIN w /\ w[1] = Head(w)
         /\ \A k \in DOMAIN Tail(w) : k + 1 \in DOMAIN w /\ Tail(w)[k] = w[k + 1]
         /\ \A k \in DOMAIN w : k = 1 \/ (k - 1 \in DOMAIN Tail(w) /\ Tail(w)[k - 1] = w[k])
<1>1. Len(w) \in Nat /\ DOMAIN w = 1 .. Len(w) /\ Len(w) # 0 BY EmptySeq, LenProperties
<1>2. /\ Head(w) \in S /\ Tail(w) \in Seq(S) /\ w[1] = Head(w) /\ Len(Tail(w)) = Len(w) - 1
      /\ \A k \in 1 .. Len(Tail(w)) : Tail(w)[k] = w[k + 1]
  BY HeadTailProperties
<1>3. DOMAIN Tail(w) = 1 .. Len(w) - 1 BY <1>1, <1>2, LenProperties
<1>4. \A k \in DOMAIN w : k = 1 \/ (k - 1 \in 1 .. Len(w) - 1 /\ (k - 1) + 1 = k) BY <1>1
<1> QED BY <1>1, <1>2, <1>3, <1>4

\* The server reads what c sent.
LEMMA ReceiveKeeps ==
  ASSUME NEW W, NEW cl, NEW mail, NEW ln, NEW s, Whole(s, cl, mail, ln, W),
         NEW c \in Conns, mail[c] # << >>
  PROVE  LET t == Inbound(s, c, Head(mail[c]))
         IN /\ Whole(t, cl, [mail EXCEPT ![c] = Tail(@)], ln, W)
            /\ t.launched = s.launched
<1> DEFINE q == mail[c]
           m == Head(q)
           r == Tail(q)
           t == Inbound(s, c, m)
           u == cl[c]
           post == [mail EXCEPT ![c] = r]
<1>1. Heard \subseteq Conns BY HostAssumption DEF Heard
<1>2. Well(s, W, cl, {}) /\ Posted(W, cl, mail) BY DEF Whole
<1>3. q \in Seq(Mail(W)) /\ q # << >> BY <1>2 DEF Posted
<1>4. /\ 1 \in DOMAIN q /\ q[1] = m /\ r \in Seq(Mail(W))
      /\ \A k \in DOMAIN r : k + 1 \in DOMAIN q /\ r[k] = q[k + 1]
      /\ \A k \in DOMAIN q : k = 1 \/ (k - 1 \in DOMAIN r /\ r[k - 1] = q[k])
  BY <1>3, TailOf
<1>5. \A k \in DOMAIN q : MessageSound(W, cl, c, q[k]) BY <1>2 DEF Posted
<1>6. MessageSound(W, cl, c, m) BY <1>4, <1>5
<1>7. /\ post \in [Conns -> Seq(Mail(W))] /\ post[c] = r
      /\ \A d \in Conns : d # c => post[d] = mail[d]
  BY <1>2, <1>4 DEF Posted
<1>8. Posted(W, cl, post)
  <2>1. \A k \in DOMAIN r : MessageSound(W, cl, c, r[k]) BY <1>4, <1>5
  <2>2. \A d \in Conns : d # c => \A k \in DOMAIN mail[d] : MessageSound(W, cl, d, mail[d][k])
    BY <1>2 DEF Posted
  <2> HIDE DEF post, r, q
  <2> QED BY <1>7, <2>1, <2>2 DEF Posted
<1>9. c \in Heard => Face(s, u, q, ln, W, c) BY DEF Whole
<1> HIDE DEF post, r, m, u
<1>10. CASE m.t # "bye"
  <2>1. Goes(s, t, W, cl) /\ (m.t = "request" /\ s.conn[c].open => Pledged(t, c, m.id))
    BY <1>2, <1>6, <1>10, InboundGoes
  <2> HIDE DEF t
  <2>2. Well(t, W, cl, {}) /\ Serves(s, t, Heard) /\ t.launched = s.launched BY <2>1 DEF Goes
  <2>3. Whole(t, cl, mail, ln, W) BY <2>2, ServerStep
  <2>4. ASSUME c \in Heard PROVE Face(t, u, r, ln, W, c)
    <3>1. Face(t, u, q, ln, W, c) BY <2>3, <2>4 DEF Whole, u
    <3>2. t.versions \in Seq(Listings) /\ Longer(t.versions, t.versions) BY <2>2, VersionsAre
    <3>3. LinkSound(t, u, r, ln, c)
      <4>1. LinkSound(t, u, q, ln, c) BY <3>1 DEF Face
      <4> HIDE DEF q
      <4> QED BY <1>4, <4>1 DEF LinkSound
    <3>4. ASSUME NEW id \in AllIds \ {NoId}, Comes(t, q, c, id) PROVE Comes(t, r, c, id)
      <4>1. CASE Pledged(t, c, id) BY <4>1 DEF Comes
      <4>2. CASE t.conn[c].open /\ \E k \in DOMAIN q : q[k].id = id
        <5>1. PICK k \in DOMAIN q : q[k].id = id BY <4>2
        <5>2. CASE k = 1
          <6>1. m.id = id BY <1>4, <5>1, <5>2
          <6>2. m.t = "request" BY <1>6, <2>4, <3>4, <6>1 DEF MessageSound
          <6>3. s.conn[c].open BY <2>2, <4>2 DEF Serves
          <6> QED BY <2>1, <6>1, <6>2, <6>3 DEF Comes
        <5>3. CASE k # 1 BY <1>4, <4>2, <5>1, <5>3 DEF Comes
        <5> QED BY <5>2, <5>3
      <4> QED BY <3>4, <4>1, <4>2 DEF Comes
    <3> HIDE DEF q
    <3>5. Face(t, u, r, ln, W, c) BY <2>4, <3>1, <3>2, <3>3, <3>4, FaceOn
    <3> QED BY <3>5
  <2>5. ASSUME NEW d \in Heard PROVE Face(t, cl[d], post[d], ln, W, d)
    <3>1. CASE d = c BY <1>7, <2>4, <3>1 DEF u
    <3>2. CASE d # c BY <1>1, <1>7, <2>3, <3>2 DEF Whole
    <3> QED BY <3>1, <3>2
  <2> QED BY <1>8, <2>2, <2>5 DEF Whole, t, post, r, m
<1>11. CASE m.t = "bye"
  <2>1. Well(t, W, cl, {}) /\ Serves(s, t, Heard \ {c}) /\ t.launched = s.launched
    BY <1>2, <1>11, ByeKeeps
  <2> HIDE DEF t
  <2>2. s.versions \in Seq(Listings) /\ t.versions \in Seq(Listings) BY <1>2, <2>1, VersionsAre
  <2>3. /\ Longer(s.versions, t.versions)
        /\ ~s.conn[c].open /\ ~s.conn[c].authed => ~t.conn[c].open /\ ~t.conn[c].authed
        /\ Ended(s, c) => Ended(t, c)
    BY <2>1 DEF Serves
  <2>4. ASSUME c \in Heard PROVE Face(t, u, r, ln, W, c)
    <3>1. LinkSound(s, u, q, ln, c) BY <1>9, <2>4 DEF Face
    <3>2. Deaf(u) \/ Ended(t, c) BY <1>4, <1>11, <2>3, <3>1 DEF LinkSound
    <3>3. LinkSound(t, u, r, ln, c) BY <1>4, <2>3, <3>1, <3>2 DEF LinkSound
    <3>4. ~Deaf(u) => \A id \in AllIds \ {NoId} : Comes(s, q, c, id) => Comes(t, r, c, id)
      BY <3>2 DEF Comes, Pledged, Ended
    <3> HIDE DEF q
    <3>5. Face(t, u, r, ln, W, c) BY <1>9, <2>2, <2>3, <2>4, <3>3, <3>4, FaceOn
    <3> QED BY <3>5
  <2>5. ASSUME NEW d \in Heard PROVE Face(t, cl[d], post[d], ln, W, d)
    <3>1. CASE d = c BY <1>7, <2>4, <3>1 DEF u
    <3>2. CASE d # c
      <4> DEFINE v == cl[d]
                 p == mail[d]
      <4>1. Face(s, v, p, ln, W, d) BY DEF Whole
      <4> HIDE DEF v, p
      <4>2. LinkSound(s, v, p, ln, d) BY <4>1 DEF Face
      <4>3. LinkSound(t, v, p, ln, d) BY <1>1, <2>1, <3>2, <4>2 DEF LinkSound, Serves
      <4>4. \A id \in AllIds \ {NoId} : Comes(s, p, d, id) => Comes(t, p, d, id)
        BY <2>1, <3>2 DEF Comes, Serves, Pledged, Ended
      <4>5. Face(t, v, p, ln, W, d) BY <2>2, <2>3, <4>1, <4>3, <4>4, FaceOn
      <4> QED BY <1>1, <1>7, <3>2, <4>5 DEF v, p
    <3> QED BY <3>1, <3>2
  <2> QED BY <1>8, <2>1, <2>5 DEF Whole, t, post, r, m
<1> QED BY <1>10, <1>11

LEMMA CloseIs ==
  ASSUME NEW code \in Nat
  PROVE  /\ << CloseTo(code) >> \in Seq(Frames) /\ DOMAIN << CloseTo(code) >> = {1}
         /\ << CloseTo(code) >>[1].t = "close" /\ << CloseTo(code) >>[1].id = NoId
<1>1. Farewell(<< CloseTo(code) >>) BY LastWord
<1>2. << CloseTo(code) >> \in Seq(Frames) BY <1>1 DEF Farewell
<1>3. CloseTo(code).t = "close" /\ CloseTo(code).id = NoId BY DEF CloseTo, Frame
<1> QED BY <1>2, <1>3

LEMMA NoIdIs == NoId \in AllIds
  BY DEF NoId, AllIds

\* A frame without a request, as a client says hello or leaves.
LEMMA PlainMail ==
  ASSUME NEW W, NEW cl, NEW c \in Heard, NEW m \in {Hello, Bye}
  PROVE  m \in Mail(W) /\ MessageSound(W, cl, c, m)
<1>1. m.t \in {"hello", "bye"} /\ m.id = NoId BY DEF Hello, Bye, Message
<1>2. m \in Mail(W)
  <2>1. "none" \in FileNames /\ "none" \in Kinds \cup {"none"} /\ 0 \in Nat BY DEF FileNames
  <2> QED BY <2>1, NoIdIs DEF Hello, Bye, Message, Mail
<1> QED BY <1>1, <1>2 DEF MessageSound

\* The socket of c is gone, and each side will hear of it.
LEMMA CutKeeps ==
  ASSUME NEW W, NEW cl, NEW mail, NEW ln, NEW s, Whole(s, cl, mail, ln, W), NEW c \in Heard
  PROVE  LET t == [s EXCEPT !.conn[c].wire = << CloseTo(1006) >>]
         IN /\ Whole(t, cl, [mail EXCEPT ![c] = << Bye >>], ln \ {c}, W)
            /\ t.launched = s.launched
<1> DEFINE w == << CloseTo(1006) >>
           x == [s.conn[c] EXCEPT !.wire = w]
           t == [s EXCEPT !.conn[c] = x]
           post == [mail EXCEPT ![c] = << Bye >>]
           on == ln \ {c}
           u == cl[c]
           q == mail[c]
<1>1. Heard \subseteq Conns /\ c \in Conns BY HostAssumption DEF Heard
<1>2. Well(s, W, cl, {}) /\ Posted(W, cl, mail) BY DEF Whole
<1>3. s.conn[c] \in Sides BY <1>1, <1>2, VersionsAre, SidesAre
<1>4. w \in Seq(Frames) /\ DOMAIN w = {1} /\ w[1].t = "close" /\ w[1].id = NoId BY CloseIs
<1>5. [s EXCEPT !.conn[c].wire = << CloseTo(1006) >>] = t OBVIOUS
<1> HIDE DEF w
<1>6. /\ x \in Sides /\ x.inflight = s.conn[c].inflight /\ x.authed = s.conn[c].authed
      /\ x.open = s.conn[c].open /\ x.wire = w
  BY <1>3, <1>4 DEF Sides
<1> HIDE DEF x
<1>7. Well(t, W, cl, {}) /\ Kept(s, t, {"conn"}) /\ t.conn[c] = x
      /\ \A d \in Conns : d # c => t.conn[d] = s.conn[d]
  BY <1>1, <1>2, <1>4, <1>6, ConnKeeps
<1> HIDE DEF t
<1>8. t.task = s.task /\ t.versions = s.versions /\ t.launched = s.launched
  BY <1>7 DEF Kept, ServerFields
<1>9. Bye \in Mail(W) /\ MessageSound(W, cl, c, Bye) BY PlainMail
<1>10. /\ post \in [Conns -> Seq(Mail(W))] /\ post[c] = << Bye >>
       /\ \A d \in Conns : d # c => post[d] = mail[d] /\ (d \in on <=> d \in ln)
  BY <1>1, <1>2, <1>9 DEF Posted
<1> HIDE DEF post, on
<1>11. \A k \in DOMAIN post[c] : MessageSound(W, cl, c, post[c][k]) BY <1>9, <1>10
<1>12. Ended(t, c) BY <1>4, <1>6, <1>7 DEF Ended
<1>13. Face(s, u, q, ln, W, c) BY DEF Whole
<1>14. s.versions \in Seq(Listings) /\ Longer(s.versions, s.versions) BY <1>2, VersionsAre
<1> HIDE DEF u, q
<1>15. LinkSound(t, u, post[c], on, c)
  <2>1. LinkSound(s, u, q, ln, c) BY <1>13 DEF Face
  <2> QED BY <1>6, <1>7, <1>12, <2>1 DEF LinkSound
<1>16. \A id \in AllIds \ {NoId} : Comes(s, q, c, id) => Comes(t, post[c], c, id)
  BY <1>12 DEF Comes, Pledged, Ended
<1>17. Face(t, u, post[c], on, W, c) BY <1>8, <1>13, <1>14, <1>15, <1>16, FaceOn
<1>18. c \in Listers => cl[c].seq \in Nat /\ cl[c].seq \in Nat /\ Moves(cl[c], cl[c])
  BY <1>13 DEF Face, ListerKept, ListerClients, Moves, u
<1>19. \A d \in Conns : d # c => /\ t.conn[d] = s.conn[d] /\ post[d] = mail[d]
                                 /\ (d \in on <=> d \in ln) /\ (d \in Heard => cl[d] = cl[d])
  BY <1>7, <1>10
<1>20. Whole(t, cl, post, on, W)
  BY <1>1, <1>7, <1>8, <1>10, <1>11, <1>17, <1>18, <1>19, OneSide DEF u
<1> QED BY <1>5, <1>8, <1>20 DEF post, on, t, x

\* A client that lost its connection, or ends it, waits for nothing.
LEMMA RejectedIs ==
  ASSUME NEW W, NEW s, NEW u, NEW q, NEW c, PageKept(s, u, q, W, c), NEW v,
         v = RejectAllPending(u)
  PROVE  /\ v \in PageClients /\ v.conn = u.conn /\ v.stopped = u.stopped
         /\ v.pending = {} /\ v.inflight = {} /\ v.resuming = {}
<1>1. u \in PageClients BY DEF PageKept
<1>2. CASE u.pending = {}
  <2>1. v = u BY <1>2 DEF RejectAllPending
  <2>2. u.inflight = {} /\ u.resuming = {} BY <1>2 DEF PageKept
  <2> QED BY <1>1, <1>2, <2>1, <2>2
<1>3. CASE u.pending # {}
  <2>1. (\E e \in u.pending : e.kind = "resume") \/ u.resuming = {} BY DEF PageKept
  <2> DEFINE left == IF \E e \in u.pending : e.kind = "resume" THEN {} ELSE u.resuming
  <2>2. left = {} BY <2>1
  <2>3. v = [u EXCEPT !.pending = {}, !.inflight = {}, !.resuming = left]
    BY <1>3 DEF RejectAllPending
  <2> HIDE DEF left
  <2> QED BY <1>1, <2>2, <2>3 DEF PageClients
<1> QED BY <1>2, <1>3

\* A page that waits for nothing has nothing to keep.
LEMMA IdlePage ==
  ASSUME NEW W, NEW s, NEW v, NEW q, NEW c,
         v \in PageClients, v.pending = {}, v.inflight = {}, v.resuming = {}
  PROVE  PageKept(s, v, q, W, c)
<1>1. IsFiniteSet({}) BY FS_EmptySet
<1> QED BY <1>1 DEF PageKept

\* And neither has a list, but for what it shows.
LEMMA IdleList ==
  ASSUME NEW s, NEW u, NEW v, NEW q, NEW r, NEW c, ListerKept(s, u, q, c), NEW t,
         v \in ListerClients, ~v.pending, ~v.rootsPending, t.versions = s.versions,
         v.version = u.version, v.next = u.next, v.sessions = u.sessions, v.more = u.more
  PROVE  ListerKept(t, v, r, c)
  BY DEF ListerKept, Stretch

\* The server's side, and the client, of a socket that opens.
Opened(s, c) ==
  IF s.disposed THEN [s EXCEPT !.conn[c].wire = << CloseTo(1013) >>] ELSE [s EXCEPT !.conn[c].open = TRUE]
Greets(cl, c) == [cl EXCEPT ![c].conn = "authenticating"]

\* The socket of c opens; a server that is being shut down says so.
LEMMA OpenKeeps ==
  ASSUME NEW W, NEW cl, NEW mail, NEW ln, NEW s, Whole(s, cl, mail, ln, W), NEW c \in Heard,
         DOMAIN cl = Heard, cl[c].conn = "connecting", ~cl[c].stopped
  PROVE  LET t == Opened(s, c)
         IN /\ Whole(t, Greets(cl, c), [mail EXCEPT ![c] = << Hello >>],
                     ln \cup {c}, W)
            /\ t.launched = s.launched
<1> USE DEF Opened, Greets
<1> DEFINE w == IF s.disposed THEN << CloseTo(1013) >> ELSE s.conn[c].wire
           here == IF s.disposed THEN s.conn[c].open ELSE TRUE
           x == [s.conn[c] EXCEPT !.wire = w, !.open = here]
           t == [s EXCEPT !.conn[c] = x]
           u == cl[c]
           v == [u EXCEPT !.conn = "authenticating"]
           cm == [cl EXCEPT ![c] = v]
           post == [mail EXCEPT ![c] = << Hello >>]
           on == ln \cup {c}
           q == mail[c]
<1>1. Heard \subseteq Conns /\ c \in Conns BY HostAssumption DEF Heard
<1>2. Well(s, W, cl, {}) /\ Posted(W, cl, mail) /\ s \in Servers BY VersionsAre DEF Whole
<1>3. s.conn[c] \in Sides /\ s.disposed \in BOOLEAN BY <1>1, <1>2, SidesAre DEF Servers
<1>4. Face(s, u, q, ln, W, c) BY DEF Whole
<1>5. ~s.conn[c].open /\ ~s.conn[c].authed BY <1>4 DEF Face, LinkSound
<1>6. /\ w \in Seq(Frames) /\ here \in BOOLEAN /\ (here => ~s.disposed)
      /\ \A k \in DOMAIN w : \/ w[k].t = "close" /\ w[k].id = NoId
                             \/ \E l \in DOMAIN s.conn[c].wire : w[k] = s.conn[c].wire[l]
      /\ s.disposed => \E k \in DOMAIN w : w[k].t = "close"
      /\ ~s.disposed => here
  <2>1. s.conn[c].wire \in Seq(Frames) BY <1>3 DEF Sides
  <2>2. CASE s.disposed
    <3>1. w = << CloseTo(1013) >> /\ here = s.conn[c].open BY <2>2
    <3> HIDE DEF w, here
    <3>2. w \in Seq(Frames) /\ DOMAIN w = {1} /\ w[1].t = "close" /\ w[1].id = NoId BY <3>1, CloseIs
    <3> QED BY <1>3, <1>5, <2>2, <3>1, <3>2 DEF Sides
  <2>3. CASE ~s.disposed BY <1>3, <2>1, <2>3
  <2> QED BY <2>2, <2>3
<1>7. (IF s.disposed THEN [s EXCEPT !.conn[c].wire = << CloseTo(1013) >>]
       ELSE [s EXCEPT !.conn[c].open = TRUE]) = t
  <2>1. ASSUME s.disposed PROVE x = [s.conn[c] EXCEPT !.wire = << CloseTo(1013) >>]
    <3> DEFINE y == << CloseTo(1013) >>
    <3>1. w = y /\ here = s.conn[c].open BY <2>1
    <3> HIDE DEF w, here, y
    <3>2. x = [s.conn[c] EXCEPT !.wire = y] BY <1>3, <3>1 DEF Sides
    <3> QED BY <3>2 DEF y
  <2>2. ASSUME ~s.disposed PROVE x = [s.conn[c] EXCEPT !.open = TRUE]
    <3>1. w = s.conn[c].wire /\ here = TRUE BY <2>2
    <3> HIDE DEF w, here
    <3> QED BY <1>3, <3>1 DEF Sides
  <2> HIDE DEF x
  <2>3. ASSUME s.disposed PROVE [s EXCEPT !.conn[c].wire = << CloseTo(1013) >>] = t BY <2>1, <2>3
  <2>4. ASSUME ~s.disposed PROVE [s EXCEPT !.conn[c].open = TRUE] = t BY <2>2, <2>4
  <2> HIDE DEF t
  <2> QED BY <2>3, <2>4
<1> HIDE DEF w, here
<1>8. /\ x \in Sides /\ x.inflight = s.conn[c].inflight /\ x.authed = s.conn[c].authed
      /\ x.open = here /\ x.wire = w
  BY <1>3, <1>6 DEF Sides
<1> HIDE DEF x
<1>9. Well(t, W, cl, {}) /\ Kept(s, t, {"conn"}) /\ t.conn[c] = x
      /\ \A d \in Conns : d # c => t.conn[d] = s.conn[d]
  BY <1>1, <1>2, <1>5, <1>6, <1>8, ConnKeeps
<1> HIDE DEF t
<1>10. t.task = s.task /\ t.versions = s.versions /\ t.launched = s.launched
  BY <1>9 DEF Kept, ServerFields
<1>11. Hello \in Mail(W) /\ MessageSound(W, cm, c, Hello) BY PlainMail
<1>12. cm[c] = v /\ \A d \in Heard : d # c => cm[d] = cl[d] OBVIOUS
<1>13. [cl EXCEPT ![c].conn = "authenticating"] = cm OBVIOUS
<1> HIDE DEF cm, v
<1>14. /\ post \in [Conns -> Seq(Mail(W))] /\ post[c] = << Hello >>
       /\ \A d \in Conns : d # c => post[d] = mail[d] /\ (d \in on <=> d \in ln)
       /\ c \in on
  BY <1>1, <1>2, <1>11 DEF Posted
<1> HIDE DEF post, on
<1>15. \A k \in DOMAIN post[c] : MessageSound(W, cm, c, post[c][k]) /\ post[c][k].t = "hello"
  BY <1>11, <1>14 DEF Hello, Message
<1>16. (c \in on /\ t.conn[c].open) \/ Ended(t, c) BY <1>6, <1>8, <1>9, <1>14 DEF Ended
<1> HIDE DEF u, q
<1>17. ASSUME c \in Pages PROVE v.conn = "authenticating" /\ PageKept(t, v, post[c], W, c)
  <2>1. PageKept(s, u, q, W, c) BY <1>4, <1>17 DEF Face
  <2>2. u \in PageClients /\ u.pending = {} /\ u.inflight = {} /\ u.resuming = {}
    BY <2>1 DEF PageKept, u
  <2>3. v \in PageClients /\ v.pending = {} /\ v.inflight = {} /\ v.resuming = {}
        /\ v.conn = "authenticating"
    BY <2>2 DEF PageClients, ConnStates, v
  <2> QED BY <2>3, IdlePage
<1>18. ASSUME c \in Listers
       PROVE  /\ v.conn = "authenticating" /\ ListerKept(t, v, post[c], c)
              /\ u.seq \in Nat /\ v.seq = u.seq /\ v.offset = u.offset
  <2>1. ListerKept(s, u, q, c) BY <1>4, <1>18 DEF Face
  <2>2. u \in ListerClients /\ ~u.pending /\ ~u.rootsPending BY <2>1 DEF ListerKept, u
  <2>3. /\ v \in ListerClients /\ v.conn = "authenticating" /\ ~v.pending /\ ~v.rootsPending
        /\ v.seq = u.seq /\ v.offset = u.offset /\ u.seq \in Nat
        /\ v.version = u.version /\ v.next = u.next /\ v.sessions = u.sessions /\ v.more = u.more
    BY <2>2 DEF ListerClients, ConnStates, v
  <2>4. ListerKept(t, v, post[c], c) BY <1>10, <2>1, <2>3, IdleList
  <2> QED BY <2>3, <2>4
<1>19. v.conn = "authenticating" BY <1>17, <1>18 DEF Heard
<1>20. LinkSound(t, v, post[c], on, c) BY <1>15, <1>16, <1>19 DEF LinkSound
<1>21. Face(t, v, post[c], on, W, c) BY <1>17, <1>18, <1>20 DEF Face
<1>22. c \in Listers => cl[c].seq \in Nat /\ cm[c].seq \in Nat /\ Moves(cl[c], cm[c])
  BY <1>12, <1>18 DEF Moves, u
<1>23. \A d \in Conns : d # c => /\ t.conn[d] = s.conn[d] /\ post[d] = mail[d]
                                 /\ (d \in on <=> d \in ln) /\ (d \in Heard => cm[d] = cl[d])
  BY <1>9, <1>12, <1>14
<1>24. \A k \in DOMAIN post[c] : MessageSound(W, cm, c, post[c][k]) BY <1>15
<1>25. Whole(t, cm, post, on, W)
  BY <1>1, <1>9, <1>10, <1>12, <1>14, <1>21, <1>22, <1>23, <1>24, OneSide
<1> QED BY <1>7, <1>10, <1>13, <1>25 DEF post, on

-------------------------------------------------------------------------------
(* The clients *)

\* What c says is on its way only if its socket is open.
Post(mail, ln, c, ms) == IF c \in ln THEN [mail EXCEPT ![c] = @ \o ms] ELSE mail

Posts(W, mail, ln, c, ms, post) ==
  /\ post \in [Conns -> Seq(Mail(W))]
  /\ \A d \in Conns : d # c => post[d] = mail[d]
  /\ \A k \in DOMAIN mail[c] : k \in DOMAIN post[c] /\ post[c][k] = mail[c][k]
  /\ \A k \in DOMAIN post[c] : \/ k \in DOMAIN mail[c] /\ post[c][k] = mail[c][k]
                               \/ post[c][k] \in ToSet(ms)
  /\ c \in ln => \A m \in ToSet(ms) : \E k \in DOMAIN post[c] : post[c][k] = m
  /\ c \notin ln \/ ms = << >> => post[c] = mail[c]

LEMMA PostIs ==
  ASSUME NEW W, NEW mail \in [Conns -> Seq(Mail(W))], NEW ln, NEW c \in Conns, NEW ms \in Seq(Mail(W))
  PROVE  Posts(W, mail, ln, c, ms, Post(mail, ln, c, ms))
<1> DEFINE q == mail[c]
           r == q \o ms
           post == Post(mail, ln, c, ms)
<1>1. q \in Seq(Mail(W)) OBVIOUS
<1>2. /\ \A k \in DOMAIN q : k \in DOMAIN r /\ r[k] = q[k]
      /\ \A k \in DOMAIN r : (k \in DOMAIN q /\ r[k] = q[k]) \/ r[k] \in ToSet(ms)
      /\ ToSet(ms) \subseteq ToSet(r)
  BY <1>1, AppendedIs
<1>3. r \in Seq(Mail(W)) BY <1>1
<1>4. ms = << >> => r = q BY <1>1
<1>5. \A m \in ToSet(ms) : \E k \in DOMAIN r : r[k] = m BY <1>2 DEF ToSet
<1> HIDE DEF r
<1>6. CASE c \in ln
  <2>1. post = [mail EXCEPT ![c] = r] BY <1>6 DEF Post, r
  <2>2. post \in [Conns -> Seq(Mail(W))] /\ post[c] = r /\ \A d \in Conns : d # c => post[d] = mail[d]
    BY <1>3, <2>1
  <2> HIDE DEF post
  <2>3. Posts(W, mail, ln, c, ms, post) BY <1>2, <1>4, <1>5, <1>6, <2>2 DEF Posts
  <2> QED BY <2>3 DEF post
<1>7. CASE c \notin ln
  <2>1. post = mail BY <1>7 DEF Post
  <2> HIDE DEF post
  <2>2. Posts(W, mail, ln, c, ms, post) BY <1>7, <2>1 DEF Posts
  <2> QED BY <2>2 DEF post
<1> QED BY <1>6, <1>7

LEMMA PostNone ==
  ASSUME NEW W, NEW mail \in [Conns -> Seq(Mail(W))], NEW ln, NEW c \in Conns
  PROVE  Post(mail, ln, c, << >>) = mail
<1> DEFINE post == Post(mail, ln, c, << >>)
<1>1. << >> \in Seq(Mail(W)) OBVIOUS
<1>2. Posts(W, mail, ln, c, << >>, post) BY <1>1, PostIs
<1> HIDE DEF post
<1>3. post \in [Conns -> Seq(Mail(W))] /\ \A d \in Conns : post[d] = mail[d] BY <1>2 DEF Posts
<1>4. post = mail BY <1>3
<1> QED BY <1>4 DEF post

\* c's client goes on, says what is sound, and keeps its word.
LEMMA ClientActs ==
  ASSUME NEW W, NEW cl, NEW mail, NEW ln, NEW s, Whole(s, cl, mail, ln, W), NEW c \in Heard,
         NEW t, Well(t, W, cl, {}), t.task = s.task, t.versions = s.versions,
         NEW on, \A d \in Conns : d # c => t.conn[d] = s.conn[d] /\ (d \in on <=> d \in ln),
         NEW cm, \A d \in Heard : d # c => cm[d] = cl[d],
         c \in Listers => cl[c].seq \in Nat /\ cm[c].seq \in Nat /\ Moves(cl[c], cm[c]),
         NEW ms \in Seq(Mail(W)), \A m \in ToSet(ms) : MessageSound(W, cm, c, m),
         Face(t, cm[c], Post(mail, ln, c, ms)[c], on, W, c)
  PROVE  Whole(t, cm, Post(mail, ln, c, ms), on, W)
<1> DEFINE post == Post(mail, ln, c, ms)
<1>1. Heard \subseteq Conns /\ c \in Conns BY HostAssumption DEF Heard
<1>2. Posted(W, cl, mail) /\ mail \in [Conns -> Seq(Mail(W))] BY DEF Whole, Posted
<1>3. Posts(W, mail, ln, c, ms, post) BY <1>1, <1>2, PostIs
<1>4. Face(t, cm[c], post[c], on, W, c) OBVIOUS
<1> HIDE DEF post
<1>5. /\ post \in [Conns -> Seq(Mail(W))]
      /\ \A d \in Conns : d # c => post[d] = mail[d]
      /\ \A k \in DOMAIN post[c] : \/ k \in DOMAIN mail[c] /\ post[c][k] = mail[c][k]
                                   \/ post[c][k] \in ToSet(ms)
  BY <1>3 DEF Posts
<1>6. \A k \in DOMAIN post[c] : MessageSound(W, cm, c, post[c][k])
  <2> TAKE k \in DOMAIN post[c]
  <2> DEFINE m == mail[c][k]
  <2>1. CASE k \in DOMAIN mail[c] /\ post[c][k] = m
    <3>1. MessageSound(W, cl, c, m) BY <1>1, <1>2, <2>1 DEF Posted
    <3> HIDE DEF m
    <3>2. MessageSound(W, cm, c, m) BY <3>1, MailMoves
    <3> QED BY <2>1, <3>2
  <2>2. CASE post[c][k] \in ToSet(ms) BY <2>2
  <2> QED BY <1>5, <2>1, <2>2
<1>7. \A d \in Conns : d # c => /\ t.conn[d] = s.conn[d] /\ post[d] = mail[d]
                                /\ (d \in on <=> d \in ln) /\ (d \in Heard => cm[d] = cl[d])
  BY <1>5
<1>8. c \in Heard => Face(t, cm[c], post[c], on, W, c) BY <1>4
<1>9. Whole(t, cm, post, on, W) BY <1>1, <1>5, <1>6, <1>7, <1>8, OneSide
<1> QED BY <1>9 DEF post

LEMMA OneMessage ==
  ASSUME NEW S, NEW m \in S
  PROVE  << m >> \in Seq(S) /\ ToSet(<< m >>) = {m}
  BY DEF ToSet

\* The client of c is closed.
LEMMA CloseClientKeeps ==
  ASSUME NEW W, NEW cl, NEW mail, NEW ln, NEW s, Whole(s, cl, mail, ln, W), NEW c \in Heard,
         DOMAIN cl = Heard, ~cl[c].stopped
  PROVE  LET v == IF c \in Pages THEN Stopped(cl[c]) ELSE Lists!Stopped(cl[c])
         IN Whole(s, [cl EXCEPT ![c] = v], Post(mail, ln, c, << Bye >>), ln \ {c}, W)
<1> DEFINE u == cl[c]
           v == IF c \in Pages THEN Stopped(u) ELSE Lists!Stopped(u)
           cm == [cl EXCEPT ![c] = v]
           on == ln \ {c}
           q == mail[c]
           r == Post(mail, ln, c, << Bye >>)[c]
<1>1. Well(s, W, cl, {}) BY DEF Whole
<1>2. Face(s, u, q, ln, W, c) BY DEF Whole
<1>3. Bye \in Mail(W) /\ MessageSound(W, cm, c, Bye) BY PlainMail
<1>4. << Bye >> \in Seq(Mail(W)) /\ ToSet(<< Bye >>) = {Bye} BY <1>3, OneMessage
<1>5. \A m \in ToSet(<< Bye >>) : MessageSound(W, cm, c, m) BY <1>3, <1>4
<1> HIDE DEF r, q
<1>6. ASSUME c \in Pages PROVE Deaf(v) /\ v.conn # "connecting" /\ PageKept(s, v, r, W, c)
  <2>1. PageKept(s, u, q, W, c) BY <1>2, <1>6 DEF Face
  <2> DEFINE n == RejectAllPending(u)
             end == IF Deaf(u) THEN n.conn ELSE "closed"
  <2>2. /\ n \in PageClients /\ n.conn = u.conn /\ n.pending = {} /\ n.inflight = {}
        /\ n.resuming = {}
    BY <2>1, RejectedIs
  <2>3. v = [n EXCEPT !.stopped = TRUE, !.conn = end] BY <1>6 DEF Stopped
  <2>4. end \in {"closed", "error"} BY <2>2 DEF Deaf
  <2> HIDE DEF n, end, v, u
  <2>5. /\ v \in PageClients /\ v.pending = {} /\ v.inflight = {} /\ v.resuming = {}
        /\ v.conn \in {"closed", "error"}
    BY <2>2, <2>3, <2>4 DEF PageClients, ConnStates
  <2>6. PageKept(s, v, r, W, c) BY <2>5, IdlePage
  <2> QED BY <2>5, <2>6 DEF Deaf
<1>7. ASSUME c \in Listers
      PROVE  /\ Deaf(v) /\ v.conn # "connecting" /\ ListerKept(s, v, r, c)
             /\ u.seq \in Nat /\ v.seq = u.seq /\ v.offset = u.offset
  <2>1. ListerKept(s, u, q, c) BY <1>2, <1>7 DEF Face
  <2> DEFINE n == Lists!Quiet(u)
             end == IF Lists!Deaf(u) THEN n.conn ELSE "closed"
  <2>2. u \in ListerClients BY <2>1 DEF ListerKept
  <2>3. /\ n \in ListerClients /\ n.conn = u.conn /\ ~n.pending /\ ~n.rootsPending
        /\ n.seq = u.seq /\ n.offset = u.offset /\ u.seq \in Nat
        /\ n.version = u.version /\ n.next = u.next /\ n.sessions = u.sessions /\ n.more = u.more
    BY <2>2 DEF ListerClients, Lists!Quiet
  <2>4. c \notin Pages BY <1>7, HostAssumption
  <2>5. v = [n EXCEPT !.stopped = TRUE, !.conn = end] BY <2>4 DEF Lists!Stopped
  <2>6. end \in {"closed", "error"} BY <2>3 DEF Lists!Deaf
  <2> HIDE DEF n, end, v, u
  <2>7. /\ v \in ListerClients /\ ~v.pending /\ ~v.rootsPending /\ v.conn \in {"closed", "error"}
        /\ v.seq = u.seq /\ v.offset = u.offset /\ u.seq \in Nat
        /\ v.version = u.version /\ v.next = u.next /\ v.sessions = u.sessions /\ v.more = u.more
    BY <2>3, <2>5, <2>6 DEF ListerClients, ConnStates
  <2>8. ListerKept(s, v, r, c) BY <2>1, <2>7, IdleList
  <2> QED BY <2>7, <2>8 DEF Deaf
<1>8. Deaf(v) /\ v.conn # "connecting" BY <1>6, <1>7 DEF Heard
<1>9. LinkSound(s, v, r, on, c) BY <1>8 DEF LinkSound
<1>10. Face(s, v, r, on, W, c) BY <1>6, <1>7, <1>9 DEF Face
<1>11. c \in Listers => cl[c].seq \in Nat /\ v.seq \in Nat /\ Moves(cl[c], v) BY <1>7 DEF Moves
<1> HIDE DEF v, u
<1>12. \A d \in Conns : d # c => s.conn[d] = s.conn[d] /\ (d \in on <=> d \in ln) OBVIOUS
<1>13. cm[c] = v /\ \A d \in Heard : d # c => cm[d] = cl[d] OBVIOUS
<1> HIDE DEF on, cm
<1>14. c \in Listers => cl[c].seq \in Nat /\ cm[c].seq \in Nat /\ Moves(cl[c], cm[c])
  BY <1>11, <1>13
<1>15. Face(s, cm[c], Post(mail, ln, c, << Bye >>)[c], on, W, c) BY <1>10, <1>13 DEF r
<1>16. Whole(s, cm, Post(mail, ln, c, << Bye >>), on, W)
  BY <1>1, <1>4, <1>5, <1>12, <1>13, <1>14, <1>15, ClientActs
<1> QED BY <1>16 DEF v, u, on, cm

\* A roots request is given up.
LEMMA RootsTimeoutKeeps ==
  ASSUME NEW W, NEW cl, NEW mail, NEW ln, NEW s, Whole(s, cl, mail, ln, W), NEW c \in Listers,
         DOMAIN cl = Heard
  PROVE  Whole(s, [cl EXCEPT ![c] = Lists!SettleRoots(@, "failed")], mail, ln, W)
<1> DEFINE u == cl[c]
           v == Lists!SettleRoots(u, "failed")
           cm == [cl EXCEPT ![c] = v]
           q == mail[c]
<1>1. c \in Heard /\ c \in Conns /\ c \notin Pages BY HostAssumption DEF Heard
<1>2. Well(s, W, cl, {}) /\ mail \in [Conns -> Seq(Mail(W))] BY DEF Whole, Posted
<1>3. Face(s, u, q, ln, W, c) BY <1>1 DEF Whole
<1>4. ListerKept(s, u, q, c) /\ LinkSound(s, u, q, ln, c) BY <1>3 DEF Face
<1> HIDE DEF u, q
<1>5. u \in ListerClients BY <1>4 DEF ListerKept
<1>6. /\ v \in ListerClients /\ v.conn = u.conn /\ v.stopped = u.stopped /\ v.pending = u.pending
      /\ ~v.rootsPending /\ v.seq = u.seq /\ v.offset = u.offset /\ u.seq \in Nat
      /\ v.version = u.version /\ v.next = u.next /\ v.sessions = u.sessions /\ v.more = u.more
  BY <1>5 DEF ListerClients, Lists!SettleRoots
<1> HIDE DEF v
<1>7. ListerKept(s, v, q, c) BY <1>4, <1>6 DEF ListerKept, Stretch
<1>8. LinkSound(s, v, q, ln, c) BY <1>4, <1>6 DEF LinkSound, Deaf
<1>9. Face(s, v, q, ln, W, c) BY <1>1, <1>7, <1>8 DEF Face
<1>10. << >> \in Seq(Mail(W)) /\ \A m \in ToSet(<< >>) : MessageSound(W, cm, c, m) BY DEF ToSet
<1>11. Post(mail, ln, c, << >>) = mail BY <1>1, <1>2, PostNone
<1>12. c \in Listers => cl[c].seq \in Nat /\ v.seq \in Nat /\ Moves(cl[c], v)
  BY <1>6 DEF Moves, u
<1>13. \A d \in Conns : d # c => s.conn[d] = s.conn[d] /\ (d \in ln <=> d \in ln) OBVIOUS
<1>14. cm[c] = v /\ \A d \in Heard : d # c => cm[d] = cl[d] BY <1>1
<1> HIDE DEF cm
<1>15. c \in Listers => cl[c].seq \in Nat /\ cm[c].seq \in Nat /\ Moves(cl[c], cm[c])
  BY <1>12, <1>14
<1>16. Face(s, cm[c], Post(mail, ln, c, << >>)[c], ln, W, c) BY <1>9, <1>11, <1>14 DEF q
<1>17. Whole(s, cm, Post(mail, ln, c, << >>), ln, W)
  BY <1>1, <1>2, <1>10, <1>13, <1>14, <1>15, <1>16, ClientActs
<1> QED BY <1>11, <1>17 DEF v, u, cm

\* Whoever has no client says something.
LEMMA RawKeeps ==
  ASSUME NEW W, NEW cl, NEW mail, NEW ln, NEW s, Whole(s, cl, mail, ln, W), NEW c \in Conns \ Heard,
         NEW k \in DOMAIN W
  PROVE  Whole(s, cl, Post(mail, ln, c, << Raw(W[k].frame) >>), ln, W)
<1> DEFINE m == Raw(W[k].frame)
           post == Post(mail, ln, c, << m >>)
<1>1. c \notin Listers /\ c \in Conns BY DEF Heard
<1>2. Well(s, W, cl, {}) /\ Posted(W, cl, mail) BY DEF Whole
<1>3. m \in Mail(W) /\ m.t = "raw" BY DEF Raw, Mail
<1> HIDE DEF m
<1>4. << m >> \in Seq(Mail(W)) /\ ToSet(<< m >>) = {m} BY <1>3, OneMessage
<1>5. mail \in [Conns -> Seq(Mail(W))] /\ \A l \in DOMAIN mail[c] : MessageSound(W, cl, c, mail[c][l])
  BY <1>1, <1>2 DEF Posted
<1>6. Posts(W, mail, ln, c, << m >>, post) BY <1>1, <1>4, <1>5, PostIs
<1>7. MessageSound(W, cl, c, m) BY <1>3 DEF MessageSound
<1> HIDE DEF post
<1>8. \A l \in DOMAIN post[c] : MessageSound(W, cl, c, post[c][l])
  BY <1>4, <1>5, <1>6, <1>7 DEF Posts
<1>9. \A d \in Conns : d # c => /\ s.conn[d] = s.conn[d] /\ post[d] = mail[d]
                                /\ (d \in ln <=> d \in ln) /\ (d \in Heard => cl[d] = cl[d])
  BY <1>6 DEF Posts
<1>10. post \in [Conns -> Seq(Mail(W))] BY <1>6 DEF Posts
<1>11. Whole(s, cl, post, ln, W) BY <1>1, <1>2, <1>8, <1>9, <1>10, OneSide
<1> QED BY <1>11 DEF post, m

\* A page makes a promise that is not there yet.
LEMMA PlacedIs ==
  ASSUME NEW W, NEW s, NEW u, NEW q, NEW r, NEW c, PageKept(s, u, q, W, c),
         NEW e \in Entries, MayLaunch(u, e.kind, e.file),
         Owns(W, c, e.id), Fits(W, e.id, e.kind, e.file),
         \A d \in u.pending \cup {e} : Comes(s, r, c, d.id)
  PROVE  LET v == Placed(u, e)
         IN PageKept(s, v, r, W, c) /\ v.conn = u.conn /\ v.stopped = u.stopped
<1> DEFINE P == u.pending \cup {e}
           I == IF e.kind = "resume" THEN u.inflight ELSE u.inflight \cup {<< e.kind, e.file >>}
           R == IF e.kind = "resume" THEN u.resuming \cup {e.file} ELSE u.resuming
           v == Placed(u, e)
<1>1. u \in PageClients /\ IsFiniteSet(u.pending) BY DEF PageKept
<1>2. e.kind \in PageWishes /\ e.file \in Files BY DEF Entries
<1>3. \A d \in u.pending : ~(d.kind = e.kind /\ d.file = e.file)
  <2> SUFFICES ASSUME NEW d \in u.pending, d.kind = e.kind, d.file = e.file PROVE FALSE OBVIOUS
  <2>1. CASE e.kind = "resume" BY <2>1 DEF PageKept, MayLaunch
  <2>2. CASE e.kind # "resume" BY <2>2 DEF PageKept, MayLaunch
  <2> QED BY <2>1, <2>2
<1>4. P \in SUBSET Entries /\ IsFiniteSet(P)
  <2>1. u.pending \in SUBSET Entries BY <1>1 DEF PageClients
  <2>2. IsFiniteSet(P) BY <1>1, FS_AddElement
  <2> QED BY <2>1, <2>2
<1>5. I \in SUBSET (PageWishes \X Files) /\ R \in SUBSET Files BY <1>1, <1>2 DEF PageClients
<1>6. I = {<< d.kind, d.file >> : d \in {x \in P : x.kind # "resume"}} BY DEF PageKept
<1>7. R = {d.file : d \in {x \in P : x.kind = "resume"}} BY DEF PageKept
<1>8. v = [u EXCEPT !.pending = P, !.inflight = I, !.resuming = R] BY DEF Placed
<1>9. \A d \in P : Owns(W, c, d.id) /\ Fits(W, d.id, d.kind, d.file) /\ Comes(s, r, c, d.id)
  BY DEF PageKept
<1>10. \A d, x \in P : d.kind = x.kind /\ d.file = x.file => d = x BY <1>3 DEF PageKept
<1> HIDE DEF P, I, R, v
<1>11. /\ v \in PageClients /\ v.conn = u.conn /\ v.stopped = u.stopped
       /\ v.pending = P /\ v.inflight = I /\ v.resuming = R
  BY <1>1, <1>4, <1>5, <1>8 DEF PageClients
<1>12. u.conn = "ready" /\ ~u.stopped BY DEF MayLaunch
<1>13. PageKept(s, v, r, W, c)
  BY <1>4, <1>6, <1>7, <1>9, <1>10, <1>11, <1>12 DEF PageKept
<1> QED BY <1>11, <1>13 DEF v

\* A promise is settled, and what comes for the others still does.
LEMMA SettledIs ==
  ASSUME NEW W, NEW s, NEW t, NEW u, NEW q, NEW r, NEW c, PageKept(s, u, q, W, c),
         NEW e \in u.pending, \A d \in u.pending \ {e} : Comes(t, r, c, d.id)
  PROVE  LET v == Settled(u, e)
         IN PageKept(t, v, r, W, c) /\ v.conn = u.conn /\ v.stopped = u.stopped
<1> DEFINE P == u.pending \ {e}
           I == IF e.kind = "resume" THEN u.inflight ELSE u.inflight \ {<< e.kind, e.file >>}
           R == IF e.kind = "resume" THEN u.resuming \ {e.file} ELSE u.resuming
           v == Settled(u, e)
<1>1. u \in PageClients /\ IsFiniteSet(u.pending) BY DEF PageKept
<1>2. \A d \in P : ~(d.kind = e.kind /\ d.file = e.file) BY DEF PageKept
<1>3. P \in SUBSET Entries /\ IsFiniteSet(P)
  <2>1. u.pending \in SUBSET Entries BY <1>1 DEF PageClients
  <2>2. IsFiniteSet(P) BY <1>1, FS_RemoveElement
  <2> QED BY <2>1, <2>2
<1>4. I \in SUBSET (PageWishes \X Files) /\ R \in SUBSET Files BY <1>1 DEF PageClients
<1>5. I = {<< d.kind, d.file >> : d \in {x \in P : x.kind # "resume"}} BY <1>2 DEF PageKept
<1>6. R = {d.file : d \in {x \in P : x.kind = "resume"}} BY <1>2 DEF PageKept
<1>7. v = [u EXCEPT !.pending = P, !.inflight = I, !.resuming = R] BY DEF Settled
<1>8. \A d \in P : Owns(W, c, d.id) /\ Fits(W, d.id, d.kind, d.file) /\ Comes(t, r, c, d.id)
  BY DEF PageKept
<1>9. \A d, x \in P : d.kind = x.kind /\ d.file = x.file => d = x BY DEF PageKept
<1>10. u.conn # "ready" \/ u.stopped => P = {} BY DEF PageKept
<1> HIDE DEF P, I, R, v
<1>11. /\ v \in PageClients /\ v.conn = u.conn /\ v.stopped = u.stopped
       /\ v.pending = P /\ v.inflight = I /\ v.resuming = R
  BY <1>1, <1>3, <1>4, <1>7 DEF PageClients
<1>12. PageKept(t, v, r, W, c) BY <1>3, <1>5, <1>6, <1>8, <1>9, <1>10, <1>11 DEF PageKept
<1> QED BY <1>11, <1>12 DEF v

\* Who listens has a socket at both ends, or is told of the end; so what is said
\* either arrives, or does not matter any more.
LEMMA SaidComes ==
  ASSUME NEW W, NEW mail \in [Conns -> Seq(Mail(W))], NEW s, NEW u, NEW ln, NEW c \in Conns,
         LinkSound(s, u, mail[c], ln, c), ~Deaf(u), u.conn # "connecting", NEW ms \in Seq(Mail(W))
  PROVE  LET r == Post(mail, ln, c, ms)[c]
         IN /\ \A id \in AllIds : Comes(s, mail[c], c, id) => Comes(s, r, c, id)
            /\ \A m \in ToSet(ms) : Comes(s, r, c, m.id)
<1> DEFINE post == Post(mail, ln, c, ms)
<1>1. Posts(W, mail, ln, c, ms, post) BY PostIs
<1>2. (c \in ln /\ s.conn[c].open) \/ Ended(s, c) BY DEF LinkSound
<1> HIDE DEF post
<1>3. \A id \in AllIds : Comes(s, mail[c], c, id) => Comes(s, post[c], c, id) BY <1>1 DEF Posts, Comes
<1>4. ASSUME NEW m \in ToSet(ms) PROVE Comes(s, post[c], c, m.id)
  <2>1. CASE Ended(s, c) BY <2>1 DEF Ended, Comes, Pledged
  <2>2. CASE c \in ln /\ s.conn[c].open BY <1>1, <2>2 DEF Posts, Comes
  <2> QED BY <1>2, <2>1, <2>2
<1> QED BY <1>3, <1>4 DEF post

\* sendPrompt(), sendStop() and resume() of a page.
LEMMA AskWriteKeeps ==
  ASSUME NEW W, NEW cl, NEW mail, NEW ln, NEW s, Whole(s, cl, mail, ln, W), DOMAIN cl = Heard,
         NEW i \in DOMAIN W, i \in Nat, NEW c \in Pages, W[i].by = c,
         MayLaunch(cl[c], W[i].kind, W[i].file)
  PROVE  LET e == Entry(<< "write", i >>, W[i].kind, W[i].file)
             m == Request(<< "write", i >>, W[i].kind, W[i].file, W[i].n)
         IN Whole(s, [cl EXCEPT ![c] = Placed(@, e)], Post(mail, ln, c, << m >>), ln, W)
<1> DEFINE id == << "write", i >>
           e == Entry(id, W[i].kind, W[i].file)
           m == Request(id, W[i].kind, W[i].file, W[i].n)
           u == cl[c]
           v == Placed(u, e)
           cm == [cl EXCEPT ![c] = v]
           r == Post(mail, ln, c, << m >>)[c]
<1>1. c \in Heard /\ c \in Conns /\ c \notin Listers BY HostAssumption DEF Heard
<1>2. Well(s, W, cl, {}) /\ mail \in [Conns -> Seq(Mail(W))] BY DEF Whole, Posted
<1>3. W[i].kind \in PageWishes /\ W[i].file \in Files /\ W[i].n \in Nat
  BY <1>2 DEF Well, Sound, WishesSound
<1>4. id \in AllIds /\ id[1] = "write" /\ id[2] = i BY DEF AllIds
<1>5. Owns(W, c, id) /\ Fits(W, id, W[i].kind, W[i].file) BY DEF Owns, Fits
<1> HIDE DEF id
<1>6. e \in Entries /\ e.id = id /\ e.kind = W[i].kind /\ e.file = W[i].file
  BY <1>3, <1>4 DEF Entry, Entries
<1>7. /\ m.t = "request" /\ m.id = id /\ m.kind = W[i].kind /\ m.file = W[i].file /\ m.n = W[i].n
      /\ m \in Mail(W)
  BY <1>3, <1>4 DEF Request, Message, Mail, Kinds, FileNames
<1> HIDE DEF e, m
<1>8. RequestSound(W, cm, c, m)
  BY <1>3, <1>4, <1>5, <1>7 DEF RequestSound, Kinds, FileNames
<1>9. << m >> \in Seq(Mail(W)) /\ ToSet(<< m >>) = {m} BY <1>7, OneMessage
<1>10. \A x \in ToSet(<< m >>) : MessageSound(W, cm, c, x) BY <1>1, <1>7, <1>8, <1>9 DEF MessageSound
<1>11. Face(s, u, mail[c], ln, W, c) BY <1>1 DEF Whole
<1>12. PageKept(s, u, mail[c], W, c) /\ LinkSound(s, u, mail[c], ln, c) BY <1>11 DEF Face
<1>13. u.conn = "ready" /\ ~u.stopped /\ MayLaunch(u, e.kind, e.file) BY <1>6 DEF MayLaunch
<1> HIDE DEF u
<1>14. ~Deaf(u) /\ u.conn # "connecting" BY <1>13 DEF Deaf
<1>15. /\ \A x \in AllIds : Comes(s, mail[c], c, x) => Comes(s, r, c, x)
       /\ Comes(s, r, c, id)
  <2>1. /\ \A x \in AllIds : Comes(s, mail[c], c, x) => Comes(s, r, c, x)
        /\ \A x \in ToSet(<< m >>) : Comes(s, r, c, x.id)
    BY <1>1, <1>2, <1>9, <1>12, <1>14, SaidComes
  <2> HIDE DEF r
  <2> QED BY <1>7, <1>9, <2>1
<1> HIDE DEF r
<1>16. \A d \in u.pending \cup {e} : Comes(s, r, c, d.id)
  BY <1>6, <1>12, <1>15 DEF PageKept, PageClients, Entries
<1>17. Owns(W, c, e.id) /\ Fits(W, e.id, e.kind, e.file) BY <1>5, <1>6
<1>18. PageKept(s, v, r, W, c) /\ v.conn = u.conn /\ v.stopped = u.stopped
  BY <1>6, <1>12, <1>13, <1>16, <1>17, PlacedIs
<1>19. cm[c] = v /\ \A d \in Heard : d # c => cm[d] = cl[d] BY <1>1
<1> HIDE DEF v, cm
<1>20. LinkSound(s, v, r, ln, c)
  <2>1. v.conn # "connecting" /\ ~Deaf(v) BY <1>13, <1>18 DEF Deaf
  <2>2. \A k \in DOMAIN r : r[k].t = "bye" => Ended(s, c)
    <3> DEFINE post == Post(mail, ln, c, << m >>)
    <3>1. Posts(W, mail, ln, c, << m >>, post) BY <1>1, <1>2, <1>9, PostIs
    <3> HIDE DEF post
    <3>2. \A k \in DOMAIN post[c] : post[c][k].t = "bye" => Ended(s, c)
      BY <1>7, <1>9, <1>12, <1>14, <3>1 DEF Posts, LinkSound
    <3> QED BY <3>2 DEF post, r
  <2> QED BY <1>12, <1>14, <2>1, <2>2 DEF LinkSound
<1>21. Face(s, cm[c], Post(mail, ln, c, << m >>)[c], ln, W, c)
  BY <1>1, <1>18, <1>19, <1>20 DEF Face, r
<1>22. c \in Listers => cl[c].seq \in Nat /\ cm[c].seq \in Nat /\ Moves(cl[c], cm[c]) BY <1>1
<1>23. \A d \in Conns : d # c => s.conn[d] = s.conn[d] /\ (d \in ln <=> d \in ln) OBVIOUS
<1>24. Whole(s, cm, Post(mail, ln, c, << m >>), ln, W)
  BY <1>1, <1>2, <1>9, <1>10, <1>19, <1>21, <1>22, <1>23, ClientActs
<1> QED BY <1>24 DEF cm, v, u, m, e, id

\* From s to t the frame f, and nothing else, was taken off the wire of c.
Delivers(W, u, s, t, c, f) ==
  /\ t \in Servers /\ Kept(s, t, {"conn"}) /\ \A d \in Conns : d # c => t.conn[d] = s.conn[d]
  /\ f \in Frames /\ FrameSound(W, c, f) /\ (f.t = "sessions" => PageSound(s.versions, f, u))
  /\ t.conn[c].open = s.conn[c].open /\ t.conn[c].authed = s.conn[c].authed
  /\ Ended(s, c) /\ f.t # "close" => Ended(t, c)
  /\ \A q : \A id \in AllIds \ {f.id} : Comes(s, q, c, id) /\ f.t # "close" => Comes(t, q, c, id)

LEMMA ReadIs ==
  ASSUME NEW W, NEW cl, NEW s, Well(s, W, cl, {}), NEW c \in Conns, s.conn[c].wire # << >>
  PROVE  LET t == [s EXCEPT !.conn[c].wire = Tail(@)]
         IN /\ Well(t, W, cl, {}) /\ Delivers(W, cl[c], s, t, c, Head(s.conn[c].wire))
            /\ t.task = s.task /\ t.versions = s.versions /\ t.launched = s.launched
<1> DEFINE w == s.conn[c].wire
           r == Tail(w)
           f == Head(w)
           x == [s.conn[c] EXCEPT !.wire = r]
           t == [s EXCEPT !.conn[c] = x]
<1>1. s \in Servers /\ s.conn[c] \in Sides /\ w \in Seq(Frames) BY VersionsAre, SidesAre
<1>2. /\ f \in Frames /\ r \in Seq(Frames) /\ 1 \in DOMAIN w /\ w[1] = f
      /\ \A k \in DOMAIN r : k + 1 \in DOMAIN w /\ r[k] = w[k + 1]
      /\ \A k \in DOMAIN w : k = 1 \/ (k - 1 \in DOMAIN r /\ r[k - 1] = w[k])
  BY <1>1, TailOf
<1>3. [s EXCEPT !.conn[c].wire = Tail(@)] = t OBVIOUS
<1>4. FrameSound(W, c, f) /\ (f.t = "sessions" => PageSound(s.versions, f, cl[c]))
  <2>1. WiresSound(s, W) /\ PagesSound(s, cl) BY DEF Well, Sound
  <2> QED BY <1>2, <2>1 DEF WiresSound, PagesSound
<1> HIDE DEF r, f
<1>5. /\ x \in Sides /\ x.inflight = s.conn[c].inflight /\ x.authed = s.conn[c].authed
      /\ x.open = s.conn[c].open /\ x.wire = r
  BY <1>1, <1>2 DEF Sides
<1> HIDE DEF x
<1>6. \A k \in DOMAIN x.wire : \/ x.wire[k].t = "close" /\ x.wire[k].id = NoId
                               \/ \E l \in DOMAIN s.conn[c].wire : x.wire[k] = s.conn[c].wire[l]
  BY <1>2, <1>5
<1>7. Well(t, W, cl, {}) /\ Kept(s, t, {"conn"}) /\ t.conn[c] = x
      /\ \A d \in Conns : d # c => t.conn[d] = s.conn[d]
  BY <1>5, <1>6, ConnKeeps
<1> HIDE DEF t
<1>8. t.task = s.task /\ t.versions = s.versions /\ t.launched = s.launched /\ t \in Servers
  BY <1>7, VersionsAre DEF Kept, ServerFields
<1>9. t.conn[c].wire = r /\ t.conn[c].open = s.conn[c].open /\ t.conn[c].authed = s.conn[c].authed
  BY <1>5, <1>7
<1>10. \A k \in DOMAIN w : w[k] = f \/ \E l \in DOMAIN t.conn[c].wire : t.conn[c].wire[l] = w[k]
  BY <1>2, <1>9
<1>11. Ended(s, c) /\ f.t # "close" => Ended(t, c) BY <1>10 DEF Ended
<1>12. \A id \in AllIds \ {f.id} : Pledged(s, c, id) /\ f.t # "close" => Pledged(t, c, id)
  BY <1>8, <1>9, <1>10 DEF Pledged
<1>13. \A q : \A id \in AllIds \ {f.id} : Comes(s, q, c, id) /\ f.t # "close" => Comes(t, q, c, id)
  BY <1>9, <1>12 DEF Comes
<1>14. Delivers(W, cl[c], s, t, c, f)
  BY <1>2, <1>4, <1>7, <1>8, <1>9, <1>11, <1>13 DEF Delivers
<1> QED BY <1>3, <1>7, <1>8, <1>14 DEF f

\* The connection of a page ends: no promise is left.
LEMMA FailedIs ==
  ASSUME NEW W, NEW s, NEW t, NEW u, NEW q, NEW c, PageKept(s, u, q, W, c),
         NEW v, v = FailConnection(u) \/ v = [RejectAllPending(u) EXCEPT !.conn = "closed"]
  PROVE  PageKept(t, v, q, W, c) /\ Deaf(v) /\ v.conn # "connecting"
<1> DEFINE n == RejectAllPending(u)
<1>1. /\ n \in PageClients /\ n.pending = {} /\ n.inflight = {} /\ n.resuming = {}
  BY RejectedIs
<1>2. v = [n EXCEPT !.conn = "error"] \/ v = [n EXCEPT !.conn = "closed"] BY DEF FailConnection
<1> HIDE DEF n
<1>3. /\ v \in PageClients /\ v.pending = {} /\ v.inflight = {} /\ v.resuming = {}
      /\ v.conn \in {"closed", "error"}
  BY <1>1, <1>2 DEF PageClients, ConnStates
<1>4. PageKept(t, v, q, W, c) BY <1>3, IdlePage
<1> QED BY <1>3, <1>4 DEF Deaf

\* One kind and file have one promise.
LEMMA OneEntry ==
  ASSUME NEW W, NEW c \in Pages, NEW d \in Entries, NEW e \in Entries, d.id = e.id,
         Owns(W, c, d.id), Fits(W, d.id, d.kind, d.file), Fits(W, e.id, e.kind, e.file)
  PROVE  d = e
<1>1. c \notin Listers BY HostAssumption
<1>2. d.id[1] = "write" BY <1>1 DEF Owns
<1>3. d.kind = e.kind /\ d.file = e.file BY <1>2 DEF Fits
<1> QED BY <1>3 DEF Entries

\* A page hears one frame: its promise is settled, or what it waits for still comes.
LEMMA PageHears ==
  ASSUME NEW W, NEW c \in Pages, NEW s, NEW t, NEW u, NEW q, NEW f,
         PageKept(s, u, q, W, c), Delivers(W, u, s, t, c, f), ~Deaf(u)
  PROVE  LET v == Hears(u, f)
         IN /\ PageKept(t, v, q, W, c)
            /\ v.conn = "connecting" => u.conn = "connecting"
            /\ ~Deaf(v) => f.t # "close" /\ (v.conn # "connecting" => u.conn # "connecting")
<1> DEFINE v == Hears(u, f)
           Good(n) == /\ PageKept(t, n, q, W, c)
                      /\ n.conn = "connecting" => u.conn = "connecting"
                      /\ ~Deaf(n) => f.t # "close" /\ (n.conn # "connecting" => u.conn # "connecting")
<1>1. c \notin Listers BY HostAssumption
<1>2. FrameSound(W, c, f) /\ f \in Frames BY DEF Delivers
<1>3. u \in PageClients /\ \A e \in u.pending : e \in Entries /\ e.id # NoId
  BY DEF PageKept, PageClients, Owns, NoId
<1>4. f.t \in {"welcome", "ack", "error", "close"}
  <2>1. f.t \in {"error", "close", "ack", "welcome", "models-list", "roots-list", "sessions"}
    BY <1>2 DEF Frames, Answers, ListAnswers
  <2>2. f.id # NoId => f.id[1] = "write" BY <1>1, <1>2 DEF FrameSound, Owns
  <2> QED BY <1>2, <2>1, <2>2 DEF FrameSound
<1>5. ASSUME NEW n, n = FailConnection(u) \/ n = [RejectAllPending(u) EXCEPT !.conn = "closed"]
      PROVE  Good(n)
  BY <1>5, FailedIs
<1>6. ASSUME f.t # "close", \A e \in u.pending : e.id # f.id PROVE PageKept(t, u, q, W, c)
  <2>1. \A e \in u.pending : Comes(t, q, c, e.id)
    BY <1>3, <1>6 DEF PageKept, Delivers, Entries
  <2> QED BY <2>1 DEF PageKept
<1>7. ASSUME f.t # "close", \A e \in u.pending : e.id # f.id PROVE Good(u)
  BY <1>6, <1>7
<1>8. ASSUME f.t # "close", NEW e \in u.pending, e.id = f.id PROVE Good(Settled(u, e))
  <2>1. \A d \in u.pending \ {e} : d.id # f.id
    <3> SUFFICES ASSUME NEW d \in u.pending, d.id = f.id PROVE d = e OBVIOUS
    <3>1. d \in Entries /\ e \in Entries /\ d.id = e.id /\ Owns(W, c, d.id)
          /\ Fits(W, d.id, d.kind, d.file) /\ Fits(W, e.id, e.kind, e.file)
      BY <1>3, <1>8 DEF PageKept
    <3> QED BY <3>1, OneEntry
  <2>2. \A d \in u.pending \ {e} : Comes(t, q, c, d.id)
    BY <1>3, <1>8, <2>1 DEF PageKept, Delivers, Entries
  <2> DEFINE n == Settled(u, e)
  <2>3. PageKept(t, n, q, W, c) /\ n.conn = u.conn /\ n.stopped = u.stopped BY <2>2, SettledIs
  <2> HIDE DEF n
  <2>4. Good(n) BY <1>8, <2>3
  <2> QED BY <2>4 DEF n
<1> HIDE DEF Good
<1> SUFFICES Good(v) BY DEF Good
<1>9. CASE f.t = "welcome"
  <2>1. f.id = NoId BY <1>2, <1>9 DEF FrameSound
  <2>2. CASE u.conn # "authenticating"
    <3>1. v = u
      <4>1. v = [u EXCEPT !.conn = u.conn] BY <1>9, <2>2 DEF Hears
      <4> QED BY <1>3, <4>1 DEF PageClients
    <3> QED BY <1>3, <1>7, <1>9, <2>1, <3>1
  <2>3. CASE u.conn = "authenticating"
    <3>1. v = [u EXCEPT !.conn = "ready"] BY <1>9, <2>3 DEF Hears
    <3>2. u.pending = {} /\ u.inflight = {} /\ u.resuming = {} BY <2>3 DEF PageKept
    <3> HIDE DEF v
    <3>3. /\ v \in PageClients /\ v.pending = {} /\ v.inflight = {} /\ v.resuming = {}
          /\ v.conn = "ready"
      BY <1>3, <3>1, <3>2 DEF PageClients, ConnStates
    <3>4. PageKept(t, v, q, W, c) BY <3>3, IdlePage
    <3>5. Good(v) BY <1>9, <2>3, <3>3, <3>4 DEF Good
    <3> QED BY <3>5 DEF v
  <2> QED BY <2>2, <2>3
<1>10. CASE f.t = "ack"
  <2> DEFINE e == Entry(f.id, f.kind, f.file)
  <2>1. v = IF e \in u.pending THEN Settled(u, e) ELSE u
    <3>1. v = HandleAck(u, f) BY <1>10 DEF Hears
    <3> QED BY <3>1 DEF HandleAck
  <2>2. CASE e \in u.pending
    <3>1. e.id = f.id BY DEF Entry
    <3> HIDE DEF e, v
    <3> QED BY <1>8, <1>10, <2>1, <2>2, <3>1
  <2>3. CASE e \notin u.pending
    <3>1. \A d \in u.pending : d.id # f.id
      <4> SUFFICES ASSUME NEW d \in u.pending, d.id = f.id PROVE FALSE OBVIOUS
      <4>1. d.id[1] = "write" /\ Fits(W, d.id, d.kind, d.file) BY <1>1 DEF PageKept, Owns
      <4>2. f.id # NoId BY <1>3
      <4>3. Fits(W, f.id, f.kind, f.file) BY <1>2, <1>10, <4>2 DEF FrameSound
      <4>4. d.kind = f.kind /\ d.file = f.file BY <4>1, <4>3 DEF Fits
      <4>5. d = e BY <1>3, <4>4 DEF Entries, Entry
      <4> QED BY <2>3, <4>5
    <3> QED BY <1>7, <1>10, <2>1, <2>3, <3>1
  <2> QED BY <2>2, <2>3
<1>11. CASE f.t = "error"
  <2> DEFINE mine == {e \in u.pending : e.id = f.id}
             one  == CHOOSE e \in mine : TRUE
  <2>1. v = HandleError(u, f) BY <1>11 DEF Hears
  <2>2. \/ v = FailConnection(u)
        \/ f.id # NoId /\ mine # {} /\ v = Settled(u, one)
        \/ ~(f.id # NoId /\ mine # {}) /\ v = u
    BY <2>1 DEF HandleError
  <2>3. mine # {} => one \in u.pending /\ one.id = f.id OBVIOUS
  <2>4. f.id = NoId \/ mine = {} => \A e \in u.pending : e.id # f.id BY <1>3
  <2> HIDE DEF one, mine, v
  <2>5. Good(v) BY <1>5, <1>7, <1>8, <1>11, <2>2, <2>3, <2>4
  <2> QED BY <2>5
<1>12. CASE f.t = "close"
  <2>1. v = HandleClose(u, f.code) BY <1>12 DEF Hears
  <2>2. v = FailConnection(u) \/ v = [RejectAllPending(u) EXCEPT !.conn = "closed"]
    BY <2>1 DEF HandleClose
  <2> QED BY <1>5, <2>2
<1> QED BY <1>4, <1>9, <1>10, <1>11, <1>12

\* Where c stands after it heard a frame, and said what follows.
LEMMA LinkHears ==
  ASSUME NEW W, NEW c \in Heard, NEW s, NEW t, NEW u, NEW v, NEW q, NEW r, NEW ln, NEW on, NEW f,
         LinkSound(s, u, q, ln, c), f.t # "close" => (c \in on <=> c \in ln), Delivers(W, u, s, t, c, f),
         \/ v = u /\ (f.t = "close" => Deaf(u))
         \/ /\ ~Deaf(u)
            /\ v.conn = "connecting" => u.conn = "connecting"
            /\ ~Deaf(v) => f.t # "close" /\ (v.conn # "connecting" => u.conn # "connecting"),
         \A k \in DOMAIN r : r[k].t = "bye" => \E l \in DOMAIN q : q[l].t = "bye"
  PROVE  LinkSound(t, v, r, on, c)
<1>1. t.conn[c].open = s.conn[c].open /\ t.conn[c].authed = s.conn[c].authed
      /\ (Ended(s, c) /\ f.t # "close" => Ended(t, c))
  BY DEF Delivers
<1>2. v.conn = "connecting" => ~t.conn[c].open /\ ~t.conn[c].authed BY <1>1 DEF LinkSound
<1>3. ~Deaf(v) => f.t # "close" OBVIOUS
<1>4. ~Deaf(v) /\ v.conn # "connecting" => (c \in ln /\ t.conn[c].open) \/ Ended(t, c)
  BY <1>1 DEF LinkSound
<1>5. (\E k \in DOMAIN r : r[k].t = "bye") => Deaf(v) \/ Ended(t, c) BY <1>1 DEF LinkSound
<1> QED BY <1>2, <1>3, <1>4, <1>5 DEF LinkSound

\* The server, and the open sockets, after c read the frame f.
WithoutHead(s, c) == [s EXCEPT !.conn[c].wire = Tail(@)]
After(ln, c, f) == IF f.t = "close" THEN ln \ {c} ELSE ln

\* A page reads a frame.
LEMMA ReadPageKeeps ==
  ASSUME NEW W, NEW cl, NEW mail, NEW ln, NEW s, Whole(s, cl, mail, ln, W), DOMAIN cl = Heard,
         NEW c \in Pages, s.conn[c].wire # << >>
  PROVE  LET t  == WithoutHead(s, c)
             f  == Head(s.conn[c].wire)
             on == After(ln, c, f)
         IN /\ Whole(t, [cl EXCEPT ![c] = Hears(@, f)], mail, on, W)
            /\ t.launched = s.launched
<1> USE DEF WithoutHead, After
<1> DEFINE f == Head(s.conn[c].wire)
           t == [s EXCEPT !.conn[c].wire = Tail(@)]
           on == IF f.t = "close" THEN ln \ {c} ELSE ln
           u == cl[c]
           v == Hears(u, f)
           cm == [cl EXCEPT ![c] = v]
           q == mail[c]
<1>1. c \in Heard /\ c \in Conns /\ c \notin Listers BY HostAssumption DEF Heard
<1>2. Well(s, W, cl, {}) /\ mail \in [Conns -> Seq(Mail(W))] BY DEF Whole, Posted
<1>3. /\ Well(t, W, cl, {}) /\ Delivers(W, u, s, t, c, f)
      /\ t.task = s.task /\ t.versions = s.versions /\ t.launched = s.launched
  BY <1>1, <1>2, ReadIs
<1>4. Face(s, u, q, ln, W, c) BY <1>1 DEF Whole
<1>5. LinkSound(s, u, q, ln, c) /\ PageKept(s, u, q, W, c) BY <1>4 DEF Face
<1>6. cm[c] = v /\ \A d \in Heard : d # c => cm[d] = cl[d] BY <1>1
<1>7. \A d \in Conns : d # c => t.conn[d] = s.conn[d] /\ (d \in on <=> d \in ln)
  BY <1>3 DEF Delivers
<1>8. Well(t, W, cl, {}) /\ t.task = s.task /\ t.versions = s.versions BY <1>3
<1>9. f.t # "close" => (c \in on <=> c \in ln) OBVIOUS
<1>10. \A k \in DOMAIN q : q[k].t = "bye" => \E l \in DOMAIN q : q[l].t = "bye" OBVIOUS
<1>11. Delivers(W, u, s, t, c, f) BY <1>3
<1>12. s.versions \in Seq(Listings) /\ Longer(s.versions, s.versions) BY <1>2, VersionsAre
<1> HIDE DEF t, cm, u, q, on
<1>13. Face(t, v, q, on, W, c)
  <2>1. CASE Deaf(u)
    <3>1. v = u BY <2>1 DEF Hears
    <3> HIDE DEF f, v
    <3>2. LinkSound(t, u, q, on, c) BY <1>1, <1>5, <1>9, <1>10, <1>11, <2>1, LinkHears
    <3>3. Face(t, u, q, on, W, c) BY <1>1, <1>4, <1>8, <1>12, <2>1, <3>2, FaceOn
    <3> QED BY <3>1, <3>3
  <2>2. CASE ~Deaf(u)
    <3>1. /\ PageKept(t, v, q, W, c)
          /\ v.conn = "connecting" => u.conn = "connecting"
          /\ ~Deaf(v) => f.t # "close" /\ (v.conn # "connecting" => u.conn # "connecting")
      BY <1>5, <1>11, <2>2, PageHears
    <3> HIDE DEF f, v
    <3>2. LinkSound(t, v, q, on, c) BY <1>1, <1>5, <1>9, <1>10, <1>11, <2>2, <3>1, LinkHears
    <3> QED BY <1>1, <3>1, <3>2 DEF Face
  <2> QED BY <2>1, <2>2
<1>14. mail \in [Conns -> Seq(Mail(W))]
       /\ \A k \in DOMAIN mail[c] : MessageSound(W, cm, c, mail[c][k])
  <2>1. \A k \in DOMAIN mail[c] : MessageSound(W, cl, c, mail[c][k]) BY <1>1 DEF Whole, Posted
  <2>2. \A m : MessageSound(W, cl, c, m) => MessageSound(W, cm, c, m)
    <3>1. c \in Listers => cl[c].seq \in Nat /\ cm[c].seq \in Nat /\ Moves(cl[c], cm[c]) BY <1>1
    <3> HIDE DEF v, f
    <3> QED BY <3>1, MailMoves
  <2> QED BY <1>2, <2>1, <2>2
<1>15. \A d \in Conns : d # c => /\ t.conn[d] = s.conn[d] /\ mail[d] = mail[d]
                                 /\ (d \in on <=> d \in ln) /\ (d \in Heard => cm[d] = cl[d])
  BY <1>6, <1>7
<1>16. Face(t, cm[c], mail[c], on, W, c) BY <1>6, <1>13 DEF q
<1>17. c \in Listers => cl[c].seq \in Nat /\ cm[c].seq \in Nat /\ Moves(cl[c], cm[c]) BY <1>1
<1> HIDE DEF v, f
<1>18. Whole(t, cm, mail, on, W) BY <1>1, <1>8, <1>14, <1>15, <1>16, <1>17, OneSide
<1> QED BY <1>3, <1>18 DEF t, cm, v, u, f, on

-------------------------------------------------------------------------------
(* Steps of a list *)

\* On its way from u to n a list client asks for the list, the roots, the models or nothing.
Asks(u, n) ==
  \/ n.seq > u.seq /\ (n.modelsPending => u.modelsPending) /\ n.rootsSeq = u.rootsSeq
  \/ /\ n.seq = u.seq /\ n.offset = u.offset
     /\ \/ n.rootsSeq = u.rootsSeq
        \/ n.rootsSeq > u.rootsSeq /\ (n.modelsPending => u.modelsPending)
\* It shows a stretch, and waits for what it waited for or what it sends.
Turns(versions, u, n, sent) ==
  /\ n \in ListerClients /\ Asks(u, n)
  /\ n.conn # "ready" \/ n.stopped => ~n.pending /\ ~n.rootsPending
  /\ n.pending /\ n.offset > 0 => n.offset = n.next
  /\ Stretch(versions, n)
  /\ n.pending => n.seq = u.seq \/ sent
  /\ n.rootsPending => n.rootsSeq = u.rootsSeq \/ sent

\* What stays of a client that asks for the list.
LEMMA InternalIs ==
  ASSUME NEW u \in ListerClients, NEW offset \in Nat, NEW sent \in BOOLEAN,
         NEW n, n = Lists!RequestSessionsInternal(u, offset, sent)
  PROVE  /\ n \in ListerClients /\ n.pending = sent /\ n.offset = offset /\ n.seq = u.seq + 1
         /\ n.conn = u.conn /\ n.stopped = u.stopped /\ n.sessions = u.sessions
         /\ n.version = u.version /\ n.more = u.more /\ n.next = u.next
         /\ n.modelsPending = u.modelsPending /\ n.rootsPending = u.rootsPending
         /\ n.rootsSeq = u.rootsSeq
<1> DEFINE k == u.seq + 1
           asks == [u EXCEPT !.pending = sent, !.offset = offset, !.asked = u.gen, !.seq = k]
           Like(m) == /\ m.pending = sent /\ m.offset = offset /\ m.seq = k
                      /\ m.conn = u.conn /\ m.stopped = u.stopped /\ m.sessions = u.sessions
                      /\ m.version = u.version /\ m.more = u.more /\ m.next = u.next
                      /\ m.modelsPending = u.modelsPending /\ m.rootsPending = u.rootsPending
                      /\ m.rootsSeq = u.rootsSeq
<1>1. k \in Nat /\ u.gen \in Nat BY DEF ListerClients
<1>2. [u EXCEPT !.pending = sent, !.offset = offset, !.asked = u.gen, !.seq = @ + 1] = asks
  BY DEF ListerClients
<1> HIDE DEF k
<1>3. asks \in ListerClients BY <1>1 DEF ListerClients
<1>4. Like(asks) BY DEF ListerClients
<1>5. n = asks \/ n = [asks EXCEPT !.page = "loading"] \/ n = [asks EXCEPT !.page = "error"]
  BY <1>2 DEF Lists!RequestSessionsInternal
<1> HIDE DEF asks
<1>6. n \in ListerClients BY <1>3, <1>5 DEF ListerClients
<1>7. Like(n) BY <1>3, <1>4, <1>5 DEF ListerClients
<1> QED BY <1>6, <1>7 DEF k

\* A client that asks for the list from its end, or from the beginning.
LEMMA InternalTurns ==
  ASSUME NEW u \in ListerClients, NEW versions, Stretch(versions, u), NEW offset \in Nat,
         NEW sent \in BOOLEAN, u.conn = "ready", ~u.stopped, offset = 0 \/ offset = u.next
  PROVE  LET n == Lists!RequestSessionsInternal(u, offset, sent)
         IN /\ Turns(versions, u, n, sent) /\ n.conn = u.conn /\ n.stopped = u.stopped
            /\ n.seq > u.seq /\ n.rootsSeq = u.rootsSeq /\ n.rootsPending = u.rootsPending
<1> DEFINE n == Lists!RequestSessionsInternal(u, offset, sent)
<1>1. /\ n \in ListerClients /\ n.pending = sent /\ n.offset = offset /\ n.seq = u.seq + 1
      /\ n.conn = u.conn /\ n.stopped = u.stopped /\ n.sessions = u.sessions
      /\ n.version = u.version /\ n.more = u.more /\ n.next = u.next
      /\ n.modelsPending = u.modelsPending /\ n.rootsPending = u.rootsPending
      /\ n.rootsSeq = u.rootsSeq
  BY InternalIs
<1> HIDE DEF n
<1>2. n.seq > u.seq /\ u.seq \in Nat BY <1>1 DEF ListerClients
<1>3. Stretch(versions, n) BY <1>1 DEF Stretch
<1>4. Asks(u, n) BY <1>1, <1>2 DEF Asks
<1>5. Turns(versions, u, n, sent) BY <1>1, <1>3, <1>4 DEF Turns
<1> QED BY <1>1, <1>2, <1>5 DEF n

\* What a list client sends names what it asks for.
LEMMA ListMailIs ==
  ASSUME NEW W, NEW c \in Listers, NEW u \in ListerClients, NEW n \in ListerClients,
         Asks(u, n), NEW sent \in BOOLEAN
  PROVE  LET ms == ListMessages(u, n, sent)
         IN /\ ms \in Seq(Mail(W))
            /\ \A m \in ToSet(ms) : m.t # "bye"
            /\ \A cm : cm[c] = n => \A m \in ToSet(ms) : MessageSound(W, cm, c, m)
            /\ n.seq > u.seq /\ sent => \E m \in ToSet(ms) : m.id = << "list", n.seq >>
            /\ n.rootsSeq > u.rootsSeq /\ sent => \E m \in ToSet(ms) : m.id = << "roots", n.rootsSeq >>
<1> DEFINE ml == Request(<< "list", n.seq >>, "list", "none", n.offset)
           mm == Request(<< "models", 1 >>, "models", "none", 0)
           mr == Request(<< "roots", n.rootsSeq >>, "roots", "none", 0)
           ms == ListMessages(u, n, sent)
<1>1. c \in Heard BY DEF Heard
<1>2. /\ u.seq \in Nat /\ n.seq \in Nat /\ n.offset \in Nat /\ u.rootsSeq \in Nat /\ n.rootsSeq \in Nat
      /\ n.modelsPending \in BOOLEAN /\ u.modelsPending \in BOOLEAN
  BY DEF ListerClients
<1>3. /\ ml.t = "request" /\ ml.id = << "list", n.seq >> /\ ml.kind = "list" /\ ml.file = "none"
      /\ ml.n = n.offset /\ ml \in Mail(W)
  BY <1>2 DEF Request, Message, Mail, Kinds, FileNames, AllIds
<1>4. /\ mm.t = "request" /\ mm.id = << "models", 1 >> /\ mm.kind = "models" /\ mm.file = "none"
      /\ mm.n = 0 /\ mm \in Mail(W)
  BY <1>2 DEF Request, Message, Mail, Kinds, FileNames, AllIds
<1>5. /\ mr.t = "request" /\ mr.id = << "roots", n.rootsSeq >> /\ mr.kind = "roots" /\ mr.file = "none"
      /\ mr.n = 0 /\ mr \in Mail(W)
  BY <1>2 DEF Request, Message, Mail, Kinds, FileNames, AllIds
<1>6. \/ n.seq > u.seq /\ sent /\ n.rootsSeq = u.rootsSeq /\ ms = << ml >>
      \/ ~(n.seq > u.seq /\ sent) /\ n.rootsSeq = u.rootsSeq /\ ms = << mm >>
      \/ n.rootsSeq > u.rootsSeq /\ ~(n.seq > u.seq /\ sent) /\ sent /\ ms = << mr >>
      \/ ~(n.seq > u.seq /\ sent) /\ ~(n.rootsSeq > u.rootsSeq /\ sent) /\ ms = << >>
  <2> HIDE DEF ml, mm, mr
  <2>1. ms = IF n.seq > u.seq /\ sent THEN << ml >>
             ELSE IF n.modelsPending /\ ~u.modelsPending THEN << mm >>
             ELSE IF n.rootsSeq > u.rootsSeq /\ sent THEN << mr >> ELSE << >>
    BY DEF ListMessages, ml, mm, mr
  <2> QED BY <1>2, <2>1 DEF Asks
<1>7. ASSUME NEW cm, cm[c] = n PROVE RequestSound(W, cm, c, ml)
  <2>1. ml.id[1] = "list" /\ ml.id[2] = n.seq BY <1>3
  <2> HIDE DEF ml
  <2>2. ml.id \in AllIds /\ ml.kind \in Kinds /\ ml.file \in FileNames /\ ml.n \in Nat
    BY <1>2, <1>3 DEF AllIds, Kinds, FileNames
  <2> QED BY <1>2, <1>3, <1>7, <2>1, <2>2 DEF RequestSound, Owns, Fits
<1>8. ASSUME NEW cm, cm[c] = n PROVE RequestSound(W, cm, c, mm)
  <2>1. mm.id[1] = "models" BY <1>4
  <2> HIDE DEF mm
  <2>2. mm.id \in AllIds /\ mm.kind \in Kinds /\ mm.file \in FileNames /\ mm.n \in Nat
    BY <1>2, <1>4 DEF AllIds, Kinds, FileNames
  <2> QED BY <1>2, <1>4, <1>8, <2>1, <2>2 DEF RequestSound, Owns, Fits
<1>9. ASSUME NEW cm, cm[c] = n PROVE RequestSound(W, cm, c, mr)
  <2>1. mr.id[1] = "roots" BY <1>5
  <2> HIDE DEF mr
  <2>2. mr.id \in AllIds /\ mr.kind \in Kinds /\ mr.file \in FileNames /\ mr.n \in Nat
    BY <1>2, <1>5 DEF AllIds, Kinds, FileNames
  <2> QED BY <1>2, <1>5, <1>9, <2>1, <2>2 DEF RequestSound, Owns, Fits
<1> HIDE DEF ml, mm, mr
<1>10. ASSUME NEW m \in {ml, mm, mr}
       PROVE  /\ m.t # "bye" /\ m \in Mail(W)
              /\ \A cm : cm[c] = n => MessageSound(W, cm, c, m)
  BY <1>1, <1>3, <1>4, <1>5, <1>7, <1>8, <1>9 DEF MessageSound
<1>11. \A m \in {ml, mm, mr} : << m >> \in Seq(Mail(W)) /\ ToSet(<< m >>) = {m}
  BY <1>10, OneMessage
<1>12. << >> \in Seq(Mail(W)) /\ ToSet(<< >>) = {} BY DEF ToSet
<1> HIDE DEF ms
<1>13. ms \in Seq(Mail(W)) /\ \A m \in ToSet(ms) : m \in {ml, mm, mr} BY <1>6, <1>11, <1>12
<1>14. n.seq > u.seq /\ sent => \E m \in ToSet(ms) : m.id = << "list", n.seq >>
  BY <1>2, <1>3, <1>6, <1>11
<1>15. n.rootsSeq > u.rootsSeq /\ sent => \E m \in ToSet(ms) : m.id = << "roots", n.rootsSeq >>
  BY <1>2, <1>5, <1>6, <1>11
<1> QED BY <1>10, <1>13, <1>14, <1>15 DEF ms

\* Of a list client that is n now, after it sent ms and its mail became r.
Says(W, t, mail, c, n, ms, r) ==
  /\ ms \in Seq(Mail(W))
  /\ \A cm : cm[c] = n => \A m \in ToSet(ms) : MessageSound(W, cm, c, m)
  /\ ListerKept(t, n, r, c)
  /\ \A k \in DOMAIN r : r[k].t = "bye" => \E l \in DOMAIN mail[c] : mail[c][l].t = "bye"

\* A list that turns from u to n, and sends what it asks for, has its answers come.
LEMMA ListerTurns ==
  ASSUME NEW W, NEW mail \in [Conns -> Seq(Mail(W))], NEW t, NEW u \in ListerClients, NEW n,
         NEW ln, NEW c \in Listers, NEW sent \in BOOLEAN,
         Turns(t.versions, u, n, sent),
         n.pending \/ n.rootsPending =>
           LinkSound(t, u, mail[c], ln, c) /\ ~Deaf(u) /\ u.conn # "connecting",
         n.pending /\ n.seq = u.seq => Comes(t, mail[c], c, << "list", u.seq >>),
         n.rootsPending /\ n.rootsSeq = u.rootsSeq => Comes(t, mail[c], c, << "roots", u.rootsSeq >>)
  PROVE  Says(W, t, mail, c, n, ListMessages(u, n, sent),
              Post(mail, ln, c, ListMessages(u, n, sent))[c])
<1> DEFINE ms == ListMessages(u, n, sent)
           post == Post(mail, ln, c, ms)
           r == post[c]
           q == mail[c]
<1>1. c \in Conns BY HostAssumption
<1>2. n \in ListerClients /\ Asks(u, n) BY DEF Turns
<1>3. /\ ms \in Seq(Mail(W)) /\ \A m \in ToSet(ms) : m.t # "bye"
      /\ \A cm : cm[c] = n => \A m \in ToSet(ms) : MessageSound(W, cm, c, m)
      /\ n.seq > u.seq /\ sent => \E m \in ToSet(ms) : m.id = << "list", n.seq >>
      /\ n.rootsSeq > u.rootsSeq /\ sent => \E m \in ToSet(ms) : m.id = << "roots", n.rootsSeq >>
  BY <1>2, ListMailIs
<1> HIDE DEF ms
<1>4. Posts(W, mail, ln, c, ms, post) BY <1>1, <1>3, PostIs
<1>5. \A k \in DOMAIN r : r[k].t = "bye" => \E l \in DOMAIN q : q[l].t = "bye"
  <2> HIDE DEF post
  <2> QED BY <1>3, <1>4 DEF Posts
<1>6. ASSUME n.pending \/ n.rootsPending
      PROVE  /\ \A id \in AllIds : Comes(t, q, c, id) => Comes(t, r, c, id)
             /\ \A m \in ToSet(ms) : Comes(t, r, c, m.id)
  BY <1>1, <1>3, <1>6, SaidComes
<1> HIDE DEF r, q
<1>7. u.seq \in Nat /\ n.seq \in Nat /\ u.rootsSeq \in Nat /\ n.rootsSeq \in Nat
  BY <1>2 DEF ListerClients
<1>8. << "list", u.seq >> \in AllIds /\ << "roots", u.rootsSeq >> \in AllIds BY <1>7 DEF AllIds
<1>9. n.pending => Comes(t, r, c, << "list", n.seq >>)
  <2>1. CASE n.seq = u.seq BY <1>6, <1>8, <2>1 DEF q
  <2>2. CASE n.seq # u.seq
    <3>1. n.pending => n.seq > u.seq /\ sent BY <1>2, <1>7, <2>2 DEF Turns, Asks
    <3> QED BY <1>3, <1>6, <3>1
  <2> QED BY <2>1, <2>2
<1>10. n.rootsPending => Comes(t, r, c, << "roots", n.rootsSeq >>)
  <2>1. CASE n.rootsSeq = u.rootsSeq BY <1>6, <1>8, <2>1 DEF q
  <2>2. CASE n.rootsSeq # u.rootsSeq
    <3>1. n.rootsPending => n.rootsSeq > u.rootsSeq /\ sent BY <1>2, <1>7, <2>2 DEF Turns, Asks
    <3> QED BY <1>3, <1>6, <3>1
  <2> QED BY <2>1, <2>2
<1>11. ListerKept(t, n, r, c) BY <1>2, <1>9, <1>10 DEF Turns, ListerKept
<1> QED BY <1>3, <1>5, <1>11 DEF r, q, ms, Says

\* The client of c turns from u to n, in a step from s to t that changes nothing else.
LEMMA ListerStep ==
  ASSUME NEW W, NEW cl, NEW mail, NEW ln, NEW s, Whole(s, cl, mail, ln, W), DOMAIN cl = Heard,
         NEW c \in Listers, NEW t, Well(t, W, cl, {}), t.task = s.task, t.versions = s.versions,
         NEW on, \A d \in Conns : d # c => t.conn[d] = s.conn[d] /\ (d \in on <=> d \in ln),
         NEW n, NEW sent \in BOOLEAN, Turns(t.versions, cl[c], n, sent),
         n.pending \/ n.rootsPending =>
           LinkSound(t, cl[c], mail[c], ln, c) /\ ~Deaf(cl[c]) /\ cl[c].conn # "connecting",
         n.pending /\ n.seq = cl[c].seq => Comes(t, mail[c], c, << "list", cl[c].seq >>),
         n.rootsPending /\ n.rootsSeq = cl[c].rootsSeq =>
           Comes(t, mail[c], c, << "roots", cl[c].rootsSeq >>),
         \A r : (\A k \in DOMAIN r : r[k].t = "bye" =>
                   \E l \in DOMAIN mail[c] : mail[c][l].t = "bye") => LinkSound(t, n, r, on, c)
  PROVE  Whole(t, [cl EXCEPT ![c] = n], Post(mail, ln, c, ListMessages(cl[c], n, sent)), on, W)
<1> DEFINE u == cl[c]
           ms == ListMessages(u, n, sent)
           cm == [cl EXCEPT ![c] = n]
           post == Post(mail, ln, c, ms)
           r == post[c]
<1>1. c \in Heard /\ c \in Conns /\ c \notin Pages BY HostAssumption DEF Heard
<1>2. mail \in [Conns -> Seq(Mail(W))] BY DEF Whole, Posted
<1>3. Face(s, u, mail[c], ln, W, c) BY <1>1 DEF Whole
<1>4. u \in ListerClients BY <1>3 DEF Face, ListerKept
<1>5. /\ Turns(t.versions, u, n, sent)
      /\ n.pending \/ n.rootsPending =>
           LinkSound(t, u, mail[c], ln, c) /\ ~Deaf(u) /\ u.conn # "connecting"
      /\ n.pending /\ n.seq = u.seq => Comes(t, mail[c], c, << "list", u.seq >>)
      /\ n.rootsPending /\ n.rootsSeq = u.rootsSeq => Comes(t, mail[c], c, << "roots", u.rootsSeq >>)
  OBVIOUS
<1>6. cm[c] = n /\ \A d \in Heard : d # c => cm[d] = cl[d] BY <1>1
<1> HIDE DEF cm
<1> HIDE DEF u
<1>7. Says(W, t, mail, c, n, ms, r) BY <1>2, <1>4, <1>5, ListerTurns
<1>8. cl[c].seq \in Nat /\ cm[c].seq \in Nat /\ Moves(cl[c], cm[c])
  BY <1>4, <1>6, <1>5 DEF Turns, Asks, Moves, ListerClients, u
<1> HIDE DEF ms
<1>9. Posts(W, mail, ln, c, ms, post) BY <1>1, <1>2, <1>7, PostIs DEF Says
<1>10. LinkSound(t, n, r, on, c) BY <1>7 DEF Says
<1>11. Face(t, cm[c], post[c], on, W, c)
  <2> HIDE DEF post
  <2> QED BY <1>1, <1>6, <1>7, <1>10 DEF Face, Says
<1>12. ms \in Seq(Mail(W)) /\ \A m \in ToSet(ms) : MessageSound(W, cm, c, m) BY <1>6, <1>7 DEF Says
<1>13. Whole(t, cm, Post(mail, ln, c, ms), on, W)
  BY <1>1, <1>6, <1>7, <1>8, <1>11, <1>12, ClientActs
<1> QED BY <1>13 DEF cm, ms, u

\* A list client that asks for something waits for that, and for what it waited for.
LEMMA AsksTurn ==
  ASSUME NEW s, NEW u, NEW q, NEW c, ListerKept(s, u, q, c), Lists!Usable(u), NEW sent \in BOOLEAN,
         NEW n,
         \/ n = Lists!RequestSessions(u, sent)
         \/ Lists!MayRequestMore(u) /\ n = Lists!RequestMoreSessions(u, sent)
         \/ n = Lists!RequestModels(u)
         \/ n = Lists!RequestRoots(u, sent)
  PROVE  /\ Turns(s.versions, u, n, sent) /\ n.conn = u.conn /\ n.stopped = u.stopped
         /\ n.pending /\ n.seq = u.seq => u.pending
         /\ n.rootsPending /\ n.rootsSeq = u.rootsSeq => u.rootsPending
<1> DEFINE Good == /\ Turns(s.versions, u, n, sent) /\ n.conn = u.conn /\ n.stopped = u.stopped
                   /\ n.pending /\ n.seq = u.seq => u.pending
                   /\ n.rootsPending /\ n.rootsSeq = u.rootsSeq => u.rootsPending
<1>1. u \in ListerClients /\ Stretch(s.versions, u) /\ u.conn = "ready" /\ ~u.stopped
  BY DEF ListerKept, Lists!Usable
<1>2. /\ u.seq \in Nat /\ u.gen \in Nat /\ u.next \in Nat /\ u.rootsSeq \in Nat
      /\ u.pending /\ u.offset > 0 => u.offset = u.next
  BY <1>1 DEF ListerClients, ListerKept
<1>3. CASE n = Lists!RequestSessions(u, sent)
  <2> DEFINE k == u.gen + 1
             m == [u EXCEPT !.gen = k]
  <2>1. k \in Nat /\ [u EXCEPT !.gen = @ + 1] = m BY <1>2
  <2>2. n = IF u.pending THEN [m EXCEPT !.dirty = TRUE]
            ELSE Lists!RequestSessionsInternal(m, 0, sent)
    BY <1>3, <2>1 DEF Lists!RequestSessions
  <2> HIDE DEF k
  <2>3. /\ m \in ListerClients /\ m.conn = u.conn /\ m.stopped = u.stopped /\ m.seq = u.seq
        /\ m.offset = u.offset /\ m.rootsSeq = u.rootsSeq /\ m.modelsPending = u.modelsPending
        /\ m.rootsPending = u.rootsPending /\ m.pending = u.pending /\ m.version = u.version
        /\ m.next = u.next /\ m.sessions = u.sessions /\ m.more = u.more
    BY <1>1, <2>1 DEF ListerClients
  <2> HIDE DEF m
  <2>4. Stretch(s.versions, m) BY <1>1, <2>3 DEF Stretch
  <2>5. CASE u.pending
    <3>1. n = [m EXCEPT !.dirty = TRUE] BY <2>2, <2>5
    <3>2. /\ n \in ListerClients /\ n.conn = u.conn /\ n.stopped = u.stopped /\ n.seq = u.seq
          /\ n.offset = u.offset /\ n.rootsSeq = u.rootsSeq /\ n.modelsPending = u.modelsPending
          /\ n.rootsPending = u.rootsPending /\ n.pending = u.pending /\ n.version = u.version
          /\ n.next = u.next /\ n.sessions = u.sessions /\ n.more = u.more
      BY <2>3, <3>1 DEF ListerClients
    <3>3. Stretch(s.versions, n) BY <1>1, <3>2 DEF Stretch
    <3>4. Turns(s.versions, u, n, sent) BY <1>1, <1>2, <3>2, <3>3 DEF Turns, Asks
    <3> QED BY <3>2, <3>4
  <2>6. CASE ~u.pending
    <3>1. n = Lists!RequestSessionsInternal(m, 0, sent) BY <2>2, <2>6
    <3>2. /\ Turns(s.versions, m, n, sent) /\ n.conn = m.conn /\ n.stopped = m.stopped
          /\ n.seq > m.seq /\ n.rootsSeq = m.rootsSeq /\ n.rootsPending = m.rootsPending
      BY <1>1, <2>3, <2>4, <3>1, InternalTurns
    <3>3. Turns(s.versions, u, n, sent) BY <2>3, <3>2 DEF Turns, Asks
    <3> QED BY <1>2, <2>3, <3>2, <3>3
  <2> QED BY <2>5, <2>6
<1>4. CASE Lists!MayRequestMore(u) /\ n = Lists!RequestMoreSessions(u, sent)
  <2>1. n = Lists!RequestSessionsInternal(u, u.next, sent) BY <1>4 DEF Lists!RequestMoreSessions
  <2>2. /\ Turns(s.versions, u, n, sent) /\ n.conn = u.conn /\ n.stopped = u.stopped
        /\ n.seq > u.seq /\ n.rootsSeq = u.rootsSeq /\ n.rootsPending = u.rootsPending
    BY <1>1, <1>2, <2>1, InternalTurns
  <2> QED BY <1>2, <2>2
<1>5. CASE n = Lists!RequestModels(u)
  <2>1. n = [u EXCEPT !.modelsPending = TRUE, !.models = "loading"] BY <1>5 DEF Lists!RequestModels
  <2>2. /\ n \in ListerClients /\ n.conn = u.conn /\ n.stopped = u.stopped /\ n.seq = u.seq
        /\ n.offset = u.offset /\ n.rootsSeq = u.rootsSeq
        /\ n.rootsPending = u.rootsPending /\ n.pending = u.pending /\ n.version = u.version
        /\ n.next = u.next /\ n.sessions = u.sessions /\ n.more = u.more
    BY <1>1, <2>1 DEF ListerClients
  <2>3. Stretch(s.versions, n) BY <1>1, <2>2 DEF Stretch
  <2>4. Turns(s.versions, u, n, sent) BY <1>1, <1>2, <2>2, <2>3 DEF Turns, Asks
  <2> QED BY <2>2, <2>4
<1>6. CASE n = Lists!RequestRoots(u, sent)
  <2> DEFINE k == u.rootsSeq + 1
             roots == IF sent THEN "loading" ELSE u.roots
  <2>1. k \in Nat /\ k > u.rootsSeq /\ roots \in {"idle", "loading", "ok", "failed"}
    BY <1>1, <1>2 DEF ListerClients
  <2>2. n = [u EXCEPT !.rootsSeq = k, !.rootsPending = sent, !.roots = roots]
    BY <1>6 DEF Lists!RequestRoots
  <2> HIDE DEF k, roots
  <2>3. /\ n \in ListerClients /\ n.conn = u.conn /\ n.stopped = u.stopped /\ n.seq = u.seq
        /\ n.offset = u.offset /\ n.rootsSeq = k /\ n.modelsPending = u.modelsPending
        /\ n.rootsPending = sent /\ n.pending = u.pending /\ n.version = u.version
        /\ n.next = u.next /\ n.sessions = u.sessions /\ n.more = u.more
    BY <1>1, <2>1, <2>2 DEF ListerClients
  <2>4. Stretch(s.versions, n) BY <1>1, <2>3 DEF Stretch
  <2>5. Turns(s.versions, u, n, sent) BY <1>1, <1>2, <2>1, <2>3, <2>4 DEF Turns, Asks
  <2> QED BY <1>2, <2>1, <2>3, <2>5
<1> QED BY <1>3, <1>4, <1>5, <1>6

\* A list asks.
LEMMA AskListKeeps ==
  ASSUME NEW W, NEW cl, NEW mail, NEW ln, NEW s, Whole(s, cl, mail, ln, W), DOMAIN cl = Heard,
         NEW c \in Listers, Lists!Usable(cl[c]), NEW sent \in BOOLEAN, NEW n,
         \/ n = Lists!RequestSessions(cl[c], sent)
         \/ Lists!MayRequestMore(cl[c]) /\ n = Lists!RequestMoreSessions(cl[c], sent)
         \/ n = Lists!RequestModels(cl[c])
         \/ n = Lists!RequestRoots(cl[c], sent)
  PROVE  Whole(s, [cl EXCEPT ![c] = n], Post(mail, ln, c, ListMessages(cl[c], n, sent)), ln, W)
<1> DEFINE u == cl[c]
           q == mail[c]
<1>1. c \in Heard BY DEF Heard
<1>2. Well(s, W, cl, {}) /\ Face(s, u, q, ln, W, c) BY <1>1 DEF Whole
<1>3. ListerKept(s, u, q, c) /\ LinkSound(s, u, q, ln, c) BY <1>2 DEF Face
<1>4. /\ Turns(s.versions, u, n, sent) /\ n.conn = u.conn /\ n.stopped = u.stopped
      /\ n.pending /\ n.seq = u.seq => u.pending
      /\ n.rootsPending /\ n.rootsSeq = u.rootsSeq => u.rootsPending
  BY <1>3, AsksTurn
<1>5. u.conn = "ready" /\ ~u.stopped BY DEF Lists!Usable
<1>6. ~Deaf(u) /\ u.conn # "connecting" /\ ~Deaf(n) /\ n.conn # "connecting" BY <1>4, <1>5 DEF Deaf
<1>7. ASSUME NEW r, \A k \in DOMAIN r : r[k].t = "bye" => \E l \in DOMAIN q : q[l].t = "bye"
      PROVE  LinkSound(s, n, r, ln, c)
  BY <1>3, <1>6, <1>7 DEF LinkSound
<1>8. /\ n.pending /\ n.seq = u.seq => Comes(s, q, c, << "list", u.seq >>)
      /\ n.rootsPending /\ n.rootsSeq = u.rootsSeq => Comes(s, q, c, << "roots", u.rootsSeq >>)
  BY <1>3, <1>4 DEF ListerKept
<1>9. \A d \in Conns : d # c => s.conn[d] = s.conn[d] /\ (d \in ln <=> d \in ln) OBVIOUS
<1>10. Turns(s.versions, u, n, sent) /\ (n.pending \/ n.rootsPending =>
          LinkSound(s, u, q, ln, c) /\ ~Deaf(u) /\ u.conn # "connecting")
  BY <1>3, <1>4, <1>6
<1> QED BY <1>2, <1>7, <1>8, <1>9, <1>10, ListerStep

\* What is true of a list client that was u, heard f and is n.
Heeds(versions, u, n, f, sent) ==
  /\ Turns(versions, u, n, sent)
  /\ n.pending /\ n.seq = u.seq => u.pending /\ f.id # << "list", u.seq >>
  /\ n.rootsPending /\ n.rootsSeq = u.rootsSeq => u.rootsPending /\ f.id # << "roots", u.rootsSeq >>
  /\ n.pending \/ n.rootsPending => f.t # "close" /\ ~Deaf(u) /\ u.conn # "connecting"
  /\ \/ n = u /\ (f.t = "close" => Deaf(u))
     \/ /\ ~Deaf(u)
        /\ n.conn = "connecting" => u.conn = "connecting"
        /\ ~Deaf(n) => f.t # "close" /\ (n.conn # "connecting" => u.conn # "connecting")

\* It goes on as it was but for its models and roots.
LEMMA HeedsMuch ==
  ASSUME NEW s, NEW u, NEW q, NEW c, ListerKept(s, u, q, c), NEW f, f.t # "close", ~Deaf(u),
         NEW n \in ListerClients, NEW sent \in BOOLEAN,
         n.conn = u.conn, n.stopped = u.stopped, n.seq = u.seq, n.offset = u.offset,
         n.pending = u.pending, n.version = u.version, n.next = u.next, n.sessions = u.sessions,
         n.more = u.more, n.rootsSeq = u.rootsSeq, n.rootsPending => u.rootsPending,
         u.pending => f.id # << "list", u.seq >>, n.rootsPending => f.id # << "roots", u.rootsSeq >>
  PROVE  Heeds(s.versions, u, n, f, sent)
<1>1. u \in ListerClients /\ Stretch(s.versions, n) BY DEF ListerKept, Stretch
<1>2. Turns(s.versions, u, n, sent) BY <1>1 DEF ListerKept, Turns, Asks
<1>3. n.pending \/ n.rootsPending => u.conn # "connecting" BY DEF ListerKept
<1> QED BY <1>2, <1>3 DEF Heeds

\* It waits for nothing any more, and its connection has failed or ended.
LEMMA HeedsEnd ==
  ASSUME NEW s, NEW u, NEW q, NEW c, ListerKept(s, u, q, c), NEW f, ~Deaf(u), NEW sent \in BOOLEAN,
         NEW n, n = Lists!Fail(u) \/ n = [Lists!Quiet(u) EXCEPT !.conn = "closed"]
  PROVE  Heeds(s.versions, u, n, f, sent)
<1> DEFINE m == Lists!Quiet(u)
<1>1. u \in ListerClients BY DEF ListerKept
<1>2. m = [u EXCEPT !.pending = FALSE, !.dirty = FALSE, !.modelsPending = FALSE, !.rootsPending = FALSE]
  BY DEF Lists!Quiet
<1>3. n = [m EXCEPT !.conn = "error"] \/ n = [m EXCEPT !.conn = "closed"] BY DEF Lists!Fail
<1> HIDE DEF m
<1>4. /\ m \in ListerClients /\ m.stopped = u.stopped /\ m.seq = u.seq /\ m.offset = u.offset
      /\ ~m.pending /\ ~m.rootsPending /\ m.version = u.version /\ m.next = u.next
      /\ m.sessions = u.sessions /\ m.more = u.more /\ m.rootsSeq = u.rootsSeq
  BY <1>1, <1>2 DEF ListerClients
<1>5. /\ n \in ListerClients /\ n.stopped = u.stopped /\ n.seq = u.seq /\ n.offset = u.offset
      /\ ~n.pending /\ ~n.rootsPending /\ n.version = u.version /\ n.next = u.next
      /\ n.sessions = u.sessions /\ n.more = u.more /\ n.rootsSeq = u.rootsSeq
      /\ n.conn \in {"closed", "error"}
  BY <1>3, <1>4 DEF ListerClients, ConnStates
<1>6. Stretch(s.versions, n) BY <1>5 DEF ListerKept, Stretch
<1>7. Turns(s.versions, u, n, sent) BY <1>5, <1>6 DEF Turns, Asks
<1> QED BY <1>5, <1>7 DEF Heeds, Deaf

\* It asks anew, on a ready connection.
LEMMA HeedsAnew ==
  ASSUME NEW s, NEW u, NEW q, NEW c, ListerKept(s, u, q, c), NEW f, f.t # "close", ~Deaf(u),
         u.conn # "connecting", NEW sent \in BOOLEAN, NEW n, Turns(s.versions, u, n, sent),
         n.seq > u.seq, n.conn = "ready", n.rootsSeq = u.rootsSeq, n.rootsPending => u.rootsPending,
         f.id[1] # "roots"
  PROVE  Heeds(s.versions, u, n, f, sent)
<1>1. n.seq # u.seq BY DEF ListerKept, ListerClients, Turns
<1>2. f.id # << "roots", u.rootsSeq >> OBVIOUS
<1>3. n.conn # "connecting" OBVIOUS
<1> QED BY <1>1, <1>2, <1>3 DEF Heeds

\* The answer to a list request.
LEMMA SessionsHeard ==
  ASSUME NEW s, NEW u, NEW q, NEW c, ListerKept(s, u, q, c), s.versions \in Seq(Listings),
         NEW f \in ListAnswers, PageSound(s.versions, f, u), f.id[1] = "list", ~Deaf(u),
         NEW sent \in BOOLEAN
  PROVE  Heeds(s.versions, u, Lists!HandleSessions(u, f, sent), f, sent)
<1> DEFINE n == Lists!HandleSessions(u, f, sent)
           done == [u EXCEPT !.pending = FALSE, !.dirty = FALSE]
           k == u.gen + 1
           late == [done EXCEPT !.gen = k]
           anew == Lists!RequestSessionsInternal(late, 0, sent)
           rows == (IF u.offset > 0 THEN u.sessions ELSE {}) \cup f.rows
           page == IF f.more /\ f.rows = {} THEN "error" ELSE "idle"
           good == [done EXCEPT !.sessions = rows, !.version = f.version, !.more = f.more,
                                !.next = f.next, !.page = page]
<1>1. /\ u \in ListerClients /\ Stretch(s.versions, u) /\ f.t = "sessions"
      /\ f.version \in Nat /\ f.next \in Nat /\ f.more \in BOOLEAN /\ f.rows \in SUBSET Rows
      /\ f.id \in AllIds
  BY DEF ListerKept, ListAnswers, Rows
<1>2. f.id # << "roots", u.rootsSeq >> /\ f.t # "close" BY <1>1
<1>3. /\ done \in ListerClients /\ ~done.pending /\ done.conn = u.conn /\ done.stopped = u.stopped
      /\ done.seq = u.seq /\ done.offset = u.offset /\ done.rootsSeq = u.rootsSeq
      /\ done.modelsPending = u.modelsPending /\ done.rootsPending = u.rootsPending
      /\ done.version = u.version /\ done.next = u.next /\ done.sessions = u.sessions
      /\ done.more = u.more /\ done.gen = u.gen /\ Lists!Deaf(done) = Lists!Deaf(u)
  BY <1>1 DEF ListerClients, Lists!Deaf
<1>4. [done EXCEPT !.gen = @ + 1] = late BY <1>3
<1>5. k \in Nat BY <1>1 DEF ListerClients
<1> HIDE DEF k
<1>6. \/ (~u.pending \/ f.id[2] # u.seq) /\ n = u
      \/ u.pending /\ n = Lists!RequestSessionsInternal(done, 0, sent)
      \/ /\ u.pending
         /\ n = [anew EXCEPT !.sessions = {}, !.version = 0, !.more = FALSE, !.next = 0,
                             !.page = "loading"]
      \/ /\ u.pending /\ f.id[2] = u.seq /\ ~(u.offset > 0 /\ f.version # u.version)
         /\ n = good
  BY <1>4 DEF Lists!HandleSessions
<1>7. u.pending => u.conn = "ready" /\ ~u.stopped BY DEF ListerKept
<1> SUFFICES Heeds(s.versions, u, n, f, sent) OBVIOUS
<1> HIDE DEF n, rows, page, done, anew
<1>8. CASE (~u.pending \/ f.id[2] # u.seq) /\ n = u
  <2>1. u.pending => f.id # << "list", u.seq >> BY <1>8
  <2>2. Heeds(s.versions, u, u, f, sent) BY <1>1, <1>2, <2>1, HeedsMuch
  <2> QED BY <1>8, <2>2
<1>9. CASE u.pending /\ n = Lists!RequestSessionsInternal(done, 0, sent)
  <2>1. Stretch(s.versions, done) BY <1>1, <1>3 DEF Stretch
  <2>2. /\ Turns(s.versions, done, n, sent) /\ n.conn = done.conn /\ n.seq > done.seq
        /\ n.rootsSeq = done.rootsSeq /\ n.rootsPending = done.rootsPending
    BY <1>3, <1>7, <1>9, <2>1, InternalTurns
  <2>3. Turns(s.versions, u, n, sent) BY <1>3, <2>2 DEF Turns, Asks
  <2>4. n.seq > u.seq /\ n.conn = "ready" /\ n.rootsSeq = u.rootsSeq /\ (n.rootsPending => u.rootsPending)
        /\ u.conn # "connecting" /\ f.id[1] # "roots"
    BY <1>3, <1>7, <1>9, <2>2
  <2> QED BY <1>2, <2>3, <2>4, HeedsAnew
<1>10. CASE /\ u.pending
            /\ n = [anew EXCEPT !.sessions = {}, !.version = 0, !.more = FALSE, !.next = 0,
                                !.page = "loading"]
  <2>1. /\ late \in ListerClients /\ late.conn = u.conn /\ late.stopped = u.stopped
        /\ late.seq = u.seq /\ late.rootsSeq = u.rootsSeq
        /\ late.modelsPending = u.modelsPending /\ late.rootsPending = u.rootsPending
    BY <1>3, <1>5 DEF ListerClients
  <2> HIDE DEF late
  <2>2. /\ anew \in ListerClients /\ anew.pending = sent /\ anew.offset = 0 /\ anew.seq = u.seq + 1
        /\ anew.conn = u.conn /\ anew.stopped = u.stopped
        /\ anew.modelsPending = u.modelsPending /\ anew.rootsPending = u.rootsPending
        /\ anew.rootsSeq = u.rootsSeq
    <3>1. /\ anew \in ListerClients /\ anew.pending = sent /\ anew.offset = 0
          /\ anew.seq = late.seq + 1 /\ anew.conn = late.conn /\ anew.stopped = late.stopped
          /\ anew.modelsPending = late.modelsPending /\ anew.rootsPending = late.rootsPending
          /\ anew.rootsSeq = late.rootsSeq
      BY <2>1, InternalIs DEF anew
    <3> QED BY <2>1, <3>1
  <2>3. /\ n \in ListerClients /\ n.pending = sent /\ n.offset = 0 /\ n.seq = u.seq + 1
        /\ n.conn = u.conn /\ n.stopped = u.stopped
        /\ n.modelsPending = u.modelsPending /\ n.rootsPending = u.rootsPending
        /\ n.rootsSeq = u.rootsSeq /\ n.version = 0
    BY <1>10, <2>2 DEF ListerClients
  <2>4. n.seq > u.seq /\ Stretch(s.versions, n) BY <1>1, <2>3 DEF Stretch, ListerClients
  <2>5. Turns(s.versions, u, n, sent) BY <1>7, <1>10, <2>3, <2>4 DEF Turns, Asks
  <2>6. n.conn = "ready" /\ u.conn # "connecting" /\ f.id[1] # "roots" BY <1>7, <1>10, <2>3
  <2> QED BY <1>2, <2>3, <2>4, <2>5, <2>6, HeedsAnew
<1>11. CASE /\ u.pending /\ f.id[2] = u.seq /\ ~(u.offset > 0 /\ f.version # u.version)
            /\ n = good
  <2>1. rows \in SUBSET Rows /\ page \in {"idle", "error"} /\ u.sessions \in SUBSET Rows
    BY <1>1 DEF rows, page, ListerClients
  <2>2. /\ n \in ListerClients /\ ~n.pending /\ n.conn = u.conn /\ n.stopped = u.stopped
        /\ n.seq = u.seq /\ n.offset = u.offset /\ n.rootsSeq = u.rootsSeq
        /\ n.modelsPending = u.modelsPending /\ n.rootsPending = u.rootsPending
        /\ n.version = f.version /\ n.next = f.next /\ n.sessions = rows /\ n.more = f.more
    BY <1>1, <1>3, <1>11, <2>1 DEF ListerClients
  <2> DEFINE list == s.versions[f.version]
  <2>3. f.version \in 1 .. Len(s.versions) /\ list \in Seq(ToSet(list))
    <3>1. f.version \in 1 .. Len(s.versions) BY DEF PageSound
    <3>2. list \in Listings BY <3>1
    <3> QED BY <3>1, <3>2, WritePathAssumption
  <2> HIDE DEF list
  <2>4. /\ u.offset \in 0 .. Len(list) /\ f.next \in u.offset .. Len(list)
        /\ f.rows = ToSet(SubSeq(list, u.offset + 1, f.next)) /\ f.more = (f.next < Len(list))
    BY <1>11 DEF PageSound, list
  <2>5. Len(list) \in Nat /\ u.offset \in Nat BY <1>1, <2>3 DEF ListerClients
  <2>6. rows = ToSet(SubSeq(list, 1, f.next))
    <3>1. f.rows = {list[j] : j \in u.offset + 1 .. f.next}
      <4>1. list \in Seq(ToSet(list)) /\ u.offset \in Nat /\ f.next \in u.offset .. Len(list)
        BY <2>3, <2>4, <2>5
      <4>2. ToSet(SubSeq(list, u.offset + 1, f.next)) = {list[j] : j \in u.offset + 1 .. f.next}
        BY <4>1, StretchIs
      <4> QED BY <2>4, <4>2
    <3>2. ToSet(SubSeq(list, 0 + 1, f.next)) = {list[j] : j \in 0 + 1 .. f.next}
      <4>1. f.next \in 0 .. Len(list) BY <2>4, <2>5
      <4> QED BY <2>3, <4>1, StretchIs
    <3>3. CASE u.offset = 0
      <4>1. rows = f.rows BY <3>3 DEF rows
      <4> QED BY <2>4, <3>3, <4>1
    <3>4. CASE u.offset > 0
      <4>1. u.offset = u.next /\ f.version = u.version BY <1>11, <3>4 DEF ListerKept
      <4>2. u.version # 0 BY <2>3, <4>1
      <4>3. u.sessions = ToSet(SubSeq(list, 1, u.offset)) BY <1>1, <4>1, <4>2 DEF Stretch, list
      <4>4. ToSet(SubSeq(list, 0 + 1, u.offset)) = {list[j] : j \in 0 + 1 .. u.offset}
        <5>1. u.offset \in 0 .. Len(list) BY <2>4
        <5> QED BY <2>3, <5>1, StretchIs
      <4>5. rows = u.sessions \cup f.rows BY <3>4 DEF rows
      <4>6. \A j : j \in 1 .. f.next <=> j \in 1 .. u.offset \/ j \in u.offset + 1 .. f.next
        BY <2>4, <2>5
      <4>7. rows = {list[j] : j \in 1 .. u.offset} \cup {list[j] : j \in u.offset + 1 .. f.next}
        BY <3>1, <4>3, <4>4, <4>5
      <4>8. rows = {list[j] : j \in 1 .. f.next} BY <4>6, <4>7
      <4> QED BY <3>2, <4>8
    <3> QED BY <2>5, <3>3, <3>4
  <2>7. Stretch(s.versions, n) BY <2>2, <2>3, <2>4, <2>6 DEF Stretch, list
  <2>8. Turns(s.versions, u, n, sent) BY <1>7, <1>11, <2>2, <2>7 DEF Turns, Asks
  <2>9. n.conn # "connecting" /\ u.conn # "connecting" BY <1>7, <1>11, <2>2
  <2> QED BY <1>2, <2>2, <2>8, <2>9 DEF Heeds
<1> QED BY <1>6, <1>8, <1>9, <1>10, <1>11

\* A list client hears one frame.
LEMMA ListHears ==
  ASSUME NEW W, NEW c \in Listers, NEW s, NEW t, NEW u, NEW q, NEW f, NEW sent \in BOOLEAN,
         ListerKept(s, u, q, c), s.versions \in Seq(Listings), Delivers(W, u, s, t, c, f)
  PROVE  Heeds(s.versions, u, Lists!Hears(u, f, sent), f, sent)
<1> DEFINE n == Lists!Hears(u, f, sent)
<1> SUFFICES Heeds(s.versions, u, n, f, sent) OBVIOUS
<1>1. c \notin Pages BY HostAssumption
<1>2. /\ FrameSound(W, c, f) /\ f \in Frames /\ (f.t = "sessions" => PageSound(s.versions, f, u))
      /\ u \in ListerClients
  BY DEF Delivers, ListerKept
<1>3. f.t \in {"welcome", "error", "close", "models-list", "roots-list", "sessions"}
  <2>1. f.t \in {"error", "close", "ack", "welcome", "models-list", "roots-list", "sessions"}
    BY <1>2 DEF Frames, Answers, ListAnswers
  <2>2. f.t = "ack" => FALSE BY <1>1, <1>2 DEF FrameSound, Owns
  <2> QED BY <2>1, <2>2
<1>4. CASE Deaf(u)
  <2>1. n = u BY <1>4 DEF Lists!Hears, Lists!Deaf, Deaf
  <2>2. ~u.pending /\ ~u.rootsPending BY <1>4 DEF Deaf, ListerKept
  <2>3. Turns(s.versions, u, u, sent) BY <1>2, <2>2 DEF Turns, Asks, ListerKept
  <2> HIDE DEF n
  <2> QED BY <1>4, <2>1, <2>2, <2>3 DEF Heeds
<1> SUFFICES ASSUME ~Deaf(u) PROVE Heeds(s.versions, u, n, f, sent) BY <1>4
<1>5. ~Lists!Deaf(u) BY DEF Lists!Deaf, Deaf
<1>6. CASE f.t = "welcome"
  <2>1. f.id = NoId BY <1>2, <1>6 DEF FrameSound
  <2>2. f.id # << "list", u.seq >> /\ f.id # << "roots", u.rootsSeq >> /\ f.id[1] # "roots"
    BY <2>1 DEF NoId
  <2>3. n = Lists!HandleWelcome(u, sent) BY <1>5, <1>6 DEF Lists!Hears
  <2>4. CASE u.conn # "authenticating"
    <3>1. n = u BY <2>3, <2>4 DEF Lists!HandleWelcome
    <3> HIDE DEF n
    <3> QED BY <1>2, <1>6, <2>2, <3>1, HeedsMuch
  <2>5. CASE u.conn = "authenticating"
    <3> DEFINE m == Lists!RequestSessionsInternal(u, 0, sent)
    <3>1. n = [m EXCEPT !.conn = "ready"] BY <2>3, <2>5 DEF Lists!HandleWelcome
    <3>2. /\ m \in ListerClients /\ m.pending = sent /\ m.offset = 0 /\ m.seq = u.seq + 1
          /\ m.stopped = u.stopped /\ m.sessions = u.sessions
          /\ m.version = u.version /\ m.more = u.more /\ m.next = u.next
          /\ m.modelsPending = u.modelsPending /\ m.rootsPending = u.rootsPending
          /\ m.rootsSeq = u.rootsSeq
      BY <1>2, InternalIs
    <3> HIDE DEF m, n
    <3>3. /\ n \in ListerClients /\ n.pending = sent /\ n.offset = 0 /\ n.seq = u.seq + 1
          /\ n.stopped = u.stopped /\ n.sessions = u.sessions /\ n.conn = "ready"
          /\ n.version = u.version /\ n.more = u.more /\ n.next = u.next
          /\ n.modelsPending = u.modelsPending /\ n.rootsPending = u.rootsPending
          /\ n.rootsSeq = u.rootsSeq
      BY <3>1, <3>2 DEF ListerClients, ConnStates
    <3>4. n.seq > u.seq /\ Stretch(s.versions, n) BY <1>2, <3>3 DEF ListerKept, Stretch, ListerClients
    <3>5. ~u.stopped /\ ~u.rootsPending /\ u.conn # "connecting" BY <2>5 DEF Deaf, ListerKept
    <3>6. Turns(s.versions, u, n, sent) BY <3>3, <3>4, <3>5 DEF Turns, Asks
    <3>7. n.rootsPending => u.rootsPending BY <3>3
    <3> QED BY <1>6, <2>2, <3>3, <3>4, <3>5, <3>6, <3>7, HeedsAnew
  <2> QED BY <2>4, <2>5
<1>7. CASE f.t = "sessions"
  <2>1. f \in ListAnswers /\ f.id[1] = "list" BY <1>2, <1>7 DEF Frames, Answers, ListAnswers, FrameSound
  <2>2. n = Lists!HandleSessions(u, f, sent) BY <1>5, <1>7 DEF Lists!Hears
  <2> HIDE DEF n
  <2> QED BY <1>2, <1>7, <2>1, <2>2, SessionsHeard
<1>8. CASE f.t = "models-list"
  <2>1. f.id[1] = "models" BY <1>2, <1>8 DEF FrameSound
  <2>2. f.id # << "list", u.seq >> /\ f.id # << "roots", u.rootsSeq >> BY <2>1
  <2>3. f.res \in Outcomes BY <1>2, <1>8 DEF Frames, Answers, ListAnswers
  <2>4. n = IF u.modelsPending THEN [u EXCEPT !.modelsPending = FALSE, !.models = f.res] ELSE u
    BY <1>5, <1>8 DEF Lists!Hears
  <2> HIDE DEF n
  <2>5. /\ n \in ListerClients /\ n.conn = u.conn /\ n.stopped = u.stopped /\ n.seq = u.seq
        /\ n.offset = u.offset /\ n.pending = u.pending /\ n.version = u.version
        /\ n.next = u.next /\ n.sessions = u.sessions /\ n.more = u.more
        /\ n.rootsSeq = u.rootsSeq /\ n.rootsPending = u.rootsPending
    BY <1>2, <2>3, <2>4 DEF ListerClients
  <2> QED BY <1>8, <2>2, <2>5, HeedsMuch
<1>9. CASE f.t = "roots-list"
  <2>1. f.id[1] = "roots" /\ f.id \in AllIds BY <1>2, <1>9 DEF FrameSound, Frames, Answers, ListAnswers
  <2>2. f.id # << "list", u.seq >> BY <2>1
  <2>3. n = IF u.rootsPending /\ f.id[2] = u.rootsSeq
            THEN [u EXCEPT !.rootsPending = FALSE, !.roots = "ok"] ELSE u
    BY <1>5, <1>9 DEF Lists!Hears, Lists!SettleRoots
  <2>4. f.id = << "roots", u.rootsSeq >> => f.id[2] = u.rootsSeq OBVIOUS
  <2> HIDE DEF n
  <2>5. /\ n \in ListerClients /\ n.conn = u.conn /\ n.stopped = u.stopped /\ n.seq = u.seq
        /\ n.offset = u.offset /\ n.pending = u.pending /\ n.version = u.version
        /\ n.next = u.next /\ n.sessions = u.sessions /\ n.more = u.more
        /\ n.rootsSeq = u.rootsSeq /\ (n.rootsPending => u.rootsPending)
        /\ (n.rootsPending => f.id[2] # u.rootsSeq)
    BY <1>2, <2>3 DEF ListerClients
  <2> QED BY <1>9, <2>2, <2>4, <2>5, HeedsMuch
<1>10. CASE f.t = "error"
  <2>1. f \in Answers BY <1>2, <1>10 DEF Frames, ListAnswers
  <2>2. f.id # NoId => Fits(W, f.id, f.kind, f.file) BY <1>2, <1>10 DEF FrameSound
  <2>3. f.id = << "list", u.seq >> => f.kind = "list" /\ f.id[2] = u.seq
    <3> HAVE f.id = << "list", u.seq >>
    <3>1. f.id[1] = "list" /\ f.id[2] = u.seq /\ f.id # NoId BY DEF NoId
    <3> QED BY <2>2, <3>1 DEF Fits
  <2>4. f.id = << "roots", u.rootsSeq >> => f.kind = "roots" /\ f.id[2] = u.rootsSeq
    <3> HAVE f.id = << "roots", u.rootsSeq >>
    <3>1. f.id[1] = "roots" /\ f.id[2] = u.rootsSeq /\ f.id # NoId BY DEF NoId
    <3> QED BY <2>2, <3>1 DEF Fits
  <2>5. n = Lists!HandleError(u, f) BY <1>5, <1>10 DEF Lists!Hears
  <2>6. \/ n = Lists!Fail(u)
        \/ /\ f.kind = "list" /\ u.pending /\ f.id[2] = u.seq
           /\ n = [u EXCEPT !.pending = FALSE, !.page = "error"]
        \/ /\ ~(f.kind = "list" /\ u.pending /\ f.id[2] = u.seq)
           /\ f.kind = "roots" /\ u.rootsPending /\ f.id[2] = u.rootsSeq
           /\ n = [u EXCEPT !.rootsPending = FALSE, !.roots = "failed"]
        \/ /\ ~(f.kind = "list" /\ u.pending /\ f.id[2] = u.seq)
           /\ ~(f.kind = "roots" /\ u.rootsPending /\ f.id[2] = u.rootsSeq)
           /\ n = u
    BY <2>5 DEF Lists!HandleError, Lists!SettleRoots
  <2> HIDE DEF n
  <2>7. CASE n = Lists!Fail(u) BY <2>7, HeedsEnd
  <2>8. CASE /\ f.kind = "list" /\ u.pending /\ f.id[2] = u.seq
             /\ n = [u EXCEPT !.pending = FALSE, !.page = "error"]
    <3>1. /\ n \in ListerClients /\ n.conn = u.conn /\ n.stopped = u.stopped /\ n.seq = u.seq
          /\ n.offset = u.offset /\ ~n.pending /\ n.version = u.version
          /\ n.next = u.next /\ n.sessions = u.sessions /\ n.more = u.more
          /\ n.rootsSeq = u.rootsSeq /\ n.rootsPending = u.rootsPending
      BY <1>2, <2>8 DEF ListerClients
    <3>2. Stretch(s.versions, n) BY <3>1 DEF ListerKept, Stretch
    <3>3. Turns(s.versions, u, n, sent) BY <3>1, <3>2 DEF Turns, Asks, ListerKept
    <3>4. f.id # << "roots", u.rootsSeq >> /\ u.conn # "connecting" BY <2>4, <2>8 DEF ListerKept
    <3>5. n.conn # "connecting" BY <3>1, <3>4
    <3> QED BY <1>10, <3>1, <3>3, <3>4, <3>5 DEF Heeds
  <2>9. CASE /\ ~(f.kind = "list" /\ u.pending /\ f.id[2] = u.seq)
             /\ f.kind = "roots" /\ u.rootsPending /\ f.id[2] = u.rootsSeq
             /\ n = [u EXCEPT !.rootsPending = FALSE, !.roots = "failed"]
    <3>1. /\ n \in ListerClients /\ n.conn = u.conn /\ n.stopped = u.stopped /\ n.seq = u.seq
          /\ n.offset = u.offset /\ n.pending = u.pending /\ n.version = u.version
          /\ n.next = u.next /\ n.sessions = u.sessions /\ n.more = u.more
          /\ n.rootsSeq = u.rootsSeq /\ ~n.rootsPending
      BY <1>2, <2>9 DEF ListerClients
    <3>2. u.pending => f.id # << "list", u.seq >> BY <2>3, <2>9
    <3> QED BY <1>10, <3>1, <3>2, HeedsMuch
  <2>10. CASE /\ ~(f.kind = "list" /\ u.pending /\ f.id[2] = u.seq)
              /\ ~(f.kind = "roots" /\ u.rootsPending /\ f.id[2] = u.rootsSeq)
              /\ n = u
    <3>1. u.pending => f.id # << "list", u.seq >> BY <2>3, <2>10
    <3>2. u.rootsPending => f.id # << "roots", u.rootsSeq >> BY <2>4, <2>10
    <3>3. Heeds(s.versions, u, u, f, sent) BY <1>2, <1>10, <3>1, <3>2, HeedsMuch
    <3> QED BY <2>10, <3>3
  <2> QED BY <2>6, <2>7, <2>8, <2>9, <2>10
<1>11. CASE f.t = "close"
  <2>1. n = Lists!HandleClose(u, f.code) BY <1>5, <1>11 DEF Lists!Hears
  <2>2. n = Lists!Fail(u) \/ n = [Lists!Quiet(u) EXCEPT !.conn = "closed"]
    BY <2>1 DEF Lists!HandleClose
  <2> HIDE DEF n
  <2> QED BY <2>2, HeedsEnd
<1> QED BY <1>3, <1>6, <1>7, <1>8, <1>9, <1>10, <1>11

\* A list reads a frame, and sends what follows from it.
LEMMA ReadListKeeps ==
  ASSUME NEW W, NEW cl, NEW mail, NEW ln, NEW s, Whole(s, cl, mail, ln, W), DOMAIN cl = Heard,
         NEW c \in Listers, s.conn[c].wire # << >>, NEW sent \in BOOLEAN
  PROVE  LET t  == WithoutHead(s, c)
             f  == Head(s.conn[c].wire)
             on == After(ln, c, f)
             n  == Lists!Hears(cl[c], f, sent)
         IN /\ Whole(t, [cl EXCEPT ![c] = n], Post(mail, ln, c, ListMessages(cl[c], n, sent)), on, W)
            /\ t.launched = s.launched
<1> USE DEF WithoutHead, After
<1> DEFINE f == Head(s.conn[c].wire)
           t == [s EXCEPT !.conn[c].wire = Tail(@)]
           on == IF f.t = "close" THEN ln \ {c} ELSE ln
           u == cl[c]
           n == Lists!Hears(u, f, sent)
           q == mail[c]
<1>1. c \in Heard /\ c \in Conns BY HostAssumption DEF Heard
<1>2. Well(s, W, cl, {}) /\ mail \in [Conns -> Seq(Mail(W))] BY DEF Whole, Posted
<1>3. /\ Well(t, W, cl, {}) /\ Delivers(W, u, s, t, c, f)
      /\ t.task = s.task /\ t.versions = s.versions /\ t.launched = s.launched
  BY <1>1, <1>2, ReadIs
<1>4. Face(s, u, q, ln, W, c) BY <1>1 DEF Whole
<1>5. LinkSound(s, u, q, ln, c) /\ ListerKept(s, u, q, c) BY <1>4 DEF Face
<1>6. s.versions \in Seq(Listings) BY <1>2, VersionsAre
<1>7. \A d \in Conns : d # c => t.conn[d] = s.conn[d] /\ (d \in on <=> d \in ln)
  BY <1>3 DEF Delivers
<1>8. f.t # "close" => (c \in on <=> c \in ln) OBVIOUS
<1> HIDE DEF t, u, q, on, f
<1>9. Heeds(s.versions, u, n, f, sent) BY <1>3, <1>5, <1>6, ListHears
<1> HIDE DEF n
<1>10. ASSUME NEW r, \A k \in DOMAIN r : r[k].t = "bye" => \E l \in DOMAIN q : q[l].t = "bye"
       PROVE  LinkSound(t, n, r, on, c)
  <2>1. \/ n = u /\ (f.t = "close" => Deaf(u))
        \/ /\ ~Deaf(u)
           /\ n.conn = "connecting" => u.conn = "connecting"
           /\ ~Deaf(n) => f.t # "close" /\ (n.conn # "connecting" => u.conn # "connecting")
    BY <1>9 DEF Heeds
  <2>2. Delivers(W, u, s, t, c, f) BY <1>3
  <2> QED BY <1>1, <1>5, <1>8, <1>10, <2>1, <2>2, LinkHears
<1>11. f.t # "close" => LinkSound(t, u, q, ln, c) BY <1>3, <1>5 DEF Delivers, LinkSound
<1>12. n.pending \/ n.rootsPending => LinkSound(t, u, q, ln, c) /\ ~Deaf(u) /\ u.conn # "connecting"
  BY <1>9, <1>11 DEF Heeds
<1>13. << "list", u.seq >> \in AllIds /\ << "roots", u.rootsSeq >> \in AllIds
  BY <1>5 DEF AllIds, ListerKept, ListerClients
<1>14. n.pending /\ n.seq = u.seq => Comes(t, q, c, << "list", u.seq >>)
  BY <1>3, <1>5, <1>9, <1>13 DEF Heeds, Delivers, ListerKept
<1>15. n.rootsPending /\ n.rootsSeq = u.rootsSeq => Comes(t, q, c, << "roots", u.rootsSeq >>)
  BY <1>3, <1>5, <1>9, <1>13 DEF Heeds, Delivers, ListerKept
<1>16. Turns(t.versions, u, n, sent) BY <1>3, <1>9 DEF Heeds
<1>17. Whole(t, [cl EXCEPT ![c] = n], Post(mail, ln, c, ListMessages(u, n, sent)), on, W)
  <2>1. Well(t, W, cl, {}) /\ t.task = s.task /\ t.versions = s.versions BY <1>3
  <2> QED BY <1>7, <1>10, <1>12, <1>14, <1>15, <1>16, <2>1, ListerStep DEF u, q
<1> QED BY <1>3, <1>17 DEF n, u, f, on, t

-------------------------------------------------------------------------------
(* The system *)

WriteInv ==
  /\ Whole(g, cli, up, linked, wishes)
  /\ DOMAIN cli = Heard
  /\ \E s \in Scenarios : wishes = s.wishes

\* The server goes on alone.
ServerGoes == Runs(g, g', wishes, cli) /\ UNCHANGED << cli, up, linked, wishes >>

LEMMA ServerKeeps ==
  ASSUME WriteInv, ServerGoes
  PROVE  WriteInv' /\ LaunchSound(g, g')
<1>1. Whole(g, cli, up, linked, wishes) BY DEF WriteInv
<1>2. Well(g', wishes, cli, {}) /\ Serves(g, g', Heard) /\ LaunchSound(g, g') BY DEF ServerGoes, Runs
<1>3. Whole(g', cli, up, linked, wishes) BY <1>1, <1>2, ServerStep
<1>4. cli' = cli /\ up' = up /\ linked' = linked /\ wishes' = wishes BY DEF ServerGoes
<1>5. Whole(g', cli', up', linked', wishes') BY <1>3, <1>4
<1> QED BY <1>2, <1>4, <1>5 DEF WriteInv

LEMMA ServedGoes ==
  ASSUME NEW t, Runs(g, t, wishes, cli), g' = t, UNCHANGED << cli, up, linked, wishes >>
  PROVE  ServerGoes
  BY DEF ServerGoes

\* What was awaited by a request goes on.
LEMMA ContinueGoes ==
  ASSUME WriteInv, NEW i, Continue(i)
  PROVE  ServerGoes
<1>1. Well(g, wishes, cli, {}) BY DEF WriteInv, Whole
<1>2. g \in Servers BY <1>1, VersionsAre
<1>3. CASE ResumeGoesOn(i)
  <2>1. i \in DOMAIN g.task /\ g.task[i].at = "read" /\ g' = Resume(g, i)
        /\ UNCHANGED << cli, up, linked, wishes >>
    BY <1>3 DEF ResumeGoesOn, Running, Serve
  <2>2. Runs(g, Resume(g, i), wishes, cli) BY <1>1, <2>1, ResumeGoes, GoesRuns
  <2> QED BY <2>1, <2>2, ServedGoes
<1>4. CASE ListEnds(i)
  <2>1. PICK seen \in {g.task[i].seen, g.dir} : Running(i, "running") /\ Serve(Listed(g, i, seen))
    BY <1>4 DEF ListEnds
  <2>2. i \in DOMAIN g.task /\ g.task[i].at = "running" /\ g' = Listed(g, i, seen)
        /\ UNCHANGED << cli, up, linked, wishes >>
    BY <2>1 DEF Running, Serve
  <2>3. seen \in Listings
    <3>1. g.dir \in Listings BY <1>2 DEF Servers
    <3>2. TaskSound(wishes, i, g.task[i]) BY <1>1, <2>2 DEF Well, Sound, TasksSound
    <3> QED BY <2>2, <3>1, <3>2 DEF TaskSound
  <2>4. Runs(g, Listed(g, i, seen), wishes, cli) BY <1>1, <2>2, <2>3, ListedGoes, GoesRuns
  <2> QED BY <2>2, <2>4, ServedGoes
<1>5. CASE ModelsAnswer(i)
  <2>1. i \in DOMAIN g.task /\ g.task[i].at = "asking" BY <1>5 DEF ModelsAnswer, Running
  <2>2. CASE \E res \in {"ok", "failed"} : Serve(Forget(Told(g, i, "models-list", 0, res), i))
    <3>1. PICK res \in {"ok", "failed"} : Serve(Forget(Told(g, i, "models-list", 0, res), i)) BY <2>2
    <3> DEFINE t == Forget(Told(g, i, "models-list", 0, res), i)
    <3>2. Goes(g, t, wishes, cli) BY <1>1, <2>1, ModelsGoes
    <3>3. g' = t /\ UNCHANGED << cli, up, linked, wishes >> BY <3>1 DEF Serve
    <3> HIDE DEF t
    <3>4. Runs(g, t, wishes, cli) BY <3>2, GoesRuns
    <3> QED BY <3>3, <3>4, ServedGoes
  <2>3. CASE Serve(Forget(StrikeMessage(g, g.task[i].by, [id |-> i, kind |-> "models", file |-> "none"]), i))
    <3> DEFINE t == Forget(StrikeMessage(g, g.task[i].by,
                                         [id |-> i, kind |-> "models", file |-> "none"]), i)
    <3>1. Goes(g, t, wishes, cli) BY <1>1, <2>1, ModelsGoes
    <3>2. g' = t /\ UNCHANGED << cli, up, linked, wishes >> BY <2>3 DEF Serve
    <3> HIDE DEF t
    <3>3. Runs(g, t, wishes, cli) BY <3>1, GoesRuns
    <3> QED BY <3>2, <3>3, ServedGoes
  <2> QED BY <1>5, <2>2, <2>3 DEF ModelsAnswer
<1>6. CASE SessionGoesOn(i)
  <2>1. i \in DOMAIN g.task /\ g.task[i].at = "session" BY <1>6 DEF SessionGoesOn, Running
  <2>2. CASE \E confirmed \in BOOLEAN : Serve(Stop(g, i, confirmed))
    <3>1. PICK confirmed \in BOOLEAN : Serve(Stop(g, i, confirmed)) BY <2>2
    <3>2. Runs(g, Stop(g, i, confirmed), wishes, cli) BY <1>1, <2>1, StopGoes, GoesRuns
    <3>3. g' = Stop(g, i, confirmed) /\ UNCHANGED << cli, up, linked, wishes >> BY <3>1 DEF Serve
    <3> QED BY <3>2, <3>3, ServedGoes
  <2>3. CASE Serve(Send(g, i))
    <3>1. Runs(g, Send(g, i), wishes, cli) BY <1>1, <2>1, SendRuns
    <3>2. g' = Send(g, i) /\ UNCHANGED << cli, up, linked, wishes >> BY <2>3 DEF Serve
    <3> QED BY <3>1, <3>2, ServedGoes
  <2> QED BY <1>6, <2>2, <2>3 DEF SessionGoesOn
<1>7. CASE SessionFails(i)
  <2>1. i \in DOMAIN g.task /\ g.task[i].at = "failed" /\ g' = Failed(g, i, 4402)
        /\ UNCHANGED << cli, up, linked, wishes >>
    BY <1>7 DEF SessionFails, Running, Serve
  <2>2. Runs(g, Failed(g, i, 4402), wishes, cli) BY <1>1, <2>1, FailedGoes, GoesRuns
  <2> QED BY <2>1, <2>2, ServedGoes
<1>8. CASE StartGoesOn(i)
  <2>1. i \in DOMAIN g.task /\ g.task[i].at = "starting" /\ g' = Started(g, i)
        /\ UNCHANGED << cli, up, linked, wishes >>
    BY <1>8 DEF StartGoesOn, Running, Serve
  <2>2. Runs(g, Started(g, i), wishes, cli) BY <1>1, <2>1, StartedRuns
  <2> QED BY <2>1, <2>2, ServedGoes
<1> QED BY <1>3, <1>4, <1>5, <1>6, <1>7, <1>8 DEF Continue

\* What a file's read, session and process do.
LEMMA FileGoes ==
  ASSUME WriteInv, NEW f \in Roots, Work(f) \/ Mishap(f) \/ TurnEnds(f)
  PROVE  ServerGoes
<1>1. Well(g, wishes, cli, {}) BY DEF WriteInv, Whole
<1>2. g \in Servers /\ g.host[f] \in Hosts BY <1>1, VersionsAre DEF Servers
<1>3. CASE ReadEnds(f)
  <2>1. PICK res \in {g.read[f].snap} \cup (IF g.conn[g.read[f].by].open THEN {} ELSE {"refused"}) :
          Serve(FinishRead(g, f, res))
    BY <1>3 DEF ReadEnds
  <2>2. f \in DOMAIN g.read /\ g.read[f].at = "reading" BY <1>3 DEF ReadEnds
  <2>3. g' = FinishRead(g, f, res) /\ UNCHANGED << cli, up, linked, wishes >> BY <2>1 DEF Serve
  <2>4. res \in Evidence \cup {"threw"}
    <3>1. g.read \in Tables(Roots, Reads) BY <1>2 DEF Servers
    <3>2. g.read[f] \in Reads BY <2>2, <3>1, TableIs
    <3> QED BY <3>2 DEF Reads, Evidence
  <2>5. Runs(g, FinishRead(g, f, res), wishes, cli) BY <1>1, <2>2, <2>4, FinishReadGoes, GoesRuns
  <2> QED BY <2>3, <2>5, ServedGoes
<1>4. CASE CreateSession(f)
  <2>1. g' = CreationEnds(g, f, TRUE) /\ UNCHANGED << cli, up, linked, wishes >>
    BY <1>4 DEF CreateSession, Serve
  <2>2. Runs(g, CreationEnds(g, f, TRUE), wishes, cli) BY <1>1, CreationEndsGoes, GoesRuns
  <2> QED BY <2>1, <2>2, ServedGoes
<1>5. CASE ProcessReady(f)
  <2> DEFINE u == [g.host[f] EXCEPT !.ready = TRUE]
             t == [g EXCEPT !.host[f] = u]
  <2>1. u \in Hosts /\ u.sess = g.host[f].sess BY <1>2 DEF Hosts
  <2>2. [g EXCEPT !.host[f].ready = TRUE] = t OBVIOUS
  <2>3. g' = t /\ UNCHANGED << cli, up, linked, wishes >> BY <1>5, <2>2 DEF ProcessReady, Serve
  <2> HIDE DEF u
  <2>4. Goes(g, t, wishes, cli) BY <1>1, <2>1, HostGoes
  <2> HIDE DEF t
  <2>5. Runs(g, t, wishes, cli) BY <2>4, GoesRuns
  <2> QED BY <2>3, <2>5, ServedGoes
<1>6. CASE TurnEnds(f)
  <2> DEFINE u == [g.host[f] EXCEPT !.turn = FALSE]
             t == [g EXCEPT !.host[f] = u]
  <2>1. u \in Hosts /\ u.sess = g.host[f].sess BY <1>2 DEF Hosts
  <2>2. [g EXCEPT !.host[f].turn = FALSE] = t OBVIOUS
  <2>3. g' = t /\ UNCHANGED << cli, up, linked, wishes >> BY <1>6, <2>2 DEF TurnEnds, Serve
  <2> HIDE DEF u
  <2>4. Goes(g, t, wishes, cli) BY <1>1, <2>1, HostGoes
  <2> HIDE DEF t
  <2>5. Runs(g, t, wishes, cli) BY <2>4, GoesRuns
  <2> QED BY <2>3, <2>5, ServedGoes
<1>7. CASE EvidenceChanges(f)
  <2>1. PICK v \in Evidence : Fault([g EXCEPT !.disk[f] = v]) BY <1>7 DEF EvidenceChanges
  <2> DEFINE t == [g EXCEPT !.disk[f] = v]
  <2>2. g' = t /\ UNCHANGED << cli, up, linked, wishes >> BY <2>1 DEF Fault
  <2>3. Goes(g, t, wishes, cli) BY <1>1, WorldGoes
  <2> HIDE DEF t
  <2>4. Runs(g, t, wishes, cli) BY <2>3, GoesRuns
  <2> QED BY <2>2, <2>4, ServedGoes
<1>8. CASE ProcessExits(f)
  <2>1. g' = ProcessGone(g, f) /\ UNCHANGED << cli, up, linked, wishes >> BY <1>8 DEF ProcessExits, Fault
  <2>2. Runs(g, ProcessGone(g, f), wishes, cli) BY <1>1, ProcessGoneGoes, GoesRuns
  <2> QED BY <2>1, <2>2, ServedGoes
<1>9. CASE CreationFails(f)
  <2>1. g' = CreationEnds(g, f, FALSE) /\ UNCHANGED << cli, up, linked, wishes >>
    BY <1>9 DEF CreationFails, Fault
  <2>2. Runs(g, CreationEnds(g, f, FALSE), wishes, cli) BY <1>1, CreationEndsGoes, GoesRuns
  <2> QED BY <2>1, <2>2, ServedGoes
<1>10. CASE ReadThrows(f)
  <2>1. /\ f \in DOMAIN g.read /\ g.read[f].at = "reading"
        /\ g' = FinishRead(g, f, "threw") /\ UNCHANGED << cli, up, linked, wishes >>
    BY <1>10 DEF ReadThrows, Fault
  <2>2. Runs(g, FinishRead(g, f, "threw"), wishes, cli) BY <1>1, <2>1, FinishReadGoes, GoesRuns
  <2> QED BY <2>1, <2>2, ServedGoes
<1> QED BY <1>3, <1>4, <1>5, <1>6, <1>7, <1>8, <1>9, <1>10 DEF Work, Mishap

\* What happens to connections, the gate and the directory.
LEMMA SupervisorGoes ==
  ASSUME WriteInv, NEW c \in Conns, Supervise(c)
  PROVE  ServerGoes
<1>1. Well(g, wishes, cli, {}) BY DEF WriteInv, Whole
<1>2. CASE Fault(Expel(g, c))
  <2>1. g' = Expel(g, c) /\ UNCHANGED << cli, up, linked, wishes >> BY <1>2 DEF Fault
  <2>2. Runs(g, Expel(g, c), wishes, cli) BY <1>1, ExpelGoes, GoesRuns
  <2> QED BY <2>1, <2>2, ServedGoes
<1>3. ASSUME NEW last, Farewell(last), Final(last), Fault(CloseConn(g, c, last)) PROVE ServerGoes
  <2>1. g' = CloseConn(g, c, last) /\ UNCHANGED << cli, up, linked, wishes >> BY <1>3 DEF Fault
  <2>2. Runs(g, CloseConn(g, c, last), wishes, cli) BY <1>1, <1>3, CloseConnGoes, GoesRuns
  <2> QED BY <2>1, <2>2, ServedGoes
<1>4. CASE \E last \in {<< CloseTo(1000) >>, << ErrorTo(4432), CloseTo(1000) >>} :
             Fault(CloseConn(g, c, last))
  <2> DEFINE one == << CloseTo(1000) >>
             two == << ErrorTo(4432), CloseTo(1000) >>
  <2>1. Farewell(one) /\ Final(one) BY LastWord
  <2>2. Farewell(two) /\ Final(two) BY LastWords
  <2>3. Fault(CloseConn(g, c, one)) \/ Fault(CloseConn(g, c, two)) BY <1>4
  <2> HIDE DEF one, two
  <2> QED BY <1>3, <2>1, <2>2, <2>3
<1> QED BY <1>2, <1>4 DEF Supervise

LEMMA WorldMoves ==
  ASSUME WriteInv, ReloadTokens \/ QueueTimeout \/ DirectoryChanges \/ Dispose \/ \E i \in Ids : ListThrows(i)
  PROVE  ServerGoes
<1>1. Well(g, wishes, cli, {}) BY DEF WriteInv, Whole
<1>2. CASE ReloadTokens
  <2>1. PICK listed \in SUBSET Tokens : Fault(Reloaded(g, listed)) BY <1>2 DEF ReloadTokens
  <2>2. g' = Reloaded(g, listed) /\ UNCHANGED << cli, up, linked, wishes >> BY <2>1 DEF Fault
  <2>3. Runs(g, Reloaded(g, listed), wishes, cli) BY <1>1, ReloadedGoes, GoesRuns
  <2> QED BY <2>2, <2>3, ServedGoes
<1>3. CASE QueueTimeout
  <2>1. PICK h \in ToSet(g.gate.waiting) :
          Fault(IF h[1] = "list" THEN Failed(Withdraw(g, {h}), h[2], 4409) ELSE DropReads(g, {h[2]}))
    BY <1>3 DEF QueueTimeout
  <2> DEFINE t == IF h[1] = "list" THEN Failed(Withdraw(g, {h}), h[2], 4409) ELSE DropReads(g, {h[2]})
  <2>2. g' = t /\ UNCHANGED << cli, up, linked, wishes >> BY <2>1 DEF Fault
  <2>3. Goes(g, t, wishes, cli) BY <1>1, QueueTimeoutGoes
  <2> HIDE DEF t
  <2>4. Runs(g, t, wishes, cli) BY <2>3, GoesRuns
  <2> QED BY <2>2, <2>4, ServedGoes
<1>4. CASE DirectoryChanges
  <2>1. PICK d \in Listings : Fault([g EXCEPT !.dir = d]) BY <1>4 DEF DirectoryChanges
  <2> DEFINE t == [g EXCEPT !.dir = d]
  <2>2. g' = t /\ UNCHANGED << cli, up, linked, wishes >> BY <2>1 DEF Fault
  <2>3. Goes(g, t, wishes, cli) BY <1>1, WorldGoes
  <2> HIDE DEF t
  <2>4. Runs(g, t, wishes, cli) BY <2>3, GoesRuns
  <2> QED BY <2>2, <2>4, ServedGoes
<1>5. CASE Dispose
  <2> DEFINE t == CloseConns([g EXCEPT !.disposed = TRUE], Conns, << CloseTo(1000) >>)
  <2>1. g' = t /\ UNCHANGED << cli, up, linked, wishes >> BY <1>5 DEF Dispose, Fault
  <2>2. Goes(g, t, wishes, cli) BY <1>1, DisposeGoes
  <2> HIDE DEF t
  <2>3. Runs(g, t, wishes, cli) BY <2>2, GoesRuns
  <2> QED BY <2>1, <2>3, ServedGoes
<1>6. CASE \E i \in Ids : ListThrows(i)
  <2>1. PICK i \in Ids : ListThrows(i) BY <1>6
  <2> DEFINE t == Failed(Release(g, ListSlot(i)), i, 4402)
  <2>2. /\ i \in DOMAIN g.task /\ g.task[i].at = "running"
        /\ g' = t /\ UNCHANGED << cli, up, linked, wishes >>
    BY <2>1 DEF ListThrows, Running, Fault
  <2>3. Goes(g, t, wishes, cli) BY <1>1, <2>2, ListThrowsGoes
  <2> HIDE DEF t
  <2>4. Runs(g, t, wishes, cli) BY <2>3, GoesRuns
  <2> QED BY <2>2, <2>4, ServedGoes
<1> QED BY <1>2, <1>3, <1>4, <1>5, <1>6

\* The clients, their mail and their sockets go on.
LEMMA BecomesKeeps ==
  ASSUME WriteInv, NEW t, NEW cm, NEW post, NEW on, Whole(t, cm, post, on, wishes), DOMAIN cm = Heard,
         t.launched = g.launched, g' = t /\ cli' = cm /\ up' = post /\ linked' = on /\ wishes' = wishes
  PROVE  WriteInv' /\ LaunchSound(g, g')
<1>1. Whole(g', cli', up', linked', wishes') OBVIOUS
<1>2. DOMAIN cli' = Heard /\ \E s \in Scenarios : wishes' = s.wishes BY DEF WriteInv
<1>3. g'.launched = g.launched OBVIOUS
<1>4. LaunchSound(g, g') BY <1>3 DEF LaunchSound
<1> QED BY <1>1, <1>2, <1>4 DEF WriteInv

LEMMA ReceiveStep ==
  ASSUME WriteInv, NEW c \in Conns, Receive(c)
  PROVE  WriteInv' /\ LaunchSound(g, g')
<1> DEFINE t == Inbound(g, c, Head(up[c]))
           post == [up EXCEPT ![c] = Tail(@)]
<1>1. Whole(g, cli, up, linked, wishes) /\ DOMAIN cli = Heard BY DEF WriteInv
<1>2. up[c] # << >> BY DEF Receive
<1>3. g' = t /\ up' = post /\ cli' = cli /\ linked' = linked /\ wishes' = wishes
  BY DEF Receive
<1>4. Whole(t, cli, post, linked, wishes) /\ t.launched = g.launched BY <1>1, <1>2, ReceiveKeeps
<1> HIDE DEF t, post
<1> QED BY <1>1, <1>3, <1>4, BecomesKeeps

LEMMA CutStep ==
  ASSUME WriteInv, NEW c \in Conns, Cut(c)
  PROVE  WriteInv' /\ LaunchSound(g, g')
<1> DEFINE t == [g EXCEPT !.conn[c].wire = << CloseTo(1006) >>]
           post == [up EXCEPT ![c] = << Bye >>]
           on == linked \ {c}
<1>1. Whole(g, cli, up, linked, wishes) /\ DOMAIN cli = Heard BY DEF WriteInv
<1>2. g' = t /\ up' = post /\ cli' = cli /\ linked' = on /\ wishes' = wishes BY DEF Cut
<1>3. c \in Heard BY WritePathAssumption DEF Cut, Heard
<1>4. Whole(t, cli, post, on, wishes) /\ t.launched = g.launched BY <1>1, <1>3, CutKeeps
<1> HIDE DEF t, post, on
<1> QED BY <1>1, <1>2, <1>4, BecomesKeeps

LEMMA OpenStep ==
  ASSUME WriteInv, NEW c \in Heard, Open(c)
  PROVE  WriteInv' /\ LaunchSound(g, g')
<1> DEFINE t == Opened(g, c)
           cm == Greets(cli, c)
           post == [up EXCEPT ![c] = << Hello >>]
           on == linked \cup {c}
<1>1. Whole(g, cli, up, linked, wishes) /\ DOMAIN cli = Heard BY DEF WriteInv
<1>2. cli[c].conn = "connecting" BY DEF Open
<1>3. ~cli[c].stopped BY DEF Open
<1>4. g' = t /\ up' = post /\ cli' = cm /\ linked' = on /\ wishes' = wishes BY DEF Open, Opened, Greets
<1>5. Whole(t, cm, post, on, wishes) /\ t.launched = g.launched BY <1>1, <1>2, <1>3, OpenKeeps
<1>6. DOMAIN cm = Heard BY <1>1 DEF Greets
<1> HIDE DEF t, cm, post, on
<1> QED BY <1>4, <1>5, <1>6, BecomesKeeps

LEMMA CloseClientStep ==
  ASSUME WriteInv, NEW c \in Heard, CloseClient(c)
  PROVE  WriteInv' /\ LaunchSound(g, g')
<1> DEFINE v == IF c \in Pages THEN Stopped(cli[c]) ELSE Lists!Stopped(cli[c])
           cm == [cli EXCEPT ![c] = v]
           post == Post(up, linked, c, << Bye >>)
           on == linked \ {c}
<1>1. Whole(g, cli, up, linked, wishes) /\ DOMAIN cli = Heard BY DEF WriteInv
<1>2. g' = g /\ up' = post /\ cli' = cm /\ linked' = on /\ wishes' = wishes
  BY DEF CloseClient, Emitted, Post
<1>3. ~cli[c].stopped BY DEF CloseClient
<1>4. Whole(g, cm, post, on, wishes) BY <1>1, <1>3, CloseClientKeeps
<1>5. DOMAIN cm = Heard BY <1>1
<1> HIDE DEF cm, post, on
<1> QED BY <1>2, <1>4, <1>5, BecomesKeeps

LEMMA RootsTimeoutStep ==
  ASSUME WriteInv, NEW c \in Listers, RootsTimeout(c)
  PROVE  WriteInv' /\ LaunchSound(g, g')
<1> DEFINE cm == [cli EXCEPT ![c] = Lists!SettleRoots(@, "failed")]
<1>1. Whole(g, cli, up, linked, wishes) /\ DOMAIN cli = Heard BY DEF WriteInv
<1>2. g' = g /\ up' = up /\ cli' = cm /\ linked' = linked /\ wishes' = wishes BY DEF RootsTimeout
<1>3. Whole(g, cm, up, linked, wishes) BY <1>1, RootsTimeoutKeeps
<1>4. DOMAIN cm = Heard BY <1>1
<1> HIDE DEF cm
<1> QED BY <1>2, <1>3, <1>4, BecomesKeeps

LEMMA ReadStep ==
  ASSUME WriteInv, NEW c \in Heard, Read(c)
  PROVE  WriteInv' /\ LaunchSound(g, g')
<1> DEFINE f == Head(g.conn[c].wire)
           t == WithoutHead(g, c)
           on == After(linked, c, f)
<1>1. Whole(g, cli, up, linked, wishes) /\ DOMAIN cli = Heard BY DEF WriteInv
<1>2. g.conn[c].wire # << >> BY DEF Read
<1>3. g' = t /\ linked' = on /\ wishes' = wishes BY DEF Read, WithoutHead, After
<1>4. CASE c \in Pages
  <2> DEFINE cm == [cli EXCEPT ![c] = Hears(@, f)]
  <2>1. cli' = cm /\ up' = up BY <1>4 DEF Read
  <2>2. Whole(t, cm, up, on, wishes) /\ t.launched = g.launched BY <1>1, <1>4, <1>2, ReadPageKeeps
  <2>3. DOMAIN cm = Heard BY <1>1
  <2> HIDE DEF t, on, cm
  <2> QED BY <1>3, <2>1, <2>2, <2>3, BecomesKeeps
<1>5. CASE c \notin Pages
  <2>1. PICK sent \in Taken(c) : ListerActs(c, Lists!Hears(cli[c], f, sent), sent) BY <1>5 DEF Read
  <2>2. sent \in BOOLEAN /\ c \in Listers BY <1>5 DEF Taken, Heard
  <2> DEFINE n == Lists!Hears(cli[c], f, sent)
             cm == [cli EXCEPT ![c] = n]
             post == Post(up, linked, c, ListMessages(cli[c], n, sent))
  <2>3. cli' = cm /\ up' = post BY <2>1 DEF ListerActs, Emitted, Post
  <2>4. Whole(t, cm, post, on, wishes)
    <3>1. Whole(g, cli, up, linked, wishes) BY <1>1
    <3>2. DOMAIN cli = Heard BY <1>1
    <3>3. sent \in BOOLEAN BY <2>2
    <3>4. c \in Listers BY <2>2
    <3> QED BY <1>2, <3>1, <3>2, <3>3, <3>4, ReadListKeeps
  <2>5. t.launched = g.launched BY DEF WithoutHead
  <2>6. DOMAIN cm = Heard BY <1>1
  <2> HIDE DEF t, on, cm, post
  <2> QED BY <1>3, <2>3, <2>4, <2>5, <2>6, BecomesKeeps
<1> QED BY <1>4, <1>5

LEMMA AskStep ==
  ASSUME WriteInv, NEW i \in 1 .. MaxAsked, Ask(i)
  PROVE  WriteInv' /\ LaunchSound(g, g')
<1> DEFINE w == wishes[i]
           u == cli[w.by]
<1>1. Whole(g, cli, up, linked, wishes) /\ DOMAIN cli = Heard BY DEF WriteInv
<1>2. i \in DOMAIN wishes /\ i \in Nat /\ g' = g /\ linked' = linked /\ wishes' = wishes
  BY WritePathAssumption DEF Ask
<1>3. w.by \in Conns BY <1>2, WritePathAssumption DEF WriteInv
<1>4. CASE w.by \in Pages
  <2> DEFINE id == << "write", i >>
             cm == [cli EXCEPT ![w.by] = Placed(@, Entry(id, w.kind, w.file))]
             post == Post(up, linked, w.by, << Request(id, w.kind, w.file, w.n) >>)
  <2>1. w.by \notin Listers BY <1>4, HostAssumption
  <2>2. AskWrite(i) BY <1>4, <2>1 DEF Ask
  <2>3. MayLaunch(u, w.kind, w.file) /\ cli' = cm /\ up' = post BY <2>2 DEF AskWrite, Emitted, Post
  <2>4. Whole(g, cm, post, linked, wishes) BY <1>1, <1>2, <1>4, <2>3, AskWriteKeeps
  <2>5. DOMAIN cm = Heard BY <1>1
  <2> HIDE DEF cm, post
  <2> QED BY <1>2, <2>3, <2>4, <2>5, BecomesKeeps
<1>5. CASE w.by \in Listers
  <2>1. w.by \notin Pages BY <1>5, HostAssumption
  <2>2. AskList(i) BY <1>5, <2>1 DEF Ask
  <2>3. PICK sent \in Taken(w.by) :
          \/ w.kind = "refresh" /\ ListerActs(w.by, Lists!RequestSessions(u, sent), sent)
          \/ /\ w.kind = "more" /\ Lists!MayRequestMore(u)
             /\ ListerActs(w.by, Lists!RequestMoreSessions(u, sent), sent)
          \/ /\ w.kind = "models" /\ Lists!MayRequestModels(u)
             /\ ListerActs(w.by, Lists!RequestModels(u), sent)
          \/ /\ w.kind = "roots" /\ Lists!MayRequestRoots(u)
             /\ ListerActs(w.by, Lists!RequestRoots(u, sent), sent)
    BY <2>2 DEF AskList
  <2>4. PICK n : /\ ListerActs(w.by, n, sent)
                 /\ \/ n = Lists!RequestSessions(u, sent)
                    \/ Lists!MayRequestMore(u) /\ n = Lists!RequestMoreSessions(u, sent)
                    \/ n = Lists!RequestModels(u)
                    \/ n = Lists!RequestRoots(u, sent)
    BY <2>3
  <2>5. sent \in BOOLEAN /\ Lists!Usable(u) BY <2>2 DEF Taken, AskList
  <2> DEFINE cm == [cli EXCEPT ![w.by] = n]
             post == Post(up, linked, w.by, ListMessages(u, n, sent))
  <2>6. cli' = cm /\ up' = post BY <2>4 DEF ListerActs, Emitted, Post
  <2>7. Whole(g, cm, post, linked, wishes) BY <1>1, <1>5, <2>4, <2>5, AskListKeeps
  <2>8. DOMAIN cm = Heard BY <1>1
  <2> HIDE DEF cm, post
  <2> QED BY <1>2, <2>6, <2>7, <2>8, BecomesKeeps
<1>6. CASE w.by \notin Heard
  <2>1. w.by \notin Pages /\ w.by \notin Listers BY <1>6 DEF Heard
  <2>2. AskRaw(i) BY <2>1 DEF Ask
  <2> DEFINE post == Post(up, linked, w.by, << Raw(w.frame) >>)
  <2>3. cli' = cli /\ up' = post BY <2>2 DEF AskRaw, Emitted, Post
  <2>4. Whole(g, cli, post, linked, wishes) BY <1>1, <1>2, <1>3, <1>6, RawKeeps
  <2> HIDE DEF post
  <2> QED BY <1>1, <1>2, <2>3, <2>4, BecomesKeeps
<1> QED BY <1>3, <1>4, <1>5, <1>6 DEF Heard

\* A list that is there from the start shows the first page of the first listing.
LEMMA ReadyIs ==
  ASSUME NEW c \in Heard
  PROVE  LET u == ReadyClient(c)
         IN /\ u.conn = "ready" /\ ~u.stopped
            /\ c \in Pages => /\ u \in PageClients /\ u.pending = {} /\ u.inflight = {}
                              /\ u.resuming = {}
            /\ c \in Listers => /\ u \in ListerClients /\ ~u.pending /\ ~u.rootsPending
                                /\ Stretch(<< FirstListing >>, u)
<1> DEFINE u == ReadyClient(c)
<1>1. CASE c \in Pages
  <2>1. u = [FreshClient EXCEPT !.conn = "ready"] BY <1>1 DEF ReadyClient
  <2>2. c \notin Listers BY <1>1, HostAssumption
  <2>3. /\ u.conn = "ready" /\ u.stopped = FALSE /\ u.pending = {} /\ u.inflight = {}
        /\ u.resuming = {} /\ u \in PageClients
    BY <2>1 DEF FreshClient, PageClients, ConnStates
  <2> QED BY <2>2, <2>3
<1>2. CASE c \notin Pages
  <2> DEFINE list == FirstListing
             k == IF PageSize < Len(list) THEN PageSize ELSE Len(list)
             rows == ToSet(SubSeq(list, 1, k))
             more == k < Len(list)
  <2>1. list \in Listings /\ list \in Seq(ToSet(list)) BY WritePathAssumption
  <2>2. Len(list) \in Nat BY <2>1
  <2>3. k \in Nat /\ k <= Len(list) /\ k \in 0 .. Len(list) BY <2>2, HostAssumption
  <2>4. rows \in SUBSET Rows
    <3>1. ToSet(SubSeq(list, 0 + 1, k)) = {list[j] : j \in 0 + 1 .. k} BY <2>1, <2>3, StretchIs
    <3>2. \A j \in 1 .. k : list[j] \in ToSet(list) BY <2>1, <2>2, <2>3
    <3>3. ToSet(list) \subseteq Rows BY <2>1 DEF Rows
    <3> QED BY <3>1, <3>2, <3>3
  <2>5. more \in BOOLEAN OBVIOUS
  <2> DEFINE base == Lists!FreshLister
  <2>6. u = [base EXCEPT !.conn = "ready", !.version = 1, !.next = k, !.sessions = rows, !.more = more]
    BY <1>2 DEF ReadyClient
  <2>7. base \in ListerClients BY DEF Lists!FreshLister, ListerClients, ConnStates, Outcomes
  <2>8. ~base.stopped /\ ~base.pending /\ ~base.rootsPending BY DEF Lists!FreshLister
  <2> HIDE DEF base, rows, more, k
  <2>9. /\ u.conn = "ready" /\ u.stopped = base.stopped /\ u.pending = base.pending
        /\ u.rootsPending = base.rootsPending /\ u.version = 1 /\ u.next = k /\ u.sessions = rows
        /\ u.more = more /\ u \in ListerClients
    <3> HIDE DEF u
    <3> QED BY <2>3, <2>4, <2>5, <2>6, <2>7 DEF ListerClients, ConnStates
  <2> HIDE DEF u
  <2>10. Stretch(<< FirstListing >>, u) BY <2>3, <2>9 DEF Stretch, rows, more
  <2>11. /\ u.conn = "ready" /\ ~u.stopped /\ u \in ListerClients /\ ~u.pending /\ ~u.rootsPending
    BY <2>8, <2>9
  <2> QED BY <1>2, <2>10, <2>11 DEF u
<1> QED BY <1>1, <1>2

\* Who is still to connect.
LEMMA LateIs ==
  ASSUME NEW c \in Heard
  PROVE  LET u == LateClient(c)
         IN /\ u.conn = "connecting" /\ ~u.stopped
            /\ c \in Pages => /\ u \in PageClients /\ u.pending = {} /\ u.inflight = {}
                              /\ u.resuming = {}
            /\ c \in Listers => /\ u \in ListerClients /\ ~u.pending /\ ~u.rootsPending
                                /\ Stretch(<< FirstListing >>, u)
<1> DEFINE u == LateClient(c)
<1>1. CASE c \in Pages
  <2>1. u = FreshClient /\ c \notin Listers BY <1>1, HostAssumption DEF LateClient
  <2> QED BY <2>1 DEF FreshClient, PageClients, ConnStates
<1>2. CASE c \notin Pages
  <2>1. u = Lists!FreshLister BY <1>2 DEF LateClient
  <2>2. u \in ListerClients BY <2>1 DEF Lists!FreshLister, ListerClients, ConnStates, Outcomes
  <2>3. u.conn = "connecting" /\ ~u.stopped /\ ~u.pending /\ ~u.rootsPending /\ u.version = 0
    BY <2>1 DEF Lists!FreshLister
  <2>4. Stretch(<< FirstListing >>, u) BY <2>3 DEF Stretch
  <2> QED BY <1>2, <2>2, <2>3, <2>4
<1> QED BY <1>1, <1>2

\* The server as it starts, for who is late.
FirstServer(late) ==
  [conn |-> [c \in Conns |-> FreshConn(c \notin late)], task |-> << >>,
   gate |-> FreshGate, read |-> << >>, host |-> [f \in Roots |-> FreshSession],
   disk |-> [f \in Roots |-> "listed"], dir |-> FirstListing,
   versions |-> << FirstListing >>, launched |-> {}, disposed |-> FALSE, tokens |-> Tokens]

LEMMA FirstWell ==
  ASSUME NEW late, NEW W, WishesSound(W), NEW cl
  PROVE  Well(FirstServer(late), W, cl, {})
<1> DEFINE s == FirstServer(late)
           none == << >>
<1>1. /\ s.task = none /\ s.read = none /\ s.gate = FreshGate
      /\ s.versions = << FirstListing >> /\ s.launched = {} /\ s.disposed = FALSE /\ s.tokens = Tokens
      /\ s.conn = [c \in Conns |-> FreshConn(c \notin late)]
      /\ s.host = [f \in Roots |-> FreshSession]
      /\ s.disk = [f \in Roots |-> "listed"] /\ s.dir = FirstListing
  BY DEF FirstServer
<1>2. DOMAIN none = {} /\ \A K, R : none \in Tables(K, R)
  <2>1. DOMAIN none = {} OBVIOUS
  <2>2. ASSUME NEW K, NEW R PROVE none \in Tables(K, R)
    <3>1. none \in [{} -> R] OBVIOUS
    <3>2. {} \in SUBSET K OBVIOUS
    <3> QED BY <3>1, <3>2 DEF Tables
  <2> QED BY <2>1, <2>2
<1>3. \A c \in Conns :
        /\ s.conn[c] \in Sides /\ s.conn[c].inflight = {} /\ s.conn[c].wire = none
        /\ s.conn[c].open = (c \notin late) /\ s.conn[c].authed = (c \notin late)
  <2> TAKE c \in Conns
  <2> DEFINE here == c \notin late
             x == FreshConn(here)
  <2>1. s.conn[c] = x BY <1>1
  <2>2. here \in BOOLEAN OBVIOUS
  <2> HIDE DEF here
  <2>3. x \in Sides /\ x.inflight = {} /\ x.wire = << >> /\ x.open = here /\ x.authed = here
    BY <2>2 DEF FreshConn, Sides
  <2> HIDE DEF x
  <2> QED BY <2>1, <2>3 DEF here
<1> HIDE DEF none
<1>4. s \in Servers
  <2>1. s.conn \in [Conns -> Sides] BY <1>1, <1>3
  <2>2. s.gate \in Gates BY <1>1 DEF FreshGate, Gates
  <2>3. s.host \in [Roots -> Hosts] BY <1>1 DEF FreshSession, Hosts
  <2>4. s.disk \in [Roots -> Evidence] BY <1>1 DEF Evidence
  <2>5. s.dir \in Listings /\ s.versions \in Seq(Listings) BY <1>1, WritePathAssumption
  <2>6. s.task \in Tables(AllIds, Tasks) /\ s.read \in Tables(Roots, Reads) BY <1>1, <1>2
  <2>7. s.launched \in SUBSET AllIds /\ s.disposed \in BOOLEAN /\ s.tokens \in SUBSET Tokens BY <1>1
  <2> QED BY <2>1, <2>2, <2>3, <2>4, <2>5, <2>6, <2>7 DEF Servers, FirstServer
<1> HIDE DEF s
<1>5. TasksSound(s, W) /\ EvidenceSound(s) /\ Awaited(s) BY <1>1, <1>2 DEF TasksSound, EvidenceSound, Awaited
<1>6. WiresSound(s, W) /\ PagesSound(s, cl) BY <1>1, <1>2, <1>3 DEF WiresSound, PagesSound
<1>7. Slotted(s) BY <1>1, <1>2, <1>3 DEF Slotted
<1>8. TokensHold(s) /\ ShutWhenDisposed(s) BY <1>1, WritePathAssumption DEF TokensHold, ShutWhenDisposed
<1>9. GateSound(s, {})
  <2>1. s.gate.active = {} /\ s.gate.waiting = << >> BY <1>1 DEF FreshGate
  <2>2. QueuedSlots(s) = {} /\ BusySlots(s) = {} BY <1>1, <1>2 DEF QueuedSlots, BusySlots
  <2>3. IsFiniteSet({}) /\ Cardinality({}) = 0 BY FS_EmptySet
  <2>4. ToSet(<< >>) = {} /\ IsInjective(<< >>) BY DEF ToSet, IsInjective
  <2>5. GateLimit \in Nat \ {0} BY HostAssumption
  <2> QED BY <2>1, <2>2, <2>3, <2>4, <2>5 DEF GateSound
<1> QED BY <1>4, <1>5, <1>6, <1>7, <1>8, <1>9 DEF Well, Sound, s

LEMMA InitIs ==
  ASSUME Init
  PROVE  WriteInv
<1>1. PICK s \in Scenarios :
        /\ g = FirstServer(s.late)
        /\ cli = [c \in Heard |-> IF c \in s.late THEN LateClient(c) ELSE ReadyClient(c)]
        /\ up = [c \in Conns |-> << >>]
        /\ linked = Conns \ s.late
        /\ wishes = s.wishes
  BY DEF Init, FirstServer
<1> DEFINE late == s.late
<1>2. WishesSound(wishes) BY <1>1, WritePathAssumption DEF WishesSound
<1>3. Well(g, wishes, cli, {})
  <2>1. Well(FirstServer(late), wishes, cli, {}) BY <1>2, FirstWell
  <2> QED BY <1>1, <2>1
<1>4. Posted(wishes, cli, up)
  <2>1. up \in [Conns -> Seq(Mail(wishes))] /\ \A c \in Conns : up[c] = << >> BY <1>1
  <2> QED BY <2>1 DEF Posted
<1>5. ASSUME NEW c \in Heard PROVE Face(g, cli[c], up[c], linked, wishes, c)
  <2>1. c \in Conns BY HostAssumption DEF Heard
  <2>2. /\ g.conn[c].open = (c \notin late) /\ g.conn[c].authed = (c \notin late)
        /\ g.versions = << FirstListing >> /\ up[c] = << >> /\ (c \in linked <=> c \notin late)
    BY <1>1, <2>1 DEF FirstServer, FreshConn
  <2> DEFINE u == cli[c]
  <2>3. /\ c \in late => u.conn = "connecting"
        /\ c \notin late => u.conn = "ready"
        /\ ~u.stopped
        /\ c \in Pages => u \in PageClients /\ u.pending = {} /\ u.inflight = {} /\ u.resuming = {}
        /\ c \in Listers => /\ u \in ListerClients /\ ~u.pending /\ ~u.rootsPending
                            /\ Stretch(<< FirstListing >>, u)
    <3>1. CASE c \in late
      <4>1. u = LateClient(c) BY <1>1, <3>1
      <4> QED BY <3>1, <4>1, LateIs
    <3>2. CASE c \notin late
      <4>1. u = ReadyClient(c) BY <1>1, <3>2
      <4> QED BY <3>2, <4>1, ReadyIs
    <3> QED BY <3>1, <3>2
  <2> HIDE DEF u
  <2>4. LinkSound(g, u, up[c], linked, c)
    <3>1. c \in late => ~g.conn[c].open /\ ~g.conn[c].authed BY <2>2
    <3>2. c \notin late => g.conn[c].open /\ c \in linked BY <2>2
    <3>3. DOMAIN up[c] = {} BY <2>2
    <3> QED BY <2>3, <3>1, <3>2, <3>3 DEF LinkSound
  <2>5. c \in Pages => PageKept(g, u, up[c], wishes, c) BY <2>3, IdlePage
  <2>6. c \in Listers => ListerKept(g, u, up[c], c) BY <2>2, <2>3 DEF ListerKept
  <2> QED BY <2>4, <2>5, <2>6 DEF Face, u
<1>6. DOMAIN cli = Heard BY <1>1
<1> QED BY <1>1, <1>3, <1>4, <1>5, <1>6 DEF WriteInv, Whole

\* Every step keeps the invariant, and launches nothing on old evidence.
LEMMA NextKeeps ==
  ASSUME WriteInv, [Next]_vars
  PROVE  WriteInv' /\ LaunchSound(g, g')
<1>1. CASE UNCHANGED vars
  <2>1. g' = g /\ cli' = cli /\ up' = up /\ linked' = linked /\ wishes' = wishes BY <1>1 DEF vars
  <2>2. LaunchSound(g, g') BY <2>1 DEF LaunchSound
  <2> QED BY <2>1, <2>2 DEF WriteInv
<1>2. ASSUME NEW c \in Conns, Receive(c) \/ Supervise(c) \/ Cut(c)
      PROVE  WriteInv' /\ LaunchSound(g, g')
  <2>1. CASE Receive(c) BY <2>1, ReceiveStep
  <2>2. CASE Supervise(c)
    <3>1. ServerGoes BY <2>2, SupervisorGoes
    <3> QED BY <3>1, ServerKeeps
  <2>3. CASE Cut(c) BY <2>3, CutStep
  <2> QED BY <1>2, <2>1, <2>2, <2>3
<1>3. ASSUME NEW c \in Heard, Open(c) \/ Read(c) \/ CloseClient(c)
      PROVE  WriteInv' /\ LaunchSound(g, g')
  BY <1>3, OpenStep, ReadStep, CloseClientStep
<1>4. ASSUME NEW c \in Listers, RootsTimeout(c)
      PROVE  WriteInv' /\ LaunchSound(g, g')
  BY <1>4, RootsTimeoutStep
<1>5. ASSUME NEW i \in 1 .. MaxAsked, Ask(i)
      PROVE  WriteInv' /\ LaunchSound(g, g')
  BY <1>5, AskStep
<1>6. ASSUME NEW i \in Ids, Continue(i) \/ ListThrows(i)
      PROVE  WriteInv' /\ LaunchSound(g, g')
  <2>1. ServerGoes BY <1>6, ContinueGoes, WorldMoves
  <2> QED BY <2>1, ServerKeeps
<1>7. ASSUME NEW f \in Roots, Work(f) \/ Mishap(f) \/ TurnEnds(f)
      PROVE  WriteInv' /\ LaunchSound(g, g')
  <2>1. ServerGoes BY <1>7, FileGoes
  <2> QED BY <2>1, ServerKeeps
<1>8. ASSUME ReloadTokens \/ QueueTimeout \/ DirectoryChanges \/ Dispose
      PROVE  WriteInv' /\ LaunchSound(g, g')
  <2>1. ServerGoes BY <1>8, WorldMoves
  <2> QED BY <2>1, ServerKeeps
<1> QED BY <1>1, <1>2, <1>3, <1>4, <1>5, <1>6, <1>7, <1>8 DEF Next

-------------------------------------------------------------------------------
(* The results *)

(* The inductive invariant: the server's tables, the frames and messages on every
   wire and what each page and list believes fit one another (ws-gateway.ts,
   compute-semaphore.ts, composition.ts, rpc-write-host.ts, write-client.ts and
   ws-client.ts), in every reachable state. *)
THEOREM WritePathHolds == Spec => []WriteInv
<1>1. Init => WriteInv BY InitIs
<1>2. WriteInv /\ [Next]_vars => WriteInv' BY NextKeeps
<1> QED BY <1>1, <1>2, PTL DEF Spec

(* A resume launches only on evidence that was read after the request came in and
   that lists the intent, and into the generation it names unless no process was
   running when that was checked (rpc-write-host.ts, resume), however the read was
   shared and whoever gave it up. *)
THEOREM ResumesAreFresh == Spec => ResumeActsOnFreshEvidence
<1> DEFINE A == \A i \in g'.launched \ g.launched :
                  LET t == g.task[i]
                  IN t.kind = "resume" =>
                       /\ t.fresh /\ t.got = "listed"
                       /\ t.live # 0 => g'.host[t.file].live = t.named
<1>1. WriteInv /\ [Next]_vars => A BY NextKeeps DEF LaunchSound
<1>2. WriteInv /\ [Next]_vars => [A]_vars BY <1>1
<1>3. Spec => [][A]_vars BY <1>2, WritePathHolds, PTL DEF Spec
<1> QED BY <1>3 DEF ResumeActsOnFreshEvidence

(* What a page shows as its list is a stretch of one version of the listing from its
   first row on, without a gap, and it offers more exactly when there is more
   (ws-client.ts, case "sessions"; ws-gateway.ts, handleList). *)
THEOREM ListsAgree == Spec => []ListsOfOneVersion
<1>1. WriteInv => ListsOfOneVersion
  <2> SUFFICES ASSUME WriteInv, NEW c \in Listers, cli[c].version # 0
               PROVE  /\ cli[c].sessions
                           = ToSet(SubSeq(g.versions[cli[c].version], 1, cli[c].next))
                      /\ cli[c].more = (cli[c].next < Len(g.versions[cli[c].version]))
    BY DEF ListsOfOneVersion
  <2>1. Face(g, cli[c], up[c], linked, wishes, c) BY DEF WriteInv, Whole, Heard
  <2>2. Stretch(g.versions, cli[c]) BY <2>1 DEF Face, ListerKept
  <2> QED BY <2>2 DEF Stretch
<1> QED BY <1>1, WritePathHolds, PTL

LEMMA ImageCounts ==
  ASSUME NEW S, IsFiniteSet(S), NEW F, DOMAIN F = S, \A d, e \in S : F[d] = F[e] => d = e,
         NEW T, T = {F[e] : e \in S}, F \in [S -> T]
  PROVE  Cardinality(T) = Cardinality(S)
<1>1. F \in Injection(S, T) BY DEF Injection, IsInjective
<1>2. F \in Surjection(S, T) BY DEF Surjection
<1>3. ExistsBijection(S, T) BY <1>1, <1>2 DEF ExistsBijection, Bijection
<1> QED BY <1>3, FS_Bijection

\* Each view of the promises has one member for each promise it is about.
LEMMA ViewsCount ==
  ASSUME NEW s, NEW u, NEW q, NEW W, NEW c, PageKept(s, u, q, W, c)
  PROVE  LET resumes == {e \in u.pending : e.kind = "resume"}
             others  == u.pending \ resumes
         IN /\ u.inflight = {<< e.kind, e.file >> : e \in others}
            /\ u.resuming = {e.file : e \in resumes}
            /\ Cardinality(u.pending) = Cardinality(u.inflight) + Cardinality(u.resuming)
<1> DEFINE R == {e \in u.pending : e.kind = "resume"}
           O == u.pending \ R
           H == [e \in O |-> << e.kind, e.file >>]
           K == [e \in R |-> e.file]
<1>1. IsFiniteSet(u.pending) /\ \A d, e \in u.pending : d.kind = e.kind /\ d.file = e.file => d = e
  BY DEF PageKept
<1>2. O = {d \in u.pending : d.kind # "resume"} OBVIOUS
<1>3. u.inflight = {<< e.kind, e.file >> : e \in O} /\ u.resuming = {e.file : e \in R}
  BY <1>2 DEF PageKept
<1>4. IsFiniteSet(R) /\ IsFiniteSet(O) BY <1>1, FS_Subset
<1>5. Cardinality(u.inflight) = Cardinality(O)
  <2>1. \A d, e \in O : H[d] = H[e] => d = e
    <3> SUFFICES ASSUME NEW d \in O, NEW e \in O, << d.kind, d.file >> = << e.kind, e.file >>
                 PROVE  d = e
      OBVIOUS
    <3>1. d.kind = e.kind /\ d.file = e.file OBVIOUS
    <3> QED BY <1>1, <3>1
  <2>2. u.inflight = {H[e] : e \in O} BY <1>3
  <2>3. DOMAIN H = O /\ H \in [O -> u.inflight] BY <1>3
  <2> HIDE DEF H, O
  <2> QED BY <1>4, <2>1, <2>2, <2>3, ImageCounts
<1>6. Cardinality(u.resuming) = Cardinality(R)
  <2>1. \A d, e \in R : K[d] = K[e] => d = e BY <1>1
  <2>2. u.resuming = {K[e] : e \in R} BY <1>3
  <2>3. DOMAIN K = R /\ K \in [R -> u.resuming] BY <1>3
  <2> HIDE DEF K, R
  <2> QED BY <1>4, <2>1, <2>2, <2>3, ImageCounts
<1>7. Cardinality(O) = Cardinality(u.pending) - Cardinality(R)
  <2>1. u.pending \cap R = R OBVIOUS
  <2> QED BY <1>1, <2>1, FS_Difference
<1>8. Cardinality(R) \in Nat /\ Cardinality(u.pending) \in Nat BY <1>1, <1>4, FS_CardinalityType
<1>9. Cardinality(u.pending) = Cardinality(u.inflight) + Cardinality(u.resuming)
  BY <1>5, <1>6, <1>7, <1>8
<1> QED BY <1>3, <1>9

(* Four books kept apart agree in every state: a connection's slots are its
   unanswered requests, the compute gate knows who holds it and who waits, the tables
   of shared reads and creations know everyone who waits for one, and the page's
   promises and their views each have an answer on the way (ws-gateway.ts,
   compute-semaphore.ts, composition.ts, rpc-write-host.ts, write-client.ts). *)
THEOREM BooksAgree == Spec => []BooksBalance
<1>1. ASSUME WriteInv PROVE BooksBalance
  <2>1. Sound(g, wishes, cli) /\ GateSound(g, {}) BY <1>1 DEF WriteInv, Whole, Well
  <2>2. SlotsExact BY <2>1 DEF Sound, Slotted, SlotsExact
  <2>3. GateExact
    <3>1. /\ g.gate.active = BusySlots(g) /\ ToSet(g.gate.waiting) = QueuedSlots(g)
          /\ IsInjective(g.gate.waiting) /\ Cardinality(g.gate.active) <= GateLimit
          /\ g.gate.waiting # << >> => ~Room(g)
      BY <2>1 DEF GateSound
    <3>2. \A at : {j \in DOMAIN g.task : Running(j, at)} = {j \in DOMAIN g.task : g.task[j].at = at}
      BY DEF Running
    <3> QED BY <3>1, <3>2 DEF GateExact, BusySlots, QueuedSlots
  <2>4. AwaitedIsUnderWay BY <2>1 DEF Sound, Awaited, AwaitedIsUnderWay, Running
  <2>5. \A c \in Pages : PageKept(g, cli[c], up[c], wishes, c) BY <1>1 DEF WriteInv, Whole, Face, Heard
  <2>6. ViewsAgree BY <2>5, ViewsCount DEF ViewsAgree
  <2>7. ASSUME NEW c, NEW id, Comes(g, up[c], c, id) PROVE AnswerComes(c, id)
    BY <2>7 DEF Comes, Pledged, AnswerComes
  <2>8. NothingForgotten
    <3>1. \A c \in Pages : \A e \in cli[c].pending : Comes(g, up[c], c, e.id) BY <2>5 DEF PageKept
    <3>2. \A c \in Listers : ListerKept(g, cli[c], up[c], c) BY <1>1 DEF WriteInv, Whole, Face, Heard
    <3>3. \A c \in Listers :
            /\ cli[c].pending => Comes(g, up[c], c, << "list", cli[c].seq >>)
            /\ cli[c].rootsPending => Comes(g, up[c], c, << "roots", cli[c].rootsSeq >>)
      BY <3>2 DEF ListerKept
    <3> QED BY <2>7, <3>1, <3>3 DEF NothingForgotten
  <2>9. RevokedAreOut BY <2>1 DEF Sound, TokensHold, RevokedAreOut
  <2> QED BY <2>2, <2>3, <2>4, <2>6, <2>8, <2>9 DEF BooksBalance
<1> QED BY <1>1, WritePathHolds, PTL
===============================================================================
