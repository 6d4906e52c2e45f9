------------------------------ MODULE RowStream ------------------------------
(***************************************************************************)
(* What the read path promises: each incarnation of a history file is a    *)
(* stream of rows that only grows, and what a viewer has is the beginning  *)
(* of one stream, in its order.  A viewer may start over.                  *)
(***************************************************************************)
EXTENDS Integers, Sequences, SequencesExt

CONSTANTS Viewers

VARIABLES
  streams,  \* the rows of every stream
  view      \* view[v]: the stream a viewer follows, 0 for none, and what it has

streamVars == << streams, view >>

Blank == [of |-> 0, has |-> << >>]

StreamInit == streams = << >> /\ view = [v \in Viewers |-> Blank]

\* Streams are added or continued.
Grow ==
  /\ Len(streams') >= Len(streams)
  /\ \A i \in DOMAIN streams : IsPrefix(streams[i], streams'[i])

StartsOver(v) == view'[v].has = << >>
Extends(v) ==
  /\ view'[v].of \in DOMAIN streams'
  /\ view'[v].of = view[v].of \/ view[v].has = << >>
  /\ IsPrefix(view[v].has, view'[v].has)
  /\ IsPrefix(view'[v].has, streams'[view'[v].of])

StreamNext ==
  /\ Grow
  /\ DOMAIN view' = Viewers
  /\ \A v \in Viewers : view'[v] = view[v] \/ StartsOver(v) \/ Extends(v)

StreamSpec == StreamInit /\ [][StreamNext]_streamVars
===============================================================================
