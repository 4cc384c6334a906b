------------------------------ MODULE TurnQueue ------------------------------
(* What a pool of sessions promises the callers that ask it for one: a session  *)
(* is lent to one caller at a time, and the callers are served in the order in  *)
(* which they asked. Each caller asks one pool.                                 *)
EXTENDS Naturals, Sequences

CONSTANTS Callers, Pools, Asks, Sessions, None

VARIABLES
  line,   \* of each pool, the callers that wait, the first to ask first
  lent    \* of each caller, the session it holds, or None

queueVars == <<line, lent>>

\* The sessions of a pool no caller holds.
Free(p) == {s \in Sessions : \A c \in Callers : Asks[c] = p => lent[c] # s}

Init ==
  /\ line = [p \in Pools |-> <<>>]
  /\ lent = [c \in Callers |-> None]

\* A caller asks and waits.
Join(p, c) ==
  /\ Asks[c] = p
  /\ lent[c] = None
  /\ \A i \in DOMAIN line[p] : line[p][i] # c
  /\ line' = [line EXCEPT ![p] = Append(@, c)]
  /\ UNCHANGED lent

\* A caller asks with nobody before it, and is served at once.
JoinServed(p, c) ==
  /\ Asks[c] = p
  /\ lent[c] = None
  /\ line[p] = <<>>
  /\ \E s \in Free(p) : lent' = [lent EXCEPT ![c] = s]
  /\ UNCHANGED line

\* The first in line gets a free session.
Serve(p) ==
  /\ line[p] # <<>>
  /\ \E s \in Free(p) : lent' = [lent EXCEPT ![Head(line[p])] = s]
  /\ line' = [line EXCEPT ![p] = Tail(@)]

\* A caller gives its session back.
GiveBack(c) ==
  /\ lent[c] # None
  /\ lent' = [lent EXCEPT ![c] = None]
  /\ UNCHANGED line

Next ==
  \/ \E p \in Pools : Serve(p) \/ \E c \in Callers : Join(p, c) \/ JoinServed(p, c)
  \/ \E c \in Callers : GiveBack(c)

Spec == Init /\ [][Next]_queueVars

=============================================================================
