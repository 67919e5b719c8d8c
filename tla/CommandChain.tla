----------------------------- MODULE CommandChain -----------------------------
(***************************************************************************)
(* The chain of command of Organization: the direct reports of a seat and  *)
(* the walks down and up from it.                                          *)
(***************************************************************************)
EXTENDS Integers, FiniteSets

CONSTANTS
  Seats,
  Parent,   \* [Seats -> Seats or NoSeat]: parentId
  NoSeat

\* Every seat is a step further from the top than the one it reports to.  The
\* loader checks that a parent exists, and nothing keeps the parents from
\* forming a circle, in which neither walk would end.
ASSUME ChainAssumption ==
  /\ IsFiniteSet(Seats)
  /\ NoSeat \notin Seats
  /\ Parent \in [Seats -> Seats \cup {NoSeat}]
  /\ \E depth \in [Seats -> 0..(Cardinality(Seats) - 1)] :
       \A s \in Seats : Parent[s] # NoSeat => depth[s] > depth[Parent[s]]

\* Organization.children.
Children(seat) == {s \in Seats : Parent[s] = seat}

\* (slip) The stack is not refilled.
Descendants_Children(seat) == Children(seat)

\* Organization.descendants: the seats the stack comes to hold, one generation
\* after the other.
Descendants(seat) ==
  LET generation[n \in 1..Cardinality(Seats)] ==
        IF n = 1
        THEN Children(seat)
        ELSE UNION {Children(s) : s \in generation[n - 1]}
  IN  {s \in Seats : \E n \in 1..Cardinality(Seats) : s \in generation[n]}

\* Organization.ancestors: the seats met on the way up.
Ancestors(seat) ==
  LET after[n \in 0..Cardinality(Seats)] ==
        IF n = 0 THEN seat
        ELSE IF after[n - 1] = NoSeat THEN NoSeat ELSE Parent[after[n - 1]]
  IN  {after[n] : n \in 1..Cardinality(Seats)} \ {NoSeat}
==============================================================================
