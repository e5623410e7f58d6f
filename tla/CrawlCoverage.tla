--------------------------- MODULE CrawlCoverage ---------------------------
(***************************************************************************)
(* What the scheduler of search tasks promises: the requests to crawl a    *)
(* task start at its start date, each of them begins at the start or where *)
(* an earlier one ended, and so together they leave no time out.           *)
(* SearchTaskScheduler is meant to implement this.                         *)
(***************************************************************************)
EXTENDS Integers

CONSTANTS Tasks, Start

VARIABLE asked   \* the requests so far: [task, from, to]

\* Where a next request for t may begin.
Ends(t) == {Start} \cup {m.to : m \in {q \in asked : q.task = t}}

Ask(m) ==
  /\ m.task \in Tasks /\ m.to \in Nat
  /\ m.from \in Ends(m.task)
  /\ asked' = asked \cup {m}

Next == \E m \in asked' \ asked : Ask(m)

Covered(t, i) == \E m \in asked : m.task = t /\ m.from <= i /\ i < m.to

\* Whatever lies before the end of some request is in one of the requests.
NoHole ==
  \A m \in asked : \A i \in Start .. (m.to - 1) : Covered(m.task, i)

Spec == asked = {} /\ [][Next]_asked
=============================================================================
