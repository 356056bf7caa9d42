----------------------------- MODULE Leadership -----------------------------
(***************************************************************************)
(* What an election promises its users, said without terms, votes or       *)
(* messages: leadership is held by one member at a time.  A member takes   *)
(* it only when nobody holds it, and it is free again in between.          *)
(***************************************************************************)
CONSTANT Member

VARIABLE leaders

LeadershipInit == leaders = {}

Elect(m) == leaders = {} /\ leaders' = {m}

\* The leader steps down, is deposed, stops or dies.
Depose == leaders # {} /\ leaders' = {}

LeadershipNext == (\E m \in Member : Elect(m)) \/ Depose

LeadershipSpec == LeadershipInit /\ [][LeadershipNext]_leaders

=============================================================================
