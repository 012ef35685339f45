---------------------------- MODULE MCTaskOwnership ----------------------------
(* TaskOwnership on two computers: the Task starts in a chat of the first. *)
EXTENDS TaskOwnership

CONSTANTS c1, c2, s1, s2, s3, s4, s5, m1, m2, m3, p

HomeOf == [s \in Sessions |-> IF s \in {s1, s3} THEN c1 ELSE c2]
FromOf == [m \in Moves |-> IF m = m2 THEN s2 ELSE s1]
ToOf == [m \in Moves |-> CASE m = m1 -> s2 [] m = m2 -> s3 [] m = m3 -> s4 [] OTHER -> s5]
RankOf == [s \in Sessions |-> CASE s = s1 -> 1 [] s = s2 -> 2 [] s = s3 -> 3 [] s = s4 -> 4 [] OTHER -> 5]

Try(moves, changes, until) == [moves |-> moves, changes |-> changes, until |-> until]

\* One handoff, while the chats change in every way.
One == {Try({m1}, {change}, 5) : change \in {"work", "close", "complete", "late"}}
       \cup {Try({p}, changes, 5) : changes \in {{"work"}, {"continue", "complete"}, {"continue", "late"}}}

\* Two handoffs between two readings: there and back, to two chats at once, and a
\* prepared one against one that starts at once.
Two == {Try({m1, m2}, {"quiet", "work"}, 5), Try({m1, m2}, {"quiet", "complete"}, 5),
        Try({m1, m3}, {"quiet"}, 5), Try({p, m1}, {"quiet"}, 5)}

All == One \cup Two
=============================================================================
