----------------------------- MODULE MCService -----------------------------
EXTENDS Service

CONSTANTS gm, u2, u3, ann, tutorial, start, welcome

Char(stats) == [name |-> ann, map_name |-> tutorial, loc |-> start, selectable |-> TRUE,
                has_stats |-> stats]

\* The game master's character can be deleted; the other users have none.
FreshRows == [u \in Users |-> [s \in Slots |-> IF u = gm THEN Char(FALSE) ELSE NoRow]]

=============================================================================
