----------------------------- MODULE MCGameServer -----------------------------
EXTENDS GameServer

Char(name, map, loc, selectable, stats) ==
  [name |-> name, map_name |-> map, loc |-> loc, selectable |-> selectable,
   has_stats |-> stats]

CONSTANTS u1, u2, u3, ann, bob, cyd, dan, tutorial, cellar, start, floor, wall

NoCharacters == [u \in Users |-> [s \in Slots |-> NoRow]]

\* Two accounts with a character of the same name in slot 0.
Namesakes == [u \in Users |-> [s \in Slots |->
                IF u \in Registered0 /\ s = 0 THEN Char(ann, tutorial, start, TRUE, TRUE)
                                             ELSE NoRow]]

\* u1 has a character nothing refers to, on a map that is not loaded.
OldCharacter == [NoCharacters EXCEPT ![u1][0] = Char(ann, cellar, start, TRUE, FALSE)]

\* One account with a character that starts on a wall and one off its map.
TwoCharacters == [NoCharacters EXCEPT ![u1][0] = Char(bob, tutorial, wall, TRUE, TRUE),
                                      ![u1][1] = Char(cyd, tutorial, OffMap, TRUE, TRUE)]
=============================================================================
