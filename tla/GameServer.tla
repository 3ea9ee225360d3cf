------------------------------ MODULE GameServer ------------------------------
(***************************************************************************)
(* The server: the websocket thread and the game loop, together.           *)
(***************************************************************************)
EXTENDS UwsThread, GameLoop

vars == <<uwsVars, loopVars>>

Init == UwsInit /\ LoopInit

Next == \/ UwsNext  /\ UNCHANGED loopVars
        \/ LoopNext /\ UNCHANGED <<dbVars, asked>>

(***************************************************************************)
(* The game loop never blocks for good: it sleeps between ticks and waits  *)
(* only for the lock that on_close holds while it erases, and on_close     *)
(* goes on.  When try_dequeue finds the queue empty the drain ends, though *)
(* the queue need not stay empty (SF).  No client has to do anything.      *)
(***************************************************************************)
Fairness == /\ WF_vars(LoopNext /\ UNCHANGED <<dbVars, asked>>)
            /\ SF_vars(DrainDone /\ UNCHANGED <<uwsVars>>)
            /\ WF_vars(OnCloseErase /\ UNCHANGED loopVars)

Spec == Init /\ [][Next]_vars /\ Fairness

TypeOK == UwsTypeOK /\ LoopTypeOK

-----------------------------------------------------------------------------
(* What holds between the two threads. *)

EnterQueued(c) ==
  \E i \in DOMAIN game_loop_queue["uws"] :
    /\ game_loop_queue["uws"][i].type = "player_enter"
    /\ game_loop_queue["uws"][i].connection_id = c

InWorld(c) == \E pc \in players : pc.connection_id = c

\* The connection is being closed or already is.
Leaving(c) == Gone(c) \/ erasing = c

\* A user plays a slot on one connection at most (play_character_handler's
\* look at the other connections is enough, though it looks before it writes).
SlotExclusive ==
  \A c, d \in Connected : \A u \in Users, s \in Slots :
    Plays(c, u, s) /\ Plays(d, u, s) => c = d

\* No name is twice in the world, and no connection has two characters in it,
\* whatever the order in which enters and leaves reach the game loop.
OneCharacterEach ==
  \A pc, other \in players :
    \/ pc.name = other.name
    \/ pc.connection_id = other.connection_id
    => pc = other

\* Whoever is in the world, or waits to enter it, after the connection went
\* has a leave message behind: on_close queued it before the connection left
\* the map, and the stream of the websocket thread kept the order.
NoGhosts ==
  LET q == game_loop_queue["uws"]
  IN  /\ \A pc \in players :
           Leaving(pc.connection_id) => Queued("uws", PlayerLeave(pc.connection_id))
      /\ \A i \in DOMAIN q :
           /\ q[i].type = "player_enter"
           /\ Leaving(q[i].connection_id)
           => \E j \in DOMAIN q : j > i /\ q[j] = PlayerLeave(q[i].connection_id)

\* A leave message, of either producer, is about a connection that closes or
\* closed and whose enter was handled or comes before it: also the game loop's
\* own, which no order relates to the enter in the other stream.
LeavesAreStale ==
  \A p \in Producers : \A i \in DOMAIN game_loop_queue[p] :
    LET m == game_loop_queue[p][i]
        q == game_loop_queue["uws"]
    IN  m.type = "player_leave" =>
          /\ Leaving(m.connection_id)
          /\ \A j \in DOMAIN q :
               /\ q[j].type = "player_enter"
               /\ q[j].connection_id = m.connection_id
               => p = "uws" /\ j < i

\* The character a connection plays keeps its row: no other connection of the
\* user can delete it, and a player in the world is the character of the slot
\* its connection plays.
PlayedRowKept ==
  /\ \A c \in Connected : IsPlaying(c) =>
       LET d == user_connections[c]
       IN  d.user_id \in users /\ characters[d.user_id][d.playing_character_slot] # NoRow
  /\ \A pc \in players : pc.connection_id \in Connected =>
       LET d == user_connections[pc.connection_id]
       IN  /\ IsPlaying(pc.connection_id)
           /\ characters[d.user_id][d.playing_character_slot].name = pc.name

\* No accepted move of a player in the world is lost or overtaken: its position,
\* or else the last of the moves still queued, is where its client asked to go.
MovesKept ==
  \A pc \in players : pc.connection_id \in Connected =>
    LET c == pc.connection_id
        q == game_loop_queue["uws"]
        pending == {i \in DOMAIN q : /\ q[i].type = "player_move"
                                     /\ q[i].connection_id = c
                                     /\ q[i].loc \in Walkable}
    IN  /\ pending = {} => asked[c] = pc.loc
        /\ \A i \in pending : (\A j \in pending : j <= i) => asked[c] = q[i].loc

\* Where no two characters share a name, nobody is turned away because of the
\* player a former connection left behind: its leave message comes first.
OldPlayerLeavesFirst ==
  LET q == game_loop_queue["uws"]
  IN  \A i \in DOMAIN q : q[i].type = "player_enter" =>
        /\ \A pc \in players : pc.name = q[i].character_name =>
             \E j \in 1 .. i - 1 : q[j] = PlayerLeave(pc.connection_id)
        /\ \A k \in 1 .. i - 1 :
             /\ q[k].type = "player_enter"
             /\ q[k].character_name = q[i].character_name
             => \E j \in k + 1 .. i - 1 : q[j] = PlayerLeave(q[k].connection_id)

\* No step takes the player of an open connection out of the world.
NoEviction ==
  [][\A pc \in players : ~Leaving(pc.connection_id) =>
       \E pc2 \in players' : /\ pc2.name = pc.name
                             /\ pc2.connection_id = pc.connection_id]_vars

\* Once a connection is closed its player is out of the world, in the end for good.
GhostsLeave ==
  \A c \in ConnectionIds :
    Gone(c) ~> []~InWorld(c)

\* A client that plays nothing can delete each character of its account that no
\* connection plays (characters_repository_tests.cpp, "Delete character by slot").
FreeCharacterDeletable ==
  \A c \in Connected, s \in Slots :
    LET u == user_connections[c].user_id
    IN  /\ NotPlaying(c)
        /\ characters[u][s] # NoRow
        /\ \A d \in Connected : ~Plays(d, u, s)
        => ENABLED DeleteCharacter(c, s)

\* Now and then the clients let the game loop empty its queue.  The drain has no
\* bound of its own: moves that come as fast as they are handled keep a tick from
\* ever reaching its map updates, and EnterAnswered is violated without this.
ClientsPause == []<>(phase = "drain" /\ \A p \in Producers : game_loop_queue[p] = <<>>)

\* Who waits to enter gets a message, a map update or an error, or is gone.
EnterAnswered ==
  ClientsPause =>
    \A c \in ConnectionIds :
      EnterQueued(c) ~> (\/ \E o \in outward_queue : o.connection_id = c
                         \/ c \notin Connected)

-----------------------------------------------------------------------------
(***************************************************************************)
(* The server implements WorldEntry.  A connection waits while its enter   *)
(* is queued and is inside while it has a player; on_close cuts the link   *)
(* when it queues the leave message, before the map forgets the            *)
(* connection.                                                             *)
(***************************************************************************)
LinkOf(c) == IF c >= connection_id_counter THEN "new"
             ELSE IF Leaving(c) THEN "down" ELSE "up"

StageOf(c) == IF EnterQueued(c) THEN "waiting"
              ELSE IF InWorld(c) THEN "inside"
              ELSE IF IsPlaying(c) \/ LinkOf(c) = "down" THEN "done" ELSE "outside"

NameOf(c) == IF InWorld(c) THEN (CHOOSE pc \in players : pc.connection_id = c).name
                           ELSE NoRow

Entry == INSTANCE WorldEntry WITH
           Clients <- ConnectionIds, NoName <- NoRow,
           link  <- [c \in ConnectionIds |-> LinkOf(c)],
           stage <- [c \in ConnectionIds |-> StageOf(c)],
           as    <- [c \in ConnectionIds |-> NameOf(c)]

\* The server keeps the promise of WorldEntry, fairness included.
ImplementsWorldEntry == Entry!Spec
=============================================================================
