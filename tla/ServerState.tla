----------------------------- MODULE ServerState -----------------------------
(***************************************************************************)
(* What the two threads of the server share (uws_thread.h, messages.h,     *)
(* per_socket_data.h): the table of open connections, which only the       *)
(* websocket thread changes and the game loop reads, and the queue of      *)
(* messages for the game loop.                                             *)
(*                                                                         *)
(* A name, a user or a map is a member of a small set.  A position is a    *)
(* tile of its map, or OffMap for coordinates outside of it.               *)
(***************************************************************************)
EXTENDS Integers, Sequences, Functions

CONSTANTS
  MaxConnections,   \* bound on the connections ever opened
  Users, Slots,     \* accounts, and the slots a client may name
  Names,            \* character names the name checks let through
  MapNames,         \* every map name a row of the database may hold
  LoadedMaps,       \* the maps load_assets made an entity for
  Tiles,            \* the tiles of a map (every map has the same ones)
  Walkable,         \* those a character may step on
  OffMap,           \* coordinates outside the map
  NoUser, NoRow, NoConnection

ConnectionIds == 0 .. MaxConnections - 1

Nobody == -1    \* playing_character_slot of a connection that plays nothing

ASSUME StateAssumption ==
  /\ MaxConnections \in Nat
  /\ Slots \subseteq Nat
  /\ LoadedMaps \subseteq MapNames
  /\ Walkable \subseteq Tiles
  /\ OffMap \notin Tiles
  /\ NoUser \notin Users
  /\ NoRow \notin Names
  /\ NoConnection \notin ConnectionIds

VARIABLES
  connection_id_counter,  \* the next connection id
  user_connections,       \* connection id -> per_socket_data, for those in the map
  erasing,                \* the connection on_close is taking out, its lock held
  game_loop_queue         \* producer -> its messages, oldest first

sharedVars == <<connection_id_counter, user_connections, erasing, game_loop_queue>>

-----------------------------------------------------------------------------
(***************************************************************************)
(* per_socket_data.  ws is "closing" once the server asked for the close   *)
(* of a banned user's connection: no further message is dispatched from    *)
(* it, and it stays in the map until on_close runs.  A client that closes  *)
(* does the same in Presence; elsewhere it is one that sends nothing more. *)
(***************************************************************************)
Session == [ws: {"open", "closing"},
            user_id: Users \cup {NoUser},
            playing_character_slot: Slots \cup {Nobody}]

NewSession == [ws |-> "open", user_id |-> NoUser, playing_character_slot |-> Nobody]

Connected == DOMAIN user_connections

\* Its connection was opened, and on_close has taken it out of the map.
Gone(c) == c < connection_id_counter /\ c \notin Connected

Plays(c, u, s) == /\ c \in Connected
                  /\ user_connections[c].user_id = u
                  /\ user_connections[c].playing_character_slot = s

IsPlaying(c) == c \in Connected /\ user_connections[c].playing_character_slot # Nobody

-----------------------------------------------------------------------------
(***************************************************************************)
(* The messages of game_loop_queue, and the queue.  A moodycamel           *)
(* ConcurrentQueue keeps the order of the messages of one producer and     *)
(* promises nothing across producers.  Both threads produce: the websocket *)
(* thread, and the game loop itself when it meets a connection that is     *)
(* gone.                                                                   *)
(***************************************************************************)
Producers == {"uws", "loop"}

Row == [name: Names, map_name: MapNames, loc: Tiles \cup {OffMap},
        selectable: BOOLEAN,   \* allegiance and class are among the ones served
        has_stats: BOOLEAN]    \* rows of character_stats refer to this one

PlayerEnter(c, row) == [type |-> "player_enter", connection_id |-> c,
                        character_name |-> row.name, map_name |-> row.map_name,
                        loc |-> row.loc]
PlayerLeave(c)   == [type |-> "player_leave", connection_id |-> c]
PlayerMove(c, t) == [type |-> "player_move", connection_id |-> c, loc |-> t]

EnterMessages == [type: {"player_enter"}, connection_id: ConnectionIds,
                  character_name: Names, map_name: MapNames, loc: Tiles \cup {OffMap}]
LeaveMessages == [type: {"player_leave"}, connection_id: ConnectionIds]
MoveMessages  == [type: {"player_move"}, connection_id: ConnectionIds,
                  loc: Tiles \cup {OffMap}]
QueueMessages == EnterMessages \cup LeaveMessages \cup MoveMessages

Enqueue(p, m) == game_loop_queue' = [game_loop_queue EXCEPT ![p] = Append(@, m)]

\* m waits in the stream of p.
Queued(p, m) == \E i \in DOMAIN game_loop_queue[p] : game_loop_queue[p][i] = m

SharedInit ==
  /\ connection_id_counter = 0
  /\ user_connections = <<>>
  /\ erasing = NoConnection
  /\ game_loop_queue = [p \in Producers |-> <<>>]

SharedTypeOK ==
  /\ connection_id_counter \in 0 .. MaxConnections
  /\ Connected \subseteq 0 .. connection_id_counter - 1
  /\ user_connections \in [Connected -> Session]
  /\ erasing \in Connected \cup {NoConnection}
  /\ game_loop_queue \in [Producers -> Seq(QueueMessages)]
=============================================================================
