------------------------------- MODULE GameLoop -------------------------------
(***************************************************************************)
(* The game loop (main.cpp) and the handlers of its queue                  *)
(* (game_queue_message_handlers/).  A tick drains game_loop_queue, then    *)
(* queues one map update per player, then sends what was queued outward.   *)
(* Every message taken from the queue and every message sent is a step of  *)
(* its own, since the websocket thread runs between them.                  *)
(*                                                                         *)
(* NPCs and fields of view are not here.                                   *)
(***************************************************************************)
EXTENDS ServerState

VARIABLES
  players,         \* the pc_components of all maps
  outward_queue,   \* messages for clients, their order left out
  phase            \* "drain", "update" or "deliver"

loopVars == <<players, outward_queue, phase>>

Pc == [name: Names, connection_id: ConnectionIds, map_name: LoadedMaps, loc: Tiles]

OutwardMessages == [connection_id: ConnectionIds, kind: {"error", "map_update"}]

LoopInit == /\ players = {}
            /\ outward_queue = {}
            /\ phase = "drain"

LoopTypeOK == /\ players \in SUBSET Pc
              /\ outward_queue \in SUBSET OutwardMessages
              /\ phase \in {"drain", "update", "deliver"}

-----------------------------------------------------------------------------
\* try_dequeue: the oldest message of some producer.
Dequeue(p) ==
  /\ phase = "drain"
  /\ game_loop_queue[p] # <<>>
  /\ game_loop_queue' = [game_loop_queue EXCEPT ![p] = Tail(@)]

SendError(c) == outward_queue' = outward_queue \cup {[connection_id |-> c, kind |-> "error"]}

\* Mutant of NameTaken: handle_player_enter_message does not look for the name.
NameNeverTaken(name) == FALSE

NameTaken(name) == \E pc \in players : pc.name = name

NewPc(m) == [name |-> m.character_name, connection_id |-> m.connection_id,
             map_name |-> m.map_name, loc |-> m.loc]

\* Mutant of RefuseEnter: the client is not told.
RefuseEnterSilently(m) ==
  /\ NameTaken(m.character_name) \/ m.map_name \notin LoadedMaps \/ m.loc = OffMap
  /\ UNCHANGED <<players, outward_queue>>

\* The three ways handle_player_enter_message ends without a new player.
RefuseEnter(m) ==
  /\ \/ /\ NameTaken(m.character_name) \/ (m.map_name \in LoadedMaps /\ m.loc = OffMap)
        /\ SendError(m.connection_id)
     \/ /\ ~NameTaken(m.character_name) /\ m.map_name \notin LoadedMaps
        /\ UNCHANGED outward_queue
  /\ UNCHANGED players

AdmitPlayer(m) ==
  /\ ~NameTaken(m.character_name)
  /\ m.map_name \in LoadedMaps
  /\ m.loc # OffMap
  /\ players' = players \cup {NewPc(m)}
  /\ UNCHANGED outward_queue

HandlePlayerEnter(p) ==
  LET m == Head(game_loop_queue[p])
  IN  /\ Dequeue(p)
      /\ m.type = "player_enter"
      /\ RefuseEnter(m) \/ AdmitPlayer(m)
      /\ UNCHANGED phase

\* Mutant of HandlePlayerLeave: remove_if without the erase.
HandlePlayerLeaveNoErase(p) ==
  /\ Dequeue(p)
  /\ Head(game_loop_queue[p]).type = "player_leave"
  /\ UNCHANGED loopVars

HandlePlayerLeave(p) ==
  LET m == Head(game_loop_queue[p])
  IN  /\ Dequeue(p)
      /\ m.type = "player_leave"
      /\ players' = {pc \in players : pc.connection_id # m.connection_id}
      /\ UNCHANGED <<outward_queue, phase>>

\* Mutant of HandlePlayerMove: only the size of the map is looked at.
HandlePlayerMoveThroughWalls(p) ==
  LET m == Head(game_loop_queue[p])
  IN  /\ Dequeue(p)
      /\ m.type = "player_move"
      /\ m.loc \in Tiles
      /\ players' = {IF pc.connection_id = m.connection_id THEN [pc EXCEPT !.loc = m.loc]
                                                          ELSE pc : pc \in players}
      /\ UNCHANGED <<outward_queue, phase>>

\* A message for a connection without a player is dropped.
HandlePlayerMove(p) ==
  LET m     == Head(game_loop_queue[p])
      Mover(pc) == pc.connection_id = m.connection_id
  IN  /\ Dequeue(p)
      /\ m.type = "player_move"
      /\ IF m.loc \in Walkable
           THEN /\ players' = {IF Mover(pc) THEN [pc EXCEPT !.loc = m.loc] ELSE pc :
                                 pc \in players}
                /\ UNCHANGED outward_queue
           ELSE /\ IF \E pc \in players : Mover(pc) THEN SendError(m.connection_id)
                                                    ELSE UNCHANGED outward_queue
                /\ UNCHANGED players
      /\ UNCHANGED phase

\* try_dequeue finds nothing.
DrainDone ==
  /\ phase = "drain"
  /\ \A p \in Producers : game_loop_queue[p] = <<>>
  /\ phase' = "update"
  /\ UNCHANGED <<players, outward_queue, game_loop_queue>>

\* The pass over the maps.
Update ==
  /\ phase = "update"
  /\ outward_queue' = outward_queue \cup
       {[connection_id |-> pc.connection_id, kind |-> "map_update"] : pc \in players}
  /\ phase' = "deliver"
  /\ UNCHANGED <<players, game_loop_queue>>

\* Mutant of Deliver: the test for the connection is the wrong way round.
DeliverInverted(o) ==
  /\ phase = "deliver"
  /\ erasing = NoConnection
  /\ o \in outward_queue
  /\ outward_queue' = outward_queue \ {o}
  /\ IF o.connection_id \notin Connected
       THEN UNCHANGED game_loop_queue
       ELSE Enqueue("loop", PlayerLeave(o.connection_id))
  /\ UNCHANGED <<players, phase>>

\* One message is sent, under the shared lock; if its connection is gone the
\* loop queues a leave message for itself.  A handle in the map has not expired:
\* on_close, which takes it out, is called on a connection that is still there.
\* A send to a connection that closes throws, and the loop goes on.
Deliver(o) ==
  /\ phase = "deliver"
  /\ erasing = NoConnection
  /\ o \in outward_queue
  /\ outward_queue' = outward_queue \ {o}
  /\ IF o.connection_id \in Connected
       THEN UNCHANGED game_loop_queue
       ELSE Enqueue("loop", PlayerLeave(o.connection_id))
  /\ UNCHANGED <<players, phase>>

TickDone ==
  /\ phase = "deliver"
  /\ outward_queue = {}
  /\ phase' = "drain"
  /\ UNCHANGED <<players, outward_queue, game_loop_queue>>

LoopNext ==
  /\ \/ \E p \in Producers :
          HandlePlayerEnter(p) \/ HandlePlayerLeave(p) \/ HandlePlayerMove(p)
     \/ DrainDone
     \/ Update
     \/ \E o \in outward_queue : Deliver(o)
     \/ TickDone
  /\ UNCHANGED <<connection_id_counter, user_connections, erasing>>
=============================================================================
