------------------------------ MODULE UwsThread ------------------------------
(***************************************************************************)
(* The websocket thread (uws_thread.cpp) and the message handlers it runs  *)
(* (message_handlers/): all callbacks run one after the other on this      *)
(* thread, so a handler that touches nothing the game loop reads until its *)
(* last step is one action.  on_close is two: the game loop may take the   *)
(* queued leave message before the connection is out of the map.           *)
(*                                                                         *)
(* A handler that only answers (wrong password, slot taken, chat, ...)     *)
(* changes none of this state and is no step.  Replies and broadcasts are  *)
(* left out here.                                                          *)
(***************************************************************************)
EXTENDS ServerState

CONSTANTS
  Registered0,      \* accounts in the database at start-up
  Banned,           \* accounts with a ban that has not run out
  Characters0,      \* rows of characters at start-up
  StartMap, StartTile,  \* "Tutorial", 14, 14
  BaseStats,        \* TRUE iff select_response.base_stats is not empty
  UndecidedServed,  \* TRUE iff "Undecided" is among the allegiances served
  MoveTargets,      \* bound: positions a client asks to move to
  MaxQueued         \* bound: moves are sent only while the queue is shorter

Rows == [Users -> [Slots -> Row \cup {NoRow}]]

ASSUME UwsAssumption ==
  /\ Registered0 \subseteq Users
  /\ Banned \subseteq Registered0
  /\ Characters0 \in Rows
  /\ \A u \in Users \ Registered0, s \in Slots : Characters0[u][s] = NoRow
  /\ NoRow \notin Row
  /\ StartMap \in MapNames
  /\ StartTile \in Tiles \cup {OffMap}
  /\ BaseStats \in BOOLEAN
  /\ UndecidedServed \in BOOLEAN
  /\ MoveTargets \subseteq Tiles \cup {OffMap}
  /\ MaxQueued \in Nat

VARIABLES
  users,       \* the accounts of table users
  characters,  \* table characters: user, slot -> row
  asked        \* history, not in the code: the position a client's accepted
               \* requests so far lead to, which MovesKept refers to

dbVars == <<users, characters>>
uwsVars == <<sharedVars, dbVars, asked>>

UwsInit == /\ SharedInit
           /\ users = Registered0
           /\ characters = Characters0
           /\ asked = [c \in ConnectionIds |-> StartTile]

UwsTypeOK == /\ SharedTypeOK
             /\ users \in SUBSET Users
             /\ characters \in Rows
             /\ asked \in [ConnectionIds -> Tiles \cup {OffMap}]

-----------------------------------------------------------------------------
\* The thread is between two callbacks.
Idle == erasing = NoConnection

\* on_message dispatches a message of c.
Dispatched(c) == /\ Idle
                 /\ c \in Connected
                 /\ user_connections[c].ws = "open"

\* DESERIALIZE_WITH_NOT_LOGIN_CHECK lets the message through.
NotLoggedIn(c) == Dispatched(c) /\ user_connections[c].user_id = NoUser

\* DESERIALIZE_WITH_NOT_PLAYING_CHECK lets the message through.
NotPlaying(c) == /\ Dispatched(c)
                 /\ user_connections[c].user_id # NoUser
                 /\ user_connections[c].playing_character_slot = Nobody

\* Mutant of OnOpen: the smallest id that is free, instead of a fresh one.
OnOpenReusingIds ==
  /\ Idle
  /\ \E c \in ConnectionIds \ Connected :
       /\ \A d \in ConnectionIds \ Connected : c <= d
       /\ connection_id_counter' = IF c < connection_id_counter THEN connection_id_counter
                                                               ELSE c + 1
       /\ user_connections' = [d \in Connected \cup {c} |->
                                 IF d = c THEN NewSession ELSE user_connections[d]]
  /\ UNCHANGED <<erasing, game_loop_queue, dbVars, asked>>

\* on_open: the connection gets the next id and a blank session.
OnOpen ==
  /\ Idle
  /\ connection_id_counter < MaxConnections
  /\ connection_id_counter' = connection_id_counter + 1
  /\ user_connections' = [c \in Connected \cup {connection_id_counter} |->
                            IF c = connection_id_counter THEN NewSession
                                                         ELSE user_connections[c]]
  /\ UNCHANGED <<erasing, game_loop_queue, dbVars, asked>>

\* login_handler and register_handler: the account is banned, the server closes.
RefuseBanned(c, u) ==
  /\ NotLoggedIn(c)
  /\ u \in Banned
  /\ user_connections' = [user_connections EXCEPT ![c].ws = "closing"]
  /\ UNCHANGED <<connection_id_counter, erasing, game_loop_queue, dbVars, asked>>

\* login_handler, with the right password.  The same account may log in on
\* several connections.
Login(c, u) ==
  /\ NotLoggedIn(c)
  /\ u \in users \ Banned
  /\ user_connections' = [user_connections EXCEPT ![c].user_id = u]
  /\ UNCHANGED <<connection_id_counter, erasing, game_loop_queue, dbVars, asked>>

\* register_handler: the row is committed, then the session becomes the user's.
Register(c, u) ==
  /\ NotLoggedIn(c)
  /\ u \in Users \ users
  /\ users' = users \cup {u}
  /\ user_connections' = [user_connections EXCEPT ![c].user_id = u]
  /\ UNCHANGED <<connection_id_counter, erasing, game_loop_queue, characters, asked>>

\* create_character_handler: an allegiance nobody serves becomes "Undecided".
NewRow(name, served) ==
  [name |-> name, map_name |-> StartMap, loc |-> StartTile,
   selectable |-> served \/ UndecidedServed, has_stats |-> BaseStats]

CreateCharacter(c, s, name, served) ==
  LET u == user_connections[c].user_id
  IN  /\ NotPlaying(c)
      /\ characters[u][s] = NoRow
      /\ characters' = [characters EXCEPT ![u][s] = NewRow(name, served)]
      /\ UNCHANGED <<sharedVars, users, asked>>

\* Mutant of DeleteCharacter: only the own connection is looked at.
DeleteCharacterUnchecked(c, s) ==
  LET u == user_connections[c].user_id
  IN  /\ NotPlaying(c)
      /\ characters[u][s] # NoRow
      /\ ~characters[u][s].has_stats
      /\ characters' = [characters EXCEPT ![u][s] = NoRow]
      /\ UNCHANGED <<sharedVars, users, asked>>

\* delete_character_handler.  A row that character_stats refers to cannot be
\* deleted: the DELETE raises, on_message logs it and nothing has changed.
DeleteCharacter(c, s) ==
  LET u == user_connections[c].user_id
  IN  /\ NotPlaying(c)
      /\ \A d \in Connected : ~Plays(d, u, s)
      /\ characters[u][s] # NoRow
      /\ ~characters[u][s].has_stats
      /\ characters' = [characters EXCEPT ![u][s] = NoRow]
      /\ UNCHANGED <<sharedVars, users, asked>>

\* Mutant of MayPlay: the other connections are not looked at.
MayPlayUnchecked(c, s) ==
  NotPlaying(c) /\ characters[user_connections[c].user_id][s] # NoRow

\* play_character_handler lets the request through.
MayPlay(c, s) ==
  LET u == user_connections[c].user_id
  IN  /\ NotPlaying(c)
      /\ characters[u][s] # NoRow
      /\ \A d \in Connected \ {c} : ~Plays(d, u, s)

TakeSlot(c, s) ==
  user_connections' = [user_connections EXCEPT ![c].playing_character_slot = s]

\* play_character_handler, to the end: the slot is taken, the enter is queued.
PlayCharacter(c, s) ==
  LET row == characters[user_connections[c].user_id][s]
  IN  /\ MayPlay(c, s)
      /\ row.selectable
      /\ TakeSlot(c, s)
      /\ Enqueue("uws", PlayerEnter(c, row))
      /\ asked' = [asked EXCEPT ![c] = row.loc]
      /\ UNCHANGED <<connection_id_counter, erasing, dbVars>>

\* play_character_handler after the slot is taken: the query for the stats
\* raises, or allegiance or class are not served.  The slot stays taken.
PlayCharacterFails(c, s) ==
  /\ MayPlay(c, s)
  /\ TakeSlot(c, s)
  /\ UNCHANGED <<connection_id_counter, erasing, game_loop_queue, dbVars, asked>>

\* move_handler: nothing is looked at but the slot.
Move(c, t) ==
  /\ Dispatched(c)
  /\ user_connections[c].playing_character_slot # Nobody
  /\ Len(game_loop_queue["uws"]) < MaxQueued
  /\ Enqueue("uws", PlayerMove(c, t))
  /\ asked' = IF t \in Walkable THEN [asked EXCEPT ![c] = t] ELSE asked
  /\ UNCHANGED <<connection_id_counter, user_connections, erasing, dbVars>>

\* Mutant of OnClose: slot > 0 instead of slot >= 0.
OnCloseOffByOne(c) ==
  /\ Idle
  /\ c \in Connected
  /\ erasing' = c
  /\ IF user_connections[c].playing_character_slot > 0
       THEN Enqueue("uws", PlayerLeave(c))
       ELSE UNCHANGED game_loop_queue
  /\ UNCHANGED <<connection_id_counter, user_connections, dbVars, asked>>

\* on_close, up to the leave message; the unique lock is held from here on.
OnClose(c) ==
  /\ Idle
  /\ c \in Connected
  /\ erasing' = c
  /\ IF user_connections[c].playing_character_slot # Nobody
       THEN Enqueue("uws", PlayerLeave(c))
       ELSE UNCHANGED game_loop_queue
  /\ UNCHANGED <<connection_id_counter, user_connections, dbVars, asked>>

\* on_close, the rest: the connection leaves the map, the lock is released.
OnCloseErase ==
  /\ erasing # NoConnection
  /\ user_connections' = Restrict(user_connections, Connected \ {erasing})
  /\ erasing' = NoConnection
  /\ asked' = [asked EXCEPT ![erasing] = StartTile]
  /\ UNCHANGED <<connection_id_counter, game_loop_queue, dbVars>>

UwsNext ==
  \/ OnOpen
  \/ OnCloseErase
  \/ \E c \in Connected :
       \/ OnClose(c)
       \/ \E u \in Users : RefuseBanned(c, u) \/ Login(c, u) \/ Register(c, u)
       \/ \E s \in Slots : \/ PlayCharacter(c, s) \/ PlayCharacterFails(c, s)
                           \/ DeleteCharacter(c, s)
                           \/ \E name \in Names, served \in BOOLEAN :
                                CreateCharacter(c, s, name, served)
       \/ \E t \in MoveTargets : Move(c, t)
=============================================================================
