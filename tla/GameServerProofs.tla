--------------------------- MODULE GameServerProofs ---------------------------
(***************************************************************************)
(* The server, for any number of connections, accounts, slots, maps and    *)
(* tiles: it is well-typed, nobody plays one slot on two connections,      *)
(* nobody is left behind in the world or thrown out of it, no name or      *)
(* connection is in it twice, no accepted move is lost, and every step is  *)
(* one WorldEntry allows.                                                  *)
(*                                                                         *)
(* The argument about the world follows the stream of the websocket        *)
(* thread.  For one connection it is an enter, then moves, then a leave    *)
(* (StreamOrder), and the game loop knows nothing of a connection whose    *)
(* enter still waits (EnterFirst), so the leave message the game loop      *)
(* writes to itself can only be about a connection whose enter was handled *)
(* (LoopLeaves).                                                           *)
(***************************************************************************)
EXTENDS GameServer, UwsThreadProofs

\* Dequeuing moves every other message one place forward.
LEMMA TailFacts ==
  ASSUME NEW S, NEW q \in Seq(S), q # <<>>
  PROVE  /\ Tail(q) \in Seq(S)
         /\ DOMAIN Tail(q) = 1 .. Len(q) - 1
         /\ DOMAIN q = 1 .. Len(q)
         /\ Len(q) \in Nat \ {0}
         /\ Head(q) = q[1]
         /\ \A i \in 1 .. Len(q) - 1 : Tail(q)[i] = q[i + 1]
OBVIOUS

\* The server starts well-typed.
LEMMA TypeInit == Init => TypeOK
<1> SUFFICES ASSUME Init PROVE TypeOK
  OBVIOUS
<1>1. UwsTypeOK
  BY UwsTypeInit DEF Init
<1>2. LoopTypeOK
  BY DEF Init, LoopInit, LoopTypeOK
<1> QED
  BY <1>1, <1>2 DEF TypeOK

\* A dequeued message is well-typed, and so is what it leaves in the queue.
LEMMA DequeueType ==
  ASSUME game_loop_queue \in [Producers -> Seq(QueueMessages)],
         NEW p \in Producers, Dequeue(p)
  PROVE  /\ game_loop_queue' \in [Producers -> Seq(QueueMessages)]
         /\ Head(game_loop_queue[p]) \in QueueMessages
<1>1. /\ Tail(game_loop_queue[p]) \in Seq(QueueMessages)
      /\ Head(game_loop_queue[p]) \in QueueMessages
  BY TailFacts DEF Dequeue
<1> QED
  BY <1>1 DEF Dequeue

\* What the three kinds of message carry.
LEMMA MessageFields ==
  ASSUME NEW m \in QueueMessages
  PROVE  /\ m.connection_id \in ConnectionIds
         /\ m.type = "player_enter" => /\ m.character_name \in Names
                                       /\ m.map_name \in MapNames
                                       /\ m.loc \in Tiles \cup {OffMap}
         /\ m.type = "player_move" => m.loc \in Tiles \cup {OffMap}
         /\ m.type = "player_leave" => m = PlayerLeave(m.connection_id)
BY DEF QueueMessages, EnterMessages, LeaveMessages, MoveMessages, PlayerLeave

\* A delivery sends a message or queues a well-typed leave.
LEMMA DeliverType ==
  ASSUME game_loop_queue \in [Producers -> Seq(QueueMessages)], LoopTypeOK,
         NEW o \in outward_queue, Deliver(o)
  PROVE  game_loop_queue' \in [Producers -> Seq(QueueMessages)]
<1>1. PlayerLeave(o.connection_id) \in QueueMessages
  BY DEF LoopTypeOK, OutwardMessages, PlayerLeave, QueueMessages, LeaveMessages
<1> QED
  BY <1>1, EnqueueType DEF Deliver, Producers

\* The steps of the game loop keep its types and put well-typed messages in the queue.
LEMMA LoopTypeStep ==
  SharedTypeOK /\ LoopTypeOK /\ LoopNext => SharedTypeOK' /\ LoopTypeOK'
<1> SUFFICES ASSUME SharedTypeOK, LoopTypeOK, LoopNext
             PROVE  SharedTypeOK' /\ LoopTypeOK'
  OBVIOUS
<1> DEFINE QueueOK == game_loop_queue \in [Producers -> Seq(QueueMessages)]
<1>0. QueueOK' => SharedTypeOK'
  BY DEF SharedTypeOK, LoopNext, Connected
<1> USE DEF LoopTypeOK
<1>1. ASSUME NEW p \in Producers, HandlePlayerEnter(p) PROVE QueueOK' /\ LoopTypeOK'
  <2> DEFINE m == Head(game_loop_queue[p])
  <2>1. m \in QueueMessages /\ QueueOK'
    BY <1>1, DequeueType DEF HandlePlayerEnter, SharedTypeOK
  <2>2. CASE RefuseEnter(m)
    BY <1>1, <2>1, <2>2, MessageFields
    DEF HandlePlayerEnter, RefuseEnter, SendError, OutwardMessages
  <2>3. CASE AdmitPlayer(m)
    <3>1. NewPc(m) \in Pc
      BY <1>1, <2>1, <2>3, MessageFields DEF HandlePlayerEnter, AdmitPlayer, NewPc, Pc
    <3> QED
      BY <1>1, <2>1, <2>3, <3>1 DEF HandlePlayerEnter, AdmitPlayer
  <2> QED
    BY <1>1, <2>2, <2>3 DEF HandlePlayerEnter
<1>2. ASSUME NEW p \in Producers, HandlePlayerLeave(p) PROVE QueueOK' /\ LoopTypeOK'
  <2>1. QueueOK'
    BY <1>2, DequeueType DEF HandlePlayerLeave, SharedTypeOK
  <2> QED
    BY <1>2, <2>1 DEF HandlePlayerLeave
<1>3. ASSUME NEW p \in Producers, HandlePlayerMove(p) PROVE QueueOK' /\ LoopTypeOK'
  <2> DEFINE m == Head(game_loop_queue[p])
  <2>1. m \in QueueMessages /\ QueueOK'
    BY <1>3, DequeueType DEF HandlePlayerMove, SharedTypeOK
  <2>2. m.connection_id \in ConnectionIds
    BY <2>1, MessageFields
  <2>3. CASE m.loc \in Walkable
    <3>1. \A pc \in Pc : [pc EXCEPT !.loc = m.loc] \in Pc
      BY <2>3, StateAssumption DEF Pc
    <3>2. players' \in SUBSET Pc
      BY <1>3, <2>3, <3>1 DEF HandlePlayerMove
    <3> QED
      BY <1>3, <2>1, <2>3, <3>2 DEF HandlePlayerMove
  <2>4. CASE m.loc \notin Walkable
    BY <1>3, <2>1, <2>2, <2>4 DEF HandlePlayerMove, SendError, OutwardMessages
  <2> QED
    BY <2>3, <2>4
<1>4. ASSUME DrainDone PROVE QueueOK' /\ LoopTypeOK'
  BY <1>4 DEF DrainDone, SharedTypeOK
<1>5. ASSUME Update PROVE QueueOK' /\ LoopTypeOK'
  BY <1>5 DEF Update, OutwardMessages, Pc, SharedTypeOK
<1>6. ASSUME NEW o \in outward_queue, Deliver(o) PROVE QueueOK' /\ LoopTypeOK'
  <2>1. QueueOK'
    BY <1>6, DeliverType DEF SharedTypeOK
  <2> QED
    BY <1>6, <2>1 DEF Deliver
<1>7. ASSUME TickDone PROVE QueueOK' /\ LoopTypeOK'
  BY <1>7 DEF TickDone, SharedTypeOK
<1> QED
  BY <1>0, <1>1, <1>2, <1>3, <1>4, <1>5, <1>6, <1>7 DEF LoopNext

\* Every step of either thread keeps the types.
LEMMA TypeStep == TypeOK /\ [Next]_vars => TypeOK'
<1> SUFFICES ASSUME TypeOK, [Next]_vars PROVE TypeOK'
  OBVIOUS
<1>1. CASE UwsNext /\ UNCHANGED loopVars
  BY <1>1, UwsTypeStep DEF TypeOK, LoopTypeOK, loopVars
<1>2. CASE LoopNext /\ UNCHANGED <<dbVars, asked>>
  BY <1>2, LoopTypeStep DEF TypeOK, UwsTypeOK, dbVars
<1>3. CASE UNCHANGED vars
  BY <1>3 DEF vars, uwsVars, sharedVars, dbVars, loopVars, TypeOK, UwsTypeOK, SharedTypeOK,
              LoopTypeOK, Connected
<1> QED
  BY <1>1, <1>2, <1>3 DEF Next

\* Every variable keeps its type: no player is ever off its map or on a map that is
\* not loaded, and only open connections are in the map of sessions.
THEOREM TypeCorrect == Spec => []TypeOK
<1> QED
  BY TypeInit, TypeStep, PTL DEF Spec

-----------------------------------------------------------------------------
(* Who plays what: the invariant of the websocket thread alone. *)

\* A session with a slot has a user, and a user of a session has an account.
SessionsSound ==
  \A c \in Connected :
    /\ IsPlaying(c) => user_connections[c].user_id # NoUser
    /\ user_connections[c].user_id \in users \cup {NoUser}

\* Every slot that is played has its row.
PlayedRows ==
  \A c \in Connected : IsPlaying(c) =>
    characters[user_connections[c].user_id][user_connections[c].playing_character_slot] # NoRow

SlotInv == SlotExclusive /\ SessionsSound /\ PlayedRows

\* At start-up nobody plays.
LEMMA SlotInit == Init => SlotInv
<1> SUFFICES ASSUME Init PROVE SlotInv
  OBVIOUS
<1>1. Connected = {}
  BY DEF Init, UwsInit, SharedInit, Connected
<1> QED
  BY <1>1 DEF SlotInv, SlotExclusive, SessionsSound, PlayedRows

\* play_character_handler looks at the other connections before it takes the slot,
\* delete_character_handler at all of them, and no callback runs in between.
LEMMA SlotStep == TypeOK /\ SlotInv /\ [Next]_vars => SlotInv'
<1> SUFFICES ASSUME TypeOK, SlotInv, [Next]_vars PROVE SlotInv'
  OBVIOUS
<1> USE DEF SlotInv, TypeOK, UwsTypeOK, SharedTypeOK
<1>0. Nobody \notin Slots /\ NoUser \notin Users
  BY StateAssumption DEF Nobody
<1>1. CASE OnOpen
  BY <1>1, <1>0 DEF OnOpen, SlotExclusive, SessionsSound, PlayedRows, Plays, IsPlaying, Connected,
                    NewSession, dbVars
<1>2. CASE OnCloseErase
  BY <1>2 DEF OnCloseErase, Restrict, SlotExclusive, SessionsSound, PlayedRows, Plays, IsPlaying,
              Connected, dbVars
<1>3. ASSUME NEW c \in Connected, OnClose(c) PROVE SlotInv'
  BY <1>3 DEF OnClose, SlotExclusive, SessionsSound, PlayedRows, Plays, IsPlaying, Connected, dbVars
<1>4. ASSUME NEW c \in Connected, NEW u \in Users, RefuseBanned(c, u) PROVE SlotInv'
  <2>1. Connected' = Connected
    BY <1>4, SessionUpdate DEF RefuseBanned
  <2>2. \A d \in Connected :
          /\ user_connections'[d].user_id = user_connections[d].user_id
          /\ user_connections'[d].playing_character_slot
               = user_connections[d].playing_character_slot
    BY <1>4 DEF RefuseBanned, Session
  <2> QED
    BY <1>4, <2>1, <2>2
    DEF RefuseBanned, SlotExclusive, SessionsSound, PlayedRows, Plays, IsPlaying, dbVars
<1>5. ASSUME NEW c \in Connected, NEW u \in Users, u \in users', NotLoggedIn(c), users \subseteq users',
             user_connections' = [user_connections EXCEPT ![c].user_id = u],
             UNCHANGED characters
      PROVE  SlotInv'
  <2>1. Connected' = Connected
    BY <1>5, SessionUpdate
  <2>2. \A d \in Connected :
          /\ user_connections'[d].user_id = IF d = c THEN u ELSE user_connections[d].user_id
          /\ user_connections'[d].playing_character_slot
               = user_connections[d].playing_character_slot
    BY <1>5 DEF Session
  <2>3. ~IsPlaying(c)
    BY <1>5 DEF NotLoggedIn, SessionsSound
  <2> QED
    BY <1>0, <1>5, <2>1, <2>2, <2>3 DEF SlotExclusive, SessionsSound, PlayedRows, Plays, IsPlaying
<1>6. ASSUME NEW c \in Connected, NEW u \in Users, Login(c, u) PROVE SlotInv'
  BY <1>6, <1>5 DEF Login, dbVars
<1>7. ASSUME NEW c \in Connected, NEW u \in Users, Register(c, u) PROVE SlotInv'
  BY <1>7, <1>5 DEF Register
<1>8. ASSUME NEW c \in Connected, NEW s \in Slots, MayPlay(c, s), TakeSlot(c, s), UNCHANGED dbVars
      PROVE  SlotInv'
  <2>1. Connected' = Connected
    BY <1>8, SessionUpdate DEF TakeSlot
  <2>2. \A d \in Connected :
          /\ user_connections'[d].user_id = user_connections[d].user_id
          /\ user_connections'[d].playing_character_slot
               = IF d = c THEN s ELSE user_connections[d].playing_character_slot
    BY <1>8 DEF TakeSlot, Session
  <2> QED
    BY <1>0, <1>8, <2>1, <2>2
    DEF MayPlay, NotPlaying, SlotExclusive, SessionsSound, PlayedRows, Plays, IsPlaying, dbVars
<1>9. ASSUME NEW c \in Connected, NEW s \in Slots, PlayCharacter(c, s) PROVE SlotInv'
  BY <1>9, <1>8 DEF PlayCharacter
<1>10. ASSUME NEW c \in Connected, NEW s \in Slots, PlayCharacterFails(c, s) PROVE SlotInv'
  BY <1>10, <1>8 DEF PlayCharacterFails
<1>11. ASSUME NEW c \in Connected, NEW s \in Slots, DeleteCharacter(c, s) PROVE SlotInv'
  <2> DEFINE u == user_connections[c].user_id
  <2>1. u \in Users /\ characters' = [characters EXCEPT ![u][s] = NoRow]
    BY <1>11 DEF DeleteCharacter, NotPlaying, Session
  <2>2. \A v \in Users, r \in Slots : v # u \/ r # s => characters'[v][r] = characters[v][r]
    BY <2>1 DEF Rows
  <2>3. UNCHANGED <<user_connections, users>>
    BY <1>11 DEF DeleteCharacter, sharedVars
  <2>4. \A d \in Connected : ~Plays(d, u, s)
    BY <1>11 DEF DeleteCharacter
  <2>5. \A d \in Connected : IsPlaying(d) =>
          /\ user_connections[d].user_id \in Users
          /\ user_connections[d].playing_character_slot \in Slots
    BY DEF SessionsSound, Session, IsPlaying
  <2> QED
    BY <2>2, <2>3, <2>4, <2>5 DEF SlotExclusive, SessionsSound, PlayedRows, Plays, IsPlaying, Connected
<1>12. ASSUME NEW c \in Connected, NEW s \in Slots, NEW name \in Names, NEW served \in BOOLEAN,
              CreateCharacter(c, s, name, served)
       PROVE  SlotInv'
  <2> DEFINE u == user_connections[c].user_id
  <2>1. /\ u \in Users
        /\ characters[u][s] = NoRow
        /\ characters' = [characters EXCEPT ![u][s] = NewRow(name, served)]
    BY <1>12 DEF CreateCharacter, NotPlaying, Session
  <2>2. \A v \in Users, r \in Slots : v # u \/ r # s => characters'[v][r] = characters[v][r]
    BY <2>1 DEF Rows
  <2>3. UNCHANGED <<user_connections, users>>
    BY <1>12 DEF CreateCharacter, sharedVars
  <2>5. \A d \in Connected : IsPlaying(d) =>
          /\ user_connections[d].user_id \in Users
          /\ user_connections[d].playing_character_slot \in Slots
    BY DEF SessionsSound, Session, IsPlaying
  <2> QED
    BY <2>1, <2>2, <2>3, <2>5 DEF SlotExclusive, SessionsSound, PlayedRows, Plays, IsPlaying, Connected
<1>13. ASSUME NEW c \in Connected, NEW t \in MoveTargets, Move(c, t) PROVE SlotInv'
  BY <1>13 DEF Move, SlotExclusive, SessionsSound, PlayedRows, Plays, IsPlaying, Connected, dbVars
<1>14. CASE (LoopNext /\ UNCHANGED <<dbVars, asked>>) \/ UNCHANGED vars
  BY <1>14 DEF LoopNext, SlotExclusive, SessionsSound, PlayedRows, Plays, IsPlaying, Connected, dbVars,
               vars, uwsVars, sharedVars
<1> QED
  BY <1>1, <1>2, <1>3, <1>4, <1>6, <1>7, <1>9, <1>10, <1>11, <1>12, <1>13, <1>14 DEF Next, UwsNext

\* The types and the slots' invariant hold for good.
LEMMA SlotInvariant == Spec => [](TypeOK /\ SlotInv)
<1> QED
  BY TypeInit, TypeStep, SlotInit, SlotStep, PTL DEF Spec

\* No user ever plays one slot on two connections.
THEOREM SlotsExclusive == Spec => []SlotExclusive
<1>1. SlotInv => SlotExclusive
  BY DEF SlotInv
<1> QED
  BY <1>1, SlotInvariant, PTL

-----------------------------------------------------------------------------
(* What the two threads owe each other. *)

Uws == game_loop_queue["uws"]
Loop == game_loop_queue["loop"]

InStream(q, c) == \E i \in DOMAIN q : q[i].connection_id = c

\* The game loop keeps nothing of c.
Quiet(c) == /\ \A pc \in players : pc.connection_id # c
            /\ \A o \in outward_queue : o.connection_id # c

\* Nothing is about a connection that was never opened.
IdsUsed == \A c \in ConnectionIds :
             InStream(Uws, c) \/ ~Quiet(c) => c < connection_id_counter

\* A connection that does not play has left no trace.
FreshSilent == \A c \in Connected : ~IsPlaying(c) => Quiet(c) /\ ~InStream(Uws, c)

\* Nothing of a connection follows its leave or precedes its enter.
StreamOrder == \A i, j \in DOMAIN Uws :
                 i < j /\ Uws[i].connection_id = Uws[j].connection_id
                   => Uws[i].type # "player_leave" /\ Uws[j].type # "player_enter"

EnterFirst == \A i \in DOMAIN Uws :
                Uws[i].type = "player_enter" => Quiet(Uws[i].connection_id)

UwsLeaves == \A i \in DOMAIN Uws :
               Uws[i].type = "player_leave" => Leaving(Uws[i].connection_id)

\* The game loop's own messages are leaves of connections that are gone.
LoopLeaves == \A i \in DOMAIN Loop :
                /\ Loop[i].type = "player_leave"
                /\ Gone(Loop[i].connection_id)
                /\ ~EnterQueued(Loop[i].connection_id)

WorldInv == /\ IdsUsed /\ FreshSilent
            /\ StreamOrder /\ EnterFirst
            /\ UwsLeaves /\ LoopLeaves
            /\ NoGhosts /\ OneCharacterEach

-----------------------------------------------------------------------------
(* What a step does to the two streams. *)

\* Both streams are sequences of messages.
LEMMA StreamsTyped ==
  ASSUME TypeOK
  PROVE  /\ Uws \in Seq(QueueMessages) /\ Loop \in Seq(QueueMessages)
         /\ Len(Uws) \in Nat /\ DOMAIN Uws = 1 .. Len(Uws)
         /\ Len(Loop) \in Nat /\ DOMAIN Loop = 1 .. Len(Loop)
         /\ \A i \in DOMAIN Uws : Uws[i] \in QueueMessages
         /\ \A i \in DOMAIN Loop : Loop[i] \in QueueMessages
BY DEF TypeOK, UwsTypeOK, SharedTypeOK, Uws, Loop, Producers

\* The websocket thread's stream after the thread queued a message.
LEMMA UwsAppended ==
  ASSUME TypeOK, NEW m \in QueueMessages, Enqueue("uws", m)
  PROVE  /\ Loop' = Loop
         /\ DOMAIN Uws' = 1 .. Len(Uws) + 1
         /\ \A i \in 1 .. Len(Uws) : Uws'[i] = Uws[i]
         /\ Uws'[Len(Uws) + 1] = m
<1>1. Uws' = Append(Uws, m) /\ Loop' = Loop
  BY DEF TypeOK, UwsTypeOK, SharedTypeOK, Uws, Loop, Producers, Enqueue
<1> QED
  BY <1>1, AppendFacts, StreamsTyped

\* The game loop's stream after the loop queued a message for itself.
LEMMA LoopAppended ==
  ASSUME TypeOK, NEW m \in QueueMessages, Enqueue("loop", m)
  PROVE  /\ Uws' = Uws
         /\ DOMAIN Loop' = 1 .. Len(Loop) + 1
         /\ \A i \in 1 .. Len(Loop) : Loop'[i] = Loop[i]
         /\ Loop'[Len(Loop) + 1] = m
<1>1. Loop' = Append(Loop, m) /\ Uws' = Uws
  BY DEF TypeOK, UwsTypeOK, SharedTypeOK, Uws, Loop, Producers, Enqueue
<1> QED
  BY <1>1, AppendFacts, StreamsTyped

\* The websocket thread's stream after the game loop took its oldest message.
LEMMA UwsTaken ==
  ASSUME TypeOK, Dequeue("uws")
  PROVE  /\ Loop' = Loop
         /\ Len(Uws) \in Nat \ {0}
         /\ Head(Uws) = Uws[1]
         /\ DOMAIN Uws' = 1 .. Len(Uws) - 1
         /\ \A i \in 1 .. Len(Uws) - 1 : Uws'[i] = Uws[i + 1]
<1>1. Uws' = Tail(Uws) /\ Loop' = Loop /\ Uws # <<>>
  BY DEF TypeOK, UwsTypeOK, SharedTypeOK, Uws, Loop, Producers, Dequeue
<1> QED
  BY <1>1, TailFacts, StreamsTyped

\* The game loop's stream after the loop took its oldest message.
LEMMA LoopTaken ==
  ASSUME TypeOK, Dequeue("loop")
  PROVE  /\ Uws' = Uws
         /\ Len(Loop) \in Nat \ {0}
         /\ Head(Loop) = Loop[1]
         /\ DOMAIN Loop' = 1 .. Len(Loop) - 1
         /\ \A i \in 1 .. Len(Loop) - 1 : Loop'[i] = Loop[i + 1]
<1>1. Loop' = Tail(Loop) /\ Uws' = Uws /\ Loop # <<>>
  BY DEF TypeOK, UwsTypeOK, SharedTypeOK, Uws, Loop, Producers, Dequeue
<1> QED
  BY <1>1, TailFacts, StreamsTyped

\* At start-up the world and both streams are empty.
LEMMA WorldInit == Init => WorldInv
<1> SUFFICES ASSUME Init PROVE WorldInv
  OBVIOUS
<1>1. /\ Uws = <<>> /\ Loop = <<>> /\ Connected = {}
      /\ players = {} /\ outward_queue = {}
  BY DEF Init, UwsInit, SharedInit, LoopInit, Uws, Loop, Connected, Producers
<1> QED
  BY <1>1 DEF WorldInv, IdsUsed, FreshSilent, StreamOrder, EnterFirst, UwsLeaves, LoopLeaves,
              NoGhosts, OneCharacterEach, InStream, Quiet, EnterQueued, Uws, Loop
-----------------------------------------------------------------------------
(* The steps of the websocket thread. *)

\* A session changes; nobody stops playing.
LEMMA SessionOnly ==
  ASSUME WorldInv, Connected' = Connected, \A c \in Connected : IsPlaying(c) => IsPlaying(c)',
         UNCHANGED <<connection_id_counter, erasing, game_loop_queue, players, outward_queue>>
  PROVE  WorldInv'
BY DEF WorldInv, IdsUsed, FreshSilent, StreamOrder, EnterFirst, UwsLeaves, LoopLeaves,
       NoGhosts, OneCharacterEach, InStream, Quiet, EnterQueued, Uws, Loop, Leaving, Gone, Queued

\* on_open: the new id is one nothing is about.
LEMMA OpenStep == TypeOK /\ WorldInv /\ OnOpen /\ UNCHANGED loopVars => WorldInv'
<1> SUFFICES ASSUME TypeOK, WorldInv, OnOpen, UNCHANGED loopVars PROVE WorldInv'
  OBVIOUS
<1> DEFINE new == connection_id_counter
<1>1. /\ Connected' = Connected \cup {new}
      /\ \A c \in Connected : user_connections'[c] = user_connections[c]
      /\ new \in ConnectionIds /\ new \notin Connected
      /\ Connected \subseteq 0 .. new - 1 /\ new \in Nat
      /\ erasing \in Connected \cup {NoConnection}
      /\ new # NoConnection
  BY StateAssumption
  DEF OnOpen, TypeOK, UwsTypeOK, SharedTypeOK, Connected, ConnectionIds
<1>2. UNCHANGED <<Uws, Loop, players, outward_queue, erasing>> /\ connection_id_counter' = new + 1
  BY DEF OnOpen, loopVars, Uws, Loop
<1>3. Quiet(new) /\ ~InStream(Uws, new)
  BY <1>1 DEF WorldInv, IdsUsed
<1>4. \A c \in ConnectionIds : c # new => (Gone(c)' <=> Gone(c)) /\ (Leaving(c)' <=> Leaving(c))
  BY <1>1, <1>2 DEF Gone, Leaving, ConnectionIds
<1>5. IdsUsed' /\ FreshSilent'
  BY <1>1, <1>2, <1>3
  DEF WorldInv, IdsUsed, FreshSilent, IsPlaying, Quiet, InStream, ConnectionIds
<1>6. StreamOrder' /\ EnterFirst' /\ OneCharacterEach'
  BY <1>2 DEF WorldInv, StreamOrder, EnterFirst, OneCharacterEach, Quiet
<1>7. \A m \in QueueMessages : m.connection_id \in ConnectionIds
  BY MessageFields
<1>8. UwsLeaves' /\ LoopLeaves'
  <2>1. \A c : EnterQueued(c)' <=> EnterQueued(c)
    BY <1>2 DEF EnterQueued, Uws
  <2>2. \A i \in DOMAIN Loop : Loop[i].connection_id # new
    BY <1>1 DEF WorldInv, LoopLeaves, Gone
  <2> QED
    BY <1>2, <1>3, <1>4, <1>7, <2>1, <2>2, StreamsTyped DEF WorldInv, UwsLeaves, LoopLeaves, InStream
<1>9. NoGhosts'
  <2>1. \A pc \in players : pc.connection_id \in ConnectionIds /\ pc.connection_id # new
    BY <1>3 DEF Quiet, TypeOK, LoopTypeOK, Pc
  <2>2. \A i \in DOMAIN Uws : Uws[i].connection_id \in ConnectionIds /\ Uws[i].connection_id # new
    BY <1>3, <1>7, StreamsTyped DEF InStream
  <2> QED
    BY <1>2, <1>4, <2>1, <2>2 DEF WorldInv, NoGhosts, Queued, Uws
<1> QED
  BY <1>5, <1>6, <1>8, <1>9 DEF WorldInv

\* on_close queues the leave message last, or has nobody to take out.
LEMMA CloseStep ==
  ASSUME TypeOK, WorldInv, NEW c \in Connected, OnClose(c), UNCHANGED loopVars
  PROVE  WorldInv'
<1>1. /\ Connected' = Connected
      /\ \A d \in Connected : IsPlaying(d)' <=> IsPlaying(d)
      /\ UNCHANGED <<connection_id_counter, players, outward_queue>>
      /\ erasing = NoConnection /\ erasing' = c
      /\ c \in ConnectionIds /\ c < connection_id_counter
  BY ConnectedIds, StateAssumption
  DEF OnClose, Idle, Connected, IsPlaying, loopVars, TypeOK, UwsTypeOK, SharedTypeOK
<1>2. \A d \in ConnectionIds : (Gone(d)' <=> Gone(d)) /\ (Leaving(d)' <=> Leaving(d) \/ d = c)
  BY <1>1, StateAssumption DEF Gone, Leaving
<1>3. CASE IsPlaying(c)
  <2> DEFINE m == PlayerLeave(c)
  <2>1. m \in QueueMessages /\ m.type = "player_leave" /\ m.connection_id = c
    BY <1>1 DEF PlayerLeave, QueueMessages, LeaveMessages
  <2>2. /\ Enqueue("uws", m)
    BY <1>3 DEF OnClose, IsPlaying
  <2>3. /\ Loop' = Loop
        /\ DOMAIN Uws' = 1 .. Len(Uws) + 1
        /\ \A i \in 1 .. Len(Uws) : Uws'[i] = Uws[i]
        /\ Uws'[Len(Uws) + 1] = m
    BY <2>1, <2>2, UwsAppended
  <2>4. /\ Len(Uws) \in Nat /\ DOMAIN Uws = 1 .. Len(Uws)
        /\ \A i \in DOMAIN Uws : Uws[i].connection_id \in ConnectionIds
        /\ \A i \in DOMAIN Loop : Loop[i].connection_id \in ConnectionIds
    BY StreamsTyped, MessageFields
  <2>5. IdsUsed' /\ FreshSilent'
    BY <1>1, <1>3, <2>1, <2>3, <2>4 DEF WorldInv, IdsUsed, FreshSilent, InStream, Quiet
  <2>6. StreamOrder'
    <3>1. \A i \in DOMAIN Uws : Uws[i].connection_id = c => Uws[i].type # "player_leave"
      BY <1>1, <2>4, StateAssumption DEF WorldInv, UwsLeaves, Leaving, Gone, ConnectionIds
    <3> QED
      BY <2>1, <2>3, <2>4, <3>1 DEF WorldInv, StreamOrder
  <2>7. EnterFirst' /\ UwsLeaves' /\ OneCharacterEach'
    BY <1>1, <1>2, <2>1, <2>3, <2>4
    DEF WorldInv, EnterFirst, UwsLeaves, OneCharacterEach, Quiet
  <2>8. LoopLeaves'
    <3>1. \A d : EnterQueued(d)' => EnterQueued(d)
      BY <2>1, <2>3, <2>4 DEF EnterQueued, Uws
    <3> QED
      BY <1>2, <2>3, <2>4, <3>1 DEF WorldInv, LoopLeaves
  <2>9. NoGhosts'
    <3>1. \A k : Queued("uws", k) \/ k = m => Queued("uws", k)'
      BY <2>3, <2>4 DEF Queued, Uws
    <3>2. \A pc \in players : pc.connection_id \in ConnectionIds
      BY DEF TypeOK, LoopTypeOK, Pc
    <3>3. \A i \in DOMAIN Uws : i < Len(Uws) + 1
      BY <2>4
    <3>4. \A pc \in players : Leaving(pc.connection_id)' => Queued("uws", PlayerLeave(pc.connection_id))'
      BY <1>2, <3>1, <3>2 DEF WorldInv, NoGhosts
    <3>5. ASSUME NEW i \in DOMAIN Uws, Uws[i].type = "player_enter",
                 NEW d \in ConnectionIds, d = Uws[i].connection_id, Leaving(d)'
          PROVE  \E j \in DOMAIN Uws' : j > i /\ Uws'[j] = PlayerLeave(d)
      <4>1. CASE Leaving(d)
        <5>1. PICK j \in DOMAIN Uws : j > i /\ Uws[j] = PlayerLeave(d)
          BY <3>5, <4>1 DEF WorldInv, NoGhosts, Uws
        <5> QED
          BY <2>3, <2>4, <5>1
      <4>2. CASE d = c
        <5>1. Len(Uws) + 1 \in DOMAIN Uws' /\ Len(Uws) + 1 > i
          BY <2>3, <2>4
        <5> QED
          BY <2>3, <4>2, <5>1
      <4> QED
        BY <1>2, <3>5, <4>1, <4>2
    <3>6. \A i \in DOMAIN Uws' : Uws'[i].type = "player_enter" =>
            i \in DOMAIN Uws /\ Uws'[i] = Uws[i]
      BY <2>1, <2>3, <2>4
    <3> QED
      BY <1>1, <2>4, <3>4, <3>5, <3>6 DEF NoGhosts, Uws
  <2> QED
    BY <2>5, <2>6, <2>7, <2>8, <2>9 DEF WorldInv
<1>4. CASE ~IsPlaying(c)
  <2>1. Quiet(c) /\ ~InStream(Uws, c)
    BY <1>4 DEF WorldInv, FreshSilent
  <2>2. UNCHANGED <<game_loop_queue, Uws, Loop>>
    BY <1>4 DEF OnClose, IsPlaying, Uws, Loop
  <2>3. /\ \A i \in DOMAIN Uws : Uws[i].connection_id \in ConnectionIds /\ Uws[i].connection_id # c
        /\ \A i \in DOMAIN Loop : Loop[i].connection_id \in ConnectionIds
        /\ \A pc \in players : pc.connection_id \in ConnectionIds /\ pc.connection_id # c
    BY <2>1, StreamsTyped, MessageFields DEF InStream, Quiet, TypeOK, LoopTypeOK, Pc
  <2>4. IdsUsed' /\ FreshSilent' /\ StreamOrder' /\ EnterFirst' /\ OneCharacterEach'
    BY <1>1, <2>2
    DEF WorldInv, IdsUsed, FreshSilent, StreamOrder, EnterFirst, OneCharacterEach, Quiet
  <2>5. UwsLeaves' /\ LoopLeaves'
    BY <1>1, <1>2, <2>2, <2>3 DEF WorldInv, UwsLeaves, LoopLeaves, EnterQueued
  <2>6. NoGhosts'
    BY <1>1, <1>2, <2>2, <2>3 DEF WorldInv, NoGhosts, Queued, Uws
  <2> QED
    BY <2>4, <2>5, <2>6 DEF WorldInv
<1> QED
  BY <1>3, <1>4

\* on_close, its second half: the connection was leaving already.
LEMMA EraseStep == TypeOK /\ WorldInv /\ OnCloseErase /\ UNCHANGED loopVars => WorldInv'
<1> SUFFICES ASSUME TypeOK, WorldInv, OnCloseErase, UNCHANGED loopVars PROVE WorldInv'
  OBVIOUS
<1>1. /\ Connected' = Connected \ {erasing}
      /\ \A d \in Connected' : user_connections'[d] = user_connections[d]
      /\ UNCHANGED <<connection_id_counter, game_loop_queue, Uws, Loop, players, outward_queue>>
      /\ erasing' = NoConnection /\ erasing \in ConnectionIds
      /\ \A d \in Connected : d < connection_id_counter
  BY ConnectedIds
  DEF OnCloseErase, Restrict, Connected, loopVars, Uws, Loop, TypeOK, UwsTypeOK, SharedTypeOK
<1>2. \A d \in ConnectionIds : (Leaving(d)' <=> Leaving(d)) /\ (Gone(d) => Gone(d)')
  BY <1>1, StateAssumption
  DEF Gone, Leaving, OnCloseErase, TypeOK, UwsTypeOK, SharedTypeOK
<1>3. /\ \A i \in DOMAIN Uws : Uws[i].connection_id \in ConnectionIds
      /\ \A i \in DOMAIN Loop : Loop[i].connection_id \in ConnectionIds
      /\ \A pc \in players : pc.connection_id \in ConnectionIds
  BY StreamsTyped, MessageFields DEF TypeOK, LoopTypeOK, Pc
<1>4. IdsUsed' /\ FreshSilent' /\ StreamOrder' /\ EnterFirst' /\ OneCharacterEach'
  BY <1>1
  DEF WorldInv, IdsUsed, FreshSilent, StreamOrder, EnterFirst, OneCharacterEach, Quiet, IsPlaying
<1>5. UwsLeaves' /\ LoopLeaves'
  BY <1>1, <1>2, <1>3 DEF WorldInv, UwsLeaves, LoopLeaves, EnterQueued
<1>6. NoGhosts'
  BY <1>1, <1>2, <1>3 DEF WorldInv, NoGhosts, Queued, Uws
<1> QED
  BY <1>4, <1>5, <1>6 DEF WorldInv

\* play_character_handler: the connection was silent so far.
LEMMA EnterQueuedStep ==
  ASSUME TypeOK, WorldInv, NEW c \in Connected, NEW s \in Slots, PlayCharacter(c, s),
         UNCHANGED loopVars
  PROVE  WorldInv'
<1> DEFINE m == PlayerEnter(c, characters[user_connections[c].user_id][s])
<1>1. /\ Connected' = Connected
      /\ \A d \in Connected : IsPlaying(d)' <=> IsPlaying(d) \/ d = c
      /\ UNCHANGED <<connection_id_counter, erasing, players, outward_queue>>
      /\ ~IsPlaying(c) /\ erasing = NoConnection
      /\ c \in ConnectionIds /\ c < connection_id_counter
  <2>1. \A d \in Connected : user_connections'[d].playing_character_slot
                = IF d = c THEN s ELSE user_connections[d].playing_character_slot
    BY DEF PlayCharacter, TakeSlot, TypeOK, UwsTypeOK, SharedTypeOK, Session
  <2>2. Connected' = Connected
    BY SessionUpdate DEF PlayCharacter, TakeSlot, TypeOK, UwsTypeOK, SharedTypeOK
  <2>3. s # Nobody
    BY StateAssumption DEF Nobody
  <2>4. ~IsPlaying(c) /\ erasing = NoConnection
    BY DEF PlayCharacter, MayPlay, NotPlaying, Dispatched, Idle, IsPlaying
  <2>5. c \in ConnectionIds /\ c < connection_id_counter
    BY ConnectedIds DEF TypeOK, UwsTypeOK, SharedTypeOK
  <2> QED
    BY <2>1, <2>2, <2>3, <2>4, <2>5 DEF IsPlaying, PlayCharacter, loopVars
<1>2. m \in QueueMessages /\ m.type = "player_enter" /\ m.connection_id = c
  <2>1. characters[user_connections[c].user_id][s] \in Row
    BY DEF PlayCharacter, MayPlay, NotPlaying, Rows, Session, TypeOK, UwsTypeOK, SharedTypeOK
  <2> QED
    BY <2>1, <1>1 DEF PlayerEnter, QueueMessages, EnterMessages, Row
<1>3. /\ Loop' = Loop
      /\ DOMAIN Uws' = 1 .. Len(Uws) + 1
      /\ \A i \in 1 .. Len(Uws) : Uws'[i] = Uws[i]
      /\ Uws'[Len(Uws) + 1] = m
  BY <1>2, UwsAppended DEF PlayCharacter
<1>4. /\ Len(Uws) \in Nat /\ DOMAIN Uws = 1 .. Len(Uws)
      /\ \A i \in DOMAIN Uws : Uws[i].connection_id \in ConnectionIds
      /\ \A i \in DOMAIN Loop : Loop[i].connection_id \in ConnectionIds
  BY StreamsTyped, MessageFields
<1>5. Quiet(c) /\ ~InStream(Uws, c) /\ ~Leaving(c)
  BY <1>1, StateAssumption DEF WorldInv, FreshSilent, Leaving, Gone
<1>6. \A d : (Gone(d)' <=> Gone(d)) /\ (Leaving(d)' <=> Leaving(d))
  BY <1>1 DEF Gone, Leaving
<1>7. IdsUsed' /\ FreshSilent'
  BY <1>1, <1>2, <1>3, <1>4 DEF WorldInv, IdsUsed, FreshSilent, InStream, Quiet
<1>8. StreamOrder' /\ EnterFirst' /\ UwsLeaves' /\ OneCharacterEach'
  BY <1>1, <1>2, <1>3, <1>4, <1>5, <1>6
  DEF WorldInv, StreamOrder, EnterFirst, UwsLeaves, OneCharacterEach, InStream, Quiet
<1>9. LoopLeaves'
  <2>1. \A d : EnterQueued(d)' => EnterQueued(d) \/ d = c
    BY <1>2, <1>3, <1>4 DEF EnterQueued, Uws
  <2>2. \A i \in DOMAIN Loop : Loop[i].connection_id # c
    BY <1>5 DEF WorldInv, LoopLeaves, Leaving
  <2> QED
    BY <1>3, <1>6, <2>1, <2>2 DEF WorldInv, LoopLeaves
<1>10. NoGhosts'
  <2>1. \A k : Queued("uws", k) => Queued("uws", k)'
    BY <1>3, <1>4 DEF Queued, Uws
  <2>2. \A pc \in players : Leaving(pc.connection_id)' => Queued("uws", PlayerLeave(pc.connection_id))'
    BY <1>6, <2>1 DEF WorldInv, NoGhosts
  <2>3. ASSUME NEW i \in DOMAIN Uws, Uws[i].type = "player_enter",
               NEW d \in ConnectionIds, d = Uws[i].connection_id, Leaving(d)'
        PROVE  \E j \in DOMAIN Uws' : j > i /\ Uws'[j] = PlayerLeave(d)
    <3>1. PICK j \in DOMAIN Uws : j > i /\ Uws[j] = PlayerLeave(d)
      BY <1>6, <2>3 DEF WorldInv, NoGhosts, Uws
    <3> QED
      BY <1>3, <1>4, <3>1
  <2>4. \A i \in DOMAIN Uws' : (i \in DOMAIN Uws /\ Uws'[i] = Uws[i]) \/ Uws'[i] = m
    BY <1>3, <1>4
  <2> QED
    BY <1>1, <1>2, <1>4, <1>5, <1>6, <2>2, <2>3, <2>4 DEF NoGhosts, Uws
<1> QED
  BY <1>7, <1>8, <1>9, <1>10 DEF WorldInv

\* move_handler: the connection plays and is not closing, so no leave is queued.
LEMMA MoveQueuedStep ==
  ASSUME TypeOK, WorldInv, NEW c \in Connected, NEW t \in MoveTargets, Move(c, t),
         UNCHANGED loopVars
  PROVE  WorldInv'
<1> DEFINE m == PlayerMove(c, t)
<1>1. /\ Connected' = Connected
      /\ \A d \in Connected : IsPlaying(d)' <=> IsPlaying(d)
      /\ UNCHANGED <<connection_id_counter, erasing, players, outward_queue>>
      /\ IsPlaying(c) /\ erasing = NoConnection
      /\ c \in ConnectionIds /\ c < connection_id_counter
  BY ConnectedIds
  DEF Move, Dispatched, Idle, IsPlaying, Connected, loopVars, TypeOK, UwsTypeOK, SharedTypeOK
<1>2. m \in QueueMessages /\ m.type = "player_move" /\ m.connection_id = c
  BY <1>1, UwsAssumption DEF PlayerMove, QueueMessages, MoveMessages
<1>3. /\ Loop' = Loop
      /\ DOMAIN Uws' = 1 .. Len(Uws) + 1
      /\ \A i \in 1 .. Len(Uws) : Uws'[i] = Uws[i]
      /\ Uws'[Len(Uws) + 1] = m
  BY <1>2, UwsAppended DEF Move
<1>4. /\ Len(Uws) \in Nat /\ DOMAIN Uws = 1 .. Len(Uws)
      /\ \A i \in DOMAIN Uws : Uws[i].connection_id \in ConnectionIds
  BY StreamsTyped, MessageFields
<1>5. ~Leaving(c)
  BY <1>1, StateAssumption DEF Leaving, Gone
<1>6. \A d : (Gone(d)' <=> Gone(d)) /\ (Leaving(d)' <=> Leaving(d))
  BY <1>1 DEF Gone, Leaving
<1>7. IdsUsed' /\ FreshSilent'
  BY <1>1, <1>2, <1>3, <1>4 DEF WorldInv, IdsUsed, FreshSilent, InStream, Quiet
<1>8. StreamOrder'
  <2>1. \A i \in DOMAIN Uws : Uws[i].connection_id = c => Uws[i].type # "player_leave"
    BY <1>4, <1>5 DEF WorldInv, UwsLeaves
  <2> QED
    BY <1>2, <1>3, <1>4, <2>1 DEF WorldInv, StreamOrder
<1>9. EnterFirst' /\ UwsLeaves' /\ OneCharacterEach'
  BY <1>1, <1>2, <1>3, <1>4, <1>6 DEF WorldInv, EnterFirst, UwsLeaves, OneCharacterEach, Quiet
<1>10. LoopLeaves'
  <2>1. \A d : EnterQueued(d)' => EnterQueued(d)
    BY <1>2, <1>3, <1>4 DEF EnterQueued, Uws
  <2> QED
    BY <1>3, <1>6, <2>1 DEF WorldInv, LoopLeaves
<1>11. NoGhosts'
  <2>1. \A k : Queued("uws", k) => Queued("uws", k)'
    BY <1>3, <1>4 DEF Queued, Uws
  <2>2. \A pc \in players : Leaving(pc.connection_id)' => Queued("uws", PlayerLeave(pc.connection_id))'
    BY <1>6, <2>1 DEF WorldInv, NoGhosts
  <2>3. ASSUME NEW i \in DOMAIN Uws, Uws[i].type = "player_enter",
               NEW d \in ConnectionIds, d = Uws[i].connection_id, Leaving(d)'
        PROVE  \E j \in DOMAIN Uws' : j > i /\ Uws'[j] = PlayerLeave(d)
    <3>1. PICK j \in DOMAIN Uws : j > i /\ Uws[j] = PlayerLeave(d)
      BY <1>6, <2>3 DEF WorldInv, NoGhosts, Uws
    <3> QED
      BY <1>3, <1>4, <3>1
  <2>4. \A i \in DOMAIN Uws' : Uws'[i].type = "player_enter" =>
          i \in DOMAIN Uws /\ Uws'[i] = Uws[i]
    BY <1>2, <1>3, <1>4
  <2> QED
    BY <1>1, <1>4, <2>2, <2>3, <2>4 DEF NoGhosts, Uws
<1> QED
  BY <1>7, <1>8, <1>9, <1>10, <1>11 DEF WorldInv

\* Every step of the websocket thread keeps the invariant.
LEMMA UwsWorldStep == TypeOK /\ WorldInv /\ UwsNext /\ UNCHANGED loopVars => WorldInv'
<1> SUFFICES ASSUME TypeOK, WorldInv, UwsNext, UNCHANGED loopVars PROVE WorldInv'
  OBVIOUS
<1> USE DEF sharedVars, loopVars
<1>0. user_connections \in [Connected -> Session]
  BY DEF TypeOK, UwsTypeOK, SharedTypeOK
<1>1. ASSUME NEW c \in Connected, NEW u \in Users,
             RefuseBanned(c, u) \/ Login(c, u) \/ Register(c, u)
      PROVE  WorldInv'
  <2>1. Connected' = Connected
    BY <1>0, <1>1, SessionUpdate DEF RefuseBanned, Login, Register
  <2>2. \A d \in Connected : user_connections'[d].playing_character_slot
                               = user_connections[d].playing_character_slot
    BY <1>0, <1>1 DEF RefuseBanned, Login, Register, Session
  <2> QED
    BY <1>1, <2>1, <2>2, SessionOnly DEF IsPlaying, RefuseBanned, Login, Register
<1>2. ASSUME NEW c \in Connected, NEW s \in Slots, PlayCharacterFails(c, s) PROVE WorldInv'
  <2>1. Connected' = Connected
    BY <1>0, <1>2, SessionUpdate DEF PlayCharacterFails, TakeSlot
  <2>2. \A d \in Connected : user_connections'[d].playing_character_slot
               = IF d = c THEN s ELSE user_connections[d].playing_character_slot
    BY <1>0, <1>2 DEF PlayCharacterFails, TakeSlot, Session
  <2>3. s # Nobody
    BY StateAssumption DEF Nobody
  <2> QED
    BY <1>2, <2>1, <2>2, <2>3, SessionOnly DEF IsPlaying, PlayCharacterFails
<1>3. ASSUME NEW c \in Connected, NEW s \in Slots,
             \/ DeleteCharacter(c, s)
             \/ \E name \in Names, served \in BOOLEAN : CreateCharacter(c, s, name, served)
      PROVE  WorldInv'
  <2>1. UNCHANGED sharedVars
    BY <1>3 DEF DeleteCharacter, CreateCharacter
  <2> QED
    BY <2>1, SessionOnly DEF IsPlaying, Connected
<1> QED
  BY <1>1, <1>2, <1>3, OpenStep, CloseStep, EraseStep, EnterQueuedStep, MoveQueuedStep DEF UwsNext
-----------------------------------------------------------------------------
(* The steps of the game loop. *)

\* What a step of the game loop leaves to the websocket thread.
LEMMA LoopFrame ==
  ASSUME UNCHANGED <<connection_id_counter, user_connections, erasing>>
  PROVE  /\ Connected' = Connected
         /\ \A c : IsPlaying(c)' <=> IsPlaying(c)
         /\ \A c : (Gone(c)' <=> Gone(c)) /\ (Leaving(c)' <=> Leaving(c))
BY DEF Connected, IsPlaying, Gone, Leaving

\* The oldest message of the websocket thread is taken: what is left to show are the
\* parts of the invariant about the world.
LEMMA TakenStream ==
  ASSUME TypeOK, WorldInv, Dequeue("uws"),
         UNCHANGED <<connection_id_counter, user_connections, erasing>>
  PROVE  /\ StreamOrder' /\ UwsLeaves' /\ LoopLeaves'
         /\ \A c : InStream(Uws, c)' => InStream(Uws, c)
         /\ \A c \in ConnectionIds : Queued("uws", PlayerLeave(c)) /\ Uws[1] # PlayerLeave(c)
              => Queued("uws", PlayerLeave(c))'
         /\ \A i \in DOMAIN Uws' : i + 1 \in DOMAIN Uws /\ Uws'[i] = Uws[i + 1]
         /\ \A i \in DOMAIN Uws', c \in ConnectionIds :
              /\ Uws'[i].type = "player_enter"
              /\ Uws'[i].connection_id = c
              /\ Leaving(c)
              => \E j \in DOMAIN Uws' : j > i /\ Uws'[j] = PlayerLeave(c)
<1>1. /\ Loop' = Loop
      /\ Len(Uws) \in Nat \ {0} /\ DOMAIN Uws = 1 .. Len(Uws)
      /\ DOMAIN Uws' = 1 .. Len(Uws) - 1
      /\ \A i \in 1 .. Len(Uws) - 1 : Uws'[i] = Uws[i + 1]
  BY UwsTaken, StreamsTyped
<1>2. \A i \in DOMAIN Uws' : i + 1 \in DOMAIN Uws /\ Uws'[i] = Uws[i + 1]
  BY <1>1
<1>3. StreamOrder'
  BY <1>1 DEF WorldInv, StreamOrder
<1>4. UwsLeaves'
  BY <1>1, LoopFrame DEF WorldInv, UwsLeaves
<1>5. \A c : InStream(Uws, c)' => InStream(Uws, c)
  BY <1>2 DEF InStream
<1>6. LoopLeaves'
  <2>1. \A c : EnterQueued(c)' => EnterQueued(c)
    BY <1>2 DEF EnterQueued, Uws
  <2> QED
    BY <1>1, <2>1, LoopFrame DEF WorldInv, LoopLeaves
<1>7. \A c \in ConnectionIds : Queued("uws", PlayerLeave(c)) /\ Uws[1] # PlayerLeave(c)
        => Queued("uws", PlayerLeave(c))'
  <2> SUFFICES ASSUME NEW c \in ConnectionIds, Queued("uws", PlayerLeave(c)),
                      Uws[1] # PlayerLeave(c)
               PROVE  Queued("uws", PlayerLeave(c))'
    OBVIOUS
  <2>1. PICK i \in DOMAIN Uws : Uws[i] = PlayerLeave(c)
    BY DEF Queued, Uws
  <2>2. i # 1
    BY <2>1
  <2>3. i - 1 \in DOMAIN Uws' /\ Uws'[i - 1] = Uws[i]
    BY <1>1, <2>2
  <2> QED
    BY <2>1, <2>3 DEF Queued, Uws, PlayerLeave
<1>8. ASSUME NEW i \in DOMAIN Uws', NEW c \in ConnectionIds, Uws'[i].type = "player_enter",
             Uws'[i].connection_id = c, Leaving(c)
      PROVE  \E j \in DOMAIN Uws' : j > i /\ Uws'[j] = PlayerLeave(c)
  <2>1. PICK j \in DOMAIN Uws : j > i + 1 /\ Uws[j] = PlayerLeave(c)
    BY <1>2, <1>8 DEF WorldInv, NoGhosts, Uws
  <2>2. j - 1 \in DOMAIN Uws' /\ j - 1 > i /\ Uws'[j - 1] = Uws[j]
    BY <1>1, <2>1
  <2> QED
    BY <2>1, <2>2
<1> QED
  BY <1>2, <1>3, <1>4, <1>5, <1>6, <1>7, <1>8

\* Nothing but leaves is in the game loop's own stream.
LEMMA LoopHead ==
  ASSUME TypeOK, WorldInv, Dequeue("loop")
  PROVE  Head(Loop).type = "player_leave"
BY LoopTaken, StreamsTyped DEF WorldInv, LoopLeaves

\* player_enter_handler: a new player has no namesake, and its leave is still
\* queued if it is leaving.
LEMMA EnterHandledStep ==
  ASSUME TypeOK, WorldInv, NEW p \in Producers, HandlePlayerEnter(p),
         UNCHANGED <<connection_id_counter, user_connections, erasing>>
  PROVE  WorldInv'
<1> DEFINE m == Uws[1]
           c == m.connection_id
<1>1. p = "uws"
  BY LoopHead DEF HandlePlayerEnter, Loop, Producers
<1>2. Dequeue("uws") /\ Head(Uws) = m /\ m.type = "player_enter" /\ 1 \in DOMAIN Uws
  BY <1>1, UwsTaken, StreamsTyped DEF HandlePlayerEnter, Uws
<1>3. m \in QueueMessages /\ c \in ConnectionIds
  BY <1>2, StreamsTyped, MessageFields
<1>4. Quiet(c) /\ InStream(Uws, c)
  BY <1>2 DEF WorldInv, EnterFirst, InStream
<1>5. /\ \/ players' = players
         \/ ~NameTaken(m.character_name) /\ players' = players \cup {NewPc(m)}
      /\ \A o \in outward_queue' : o \in outward_queue \/ o.connection_id = c
  BY <1>1 DEF HandlePlayerEnter, RefuseEnter, AdmitPlayer, SendError, Uws
<1>6. NewPc(m).connection_id = c /\ NewPc(m).name = m.character_name
  BY DEF NewPc
<1>7. \A d : d # c /\ Quiet(d) => Quiet(d)'
  BY <1>5, <1>6 DEF Quiet
<1>8. IdsUsed' /\ FreshSilent'
  BY <1>2, <1>4, <1>7, TakenStream, LoopFrame DEF WorldInv, IdsUsed, FreshSilent
<1>9. EnterFirst'
  <2> SUFFICES ASSUME NEW i \in DOMAIN Uws', Uws'[i].type = "player_enter",
                      NEW d, d = Uws'[i].connection_id
               PROVE  Quiet(d)'
    BY DEF EnterFirst, Quiet
  <2>1. /\ i + 1 \in DOMAIN Uws /\ 1 < i + 1
        /\ Uws[i + 1].type = "player_enter" /\ Uws[i + 1].connection_id = d
    BY <1>2, TakenStream, UwsTaken
  <2>2. d # c
    BY <1>2, <2>1 DEF WorldInv, StreamOrder
  <2>3. Quiet(d)
    BY <2>1 DEF WorldInv, EnterFirst
  <2> QED
    BY <1>7, <2>2, <2>3
<1>10. NoGhosts'
  <2>1. \A pc \in players : pc.connection_id \in ConnectionIds
    BY DEF TypeOK, LoopTypeOK, Pc
  <2>2. Leaving(c) => Queued("uws", PlayerLeave(c))
    BY <1>2 DEF WorldInv, NoGhosts, Queued, Uws
  <2>3. \A d \in ConnectionIds : Uws[1] # PlayerLeave(d)
    BY <1>2 DEF PlayerLeave
  <2>4. \A pc \in players' : Leaving(pc.connection_id)' => Queued("uws", PlayerLeave(pc.connection_id))'
    BY <1>2, <1>3, <1>5, <1>6, <2>1, <2>2, <2>3, TakenStream, LoopFrame DEF WorldInv, NoGhosts
  <2>5. \A i \in DOMAIN Uws' : Uws'[i].connection_id \in ConnectionIds
    BY <1>2, TakenStream, StreamsTyped, MessageFields
  <2> QED
    BY <1>2, <2>4, <2>5, TakenStream, LoopFrame DEF NoGhosts, Uws
<1>11. OneCharacterEach'
  BY <1>4, <1>5, <1>6 DEF WorldInv, OneCharacterEach, NameTaken, Quiet
<1> QED
  BY <1>2, <1>8, <1>9, <1>10, <1>11, TakenStream DEF WorldInv

\* A leave of the websocket thread: whoever it takes out was covered by it alone.
LEMMA UwsLeaveStep ==
  ASSUME TypeOK, WorldInv, HandlePlayerLeave("uws"),
         UNCHANGED <<connection_id_counter, user_connections, erasing>>
  PROVE  WorldInv'
<1> DEFINE m == Uws[1]
<1>1. /\ Dequeue("uws") /\ Head(Uws) = m
      /\ players' = {pc \in players : pc.connection_id # m.connection_id}
      /\ outward_queue' = outward_queue
  BY UwsTaken DEF HandlePlayerLeave, Uws
<1>2. \A d : Quiet(d) => Quiet(d)'
  BY <1>1 DEF Quiet
<1>3. IdsUsed' /\ FreshSilent' /\ OneCharacterEach'
  BY <1>1, <1>2, TakenStream, LoopFrame
  DEF WorldInv, IdsUsed, FreshSilent, OneCharacterEach
<1>4. EnterFirst'
  BY <1>1, <1>2, TakenStream DEF WorldInv, EnterFirst, Quiet
<1>5. NoGhosts'
  <2>1. \A pc \in players' : /\ pc \in players /\ pc.connection_id \in ConnectionIds
                             /\ m # PlayerLeave(pc.connection_id)
    BY <1>1 DEF TypeOK, LoopTypeOK, Pc, PlayerLeave
  <2>2. \A i \in DOMAIN Uws' : Uws'[i].connection_id \in ConnectionIds
    BY <1>1, TakenStream, StreamsTyped, MessageFields
  <2> QED
    BY <1>1, <2>1, <2>2, TakenStream, LoopFrame DEF WorldInv, NoGhosts, Uws
<1> QED
  BY <1>1, <1>3, <1>4, <1>5, TakenStream DEF WorldInv

\* A leave the game loop wrote itself.
LEMMA LoopLeaveStep ==
  ASSUME TypeOK, WorldInv, HandlePlayerLeave("loop"),
         UNCHANGED <<connection_id_counter, user_connections, erasing>>
  PROVE  WorldInv'
<1>1. /\ Dequeue("loop") /\ Uws' = Uws
      /\ \A i \in DOMAIN Loop' : i + 1 \in DOMAIN Loop /\ Loop'[i] = Loop[i + 1]
      /\ players' \subseteq players /\ outward_queue' = outward_queue
  BY LoopTaken, StreamsTyped DEF HandlePlayerLeave
<1>2. \A d : Quiet(d) => Quiet(d)'
  BY <1>1 DEF Quiet
<1>3. IdsUsed' /\ FreshSilent' /\ EnterFirst' /\ StreamOrder' /\ UwsLeaves' /\ OneCharacterEach'
  BY <1>1, <1>2, LoopFrame
  DEF WorldInv, IdsUsed, FreshSilent, EnterFirst, StreamOrder, UwsLeaves, OneCharacterEach,
      InStream, Quiet
<1>4. LoopLeaves'
  <2>1. \A c : EnterQueued(c)' => EnterQueued(c)
    BY <1>1 DEF EnterQueued, Uws
  <2> QED
    BY <1>1, <2>1, LoopFrame DEF WorldInv, LoopLeaves
<1>5. NoGhosts'
  BY <1>1, LoopFrame DEF WorldInv, NoGhosts, Queued, Uws
<1> QED
  BY <1>3, <1>4, <1>5 DEF WorldInv

\* The world keeps who is in it, and no message goes to anybody else.
LEMMA SameWorld ==
  ASSUME WorldInv, UNCHANGED <<connection_id_counter, user_connections, erasing>>,
         \A pc \in players' : \E old \in players :
           pc.name = old.name /\ pc.connection_id = old.connection_id,
         OneCharacterEach',
         \A o \in outward_queue' :
           \/ \E old \in outward_queue : o.connection_id = old.connection_id
           \/ \E pc \in players : o.connection_id = pc.connection_id
  PROVE  \A d : Quiet(d) => Quiet(d)'
BY DEF Quiet

\* A move changes nobody's name or connection.
LEMMA MovedPlayers ==
  ASSUME TypeOK, NEW p \in Producers, HandlePlayerMove(p)
  PROVE  /\ \A pc \in players : \E pc2 \in players' :
              pc2.name = pc.name /\ pc2.connection_id = pc.connection_id
         /\ \A pc2 \in players' : \E pc \in players :
              pc2.name = pc.name /\ pc2.connection_id = pc.connection_id
         /\ OneCharacterEach => OneCharacterEach'
<1> DEFINE m == Head(game_loop_queue[p])
           Moved(pc) == IF pc.connection_id = m.connection_id THEN [pc EXCEPT !.loc = m.loc] ELSE pc
<1>1. \A pc \in players : Moved(pc).name = pc.name /\ Moved(pc).connection_id = pc.connection_id
  BY DEF TypeOK, LoopTypeOK, Pc
<1>2. players' = players \/ players' = {Moved(pc) : pc \in players}
  BY DEF HandlePlayerMove
<1> HIDE DEF Moved
<1>3. CASE players' = players
  BY <1>3 DEF OneCharacterEach
<1>4. CASE players' = {Moved(pc) : pc \in players}
  <2>1. ASSUME OneCharacterEach, NEW x \in players, NEW y \in players,
               \/ Moved(x).name = Moved(y).name
               \/ Moved(x).connection_id = Moved(y).connection_id
        PROVE  x = y
    BY <1>1, <2>1 DEF OneCharacterEach
  <2> QED
    BY <1>1, <1>4, <2>1 DEF OneCharacterEach
<1> QED
  BY <1>2, <1>3, <1>4

\* player_move_handler: the player moves or gets an error.
LEMMA MoveHandledStep ==
  ASSUME TypeOK, WorldInv, NEW p \in Producers, HandlePlayerMove(p),
         UNCHANGED <<connection_id_counter, user_connections, erasing>>
  PROVE  WorldInv'
<1> DEFINE m == Uws[1]
<1>1. p = "uws"
  BY LoopHead DEF HandlePlayerMove, Loop, Producers
<1>2. Dequeue("uws") /\ Head(Uws) = m /\ m.type = "player_move"
  BY <1>1, UwsTaken DEF HandlePlayerMove, Uws
<1>5. /\ \A pc \in players' : \E old \in players :
           pc.name = old.name /\ pc.connection_id = old.connection_id
      /\ OneCharacterEach'
  BY MovedPlayers DEF WorldInv
<1>6. \A o \in outward_queue' : \/ o \in outward_queue
                                \/ \E pc \in players : o.connection_id = pc.connection_id
  BY <1>1 DEF HandlePlayerMove, SendError, Uws
<1>7. \A d : Quiet(d) => Quiet(d)'
  BY <1>5, <1>6, SameWorld
<1>8. IdsUsed' /\ FreshSilent'
  BY <1>2, <1>7, TakenStream, LoopFrame DEF WorldInv, IdsUsed, FreshSilent
<1>9. EnterFirst'
  BY <1>2, <1>7, TakenStream DEF WorldInv, EnterFirst, Quiet
<1>10. NoGhosts'
  <2>1. \A pc \in players : pc.connection_id \in ConnectionIds
    BY DEF TypeOK, LoopTypeOK, Pc
  <2>2. \A d \in ConnectionIds : m # PlayerLeave(d)
    BY <1>2 DEF PlayerLeave
  <2>3. \A i \in DOMAIN Uws' : Uws'[i].connection_id \in ConnectionIds
    BY <1>2, TakenStream, StreamsTyped, MessageFields
  <2>4. \A pc \in players : Leaving(pc.connection_id) => Queued("uws", PlayerLeave(pc.connection_id))'
    BY <1>2, <2>1, <2>2, TakenStream DEF WorldInv, NoGhosts
  <2> QED
    BY <1>2, <1>5, <2>3, <2>4, TakenStream, LoopFrame DEF NoGhosts, Uws
<1> QED
  BY <1>2, <1>5, <1>8, <1>9, <1>10, TakenStream DEF WorldInv

\* The steps that take nothing from the queue, of which only Deliver puts something in.
LEMMA TickStep ==
  ASSUME TypeOK, WorldInv,
         DrainDone \/ Update \/ (\E o \in outward_queue : Deliver(o)) \/ TickDone,
         UNCHANGED <<connection_id_counter, user_connections, erasing>>
  PROVE  WorldInv'
<1>1. /\ players' = players
      /\ \A o \in outward_queue' : \/ o \in outward_queue
                                   \/ \E pc \in players : o.connection_id = pc.connection_id
  BY DEF DrainDone, Update, Deliver, TickDone
<1>2. \A d : Quiet(d) => Quiet(d)'
  BY <1>1 DEF Quiet
<1>3. /\ Uws' = Uws
      /\ LoopLeaves'
  <2>1. CASE UNCHANGED game_loop_queue
    BY <2>1, LoopFrame DEF WorldInv, LoopLeaves, EnterQueued, Uws, Loop
  <2>2. ASSUME NEW o \in outward_queue, Deliver(o), o.connection_id \notin Connected
        PROVE  Uws' = Uws /\ LoopLeaves'
    <3> DEFINE c == o.connection_id
    <3>1. /\ PlayerLeave(c) \in QueueMessages
          /\ PlayerLeave(c).type = "player_leave" /\ PlayerLeave(c).connection_id = c
          /\ c \in ConnectionIds
      BY DEF PlayerLeave, QueueMessages, LeaveMessages, TypeOK, LoopTypeOK, OutwardMessages
    <3>2. Gone(c)
      BY <2>2, <3>1 DEF Gone, WorldInv, IdsUsed, Quiet
    <3>3. ~EnterQueued(c)
      BY <2>2 DEF EnterQueued, WorldInv, EnterFirst, Quiet, Uws
    <3>4. /\ Uws' = Uws
          /\ DOMAIN Loop' = 1 .. Len(Loop) + 1
          /\ \A i \in 1 .. Len(Loop) : Loop'[i] = Loop[i]
          /\ Loop'[Len(Loop) + 1] = PlayerLeave(c)
      BY <2>2, <3>1, LoopAppended DEF Deliver
    <3>5. \A d : EnterQueued(d)' <=> EnterQueued(d)
      BY <3>4 DEF EnterQueued, Uws
    <3> QED
      BY <3>1, <3>2, <3>3, <3>4, <3>5, StreamsTyped, LoopFrame DEF WorldInv, LoopLeaves
  <2> QED
    BY <2>1, <2>2 DEF DrainDone, Update, Deliver, TickDone
<1>4. IdsUsed' /\ FreshSilent' /\ EnterFirst' /\ StreamOrder' /\ UwsLeaves' /\ OneCharacterEach'
  BY <1>1, <1>2, <1>3, LoopFrame
  DEF WorldInv, IdsUsed, FreshSilent, EnterFirst, StreamOrder, UwsLeaves, OneCharacterEach,
      InStream, Quiet
<1>5. NoGhosts'
  BY <1>1, <1>3, LoopFrame DEF WorldInv, NoGhosts, Queued, Uws
<1> QED
  BY <1>3, <1>4, <1>5 DEF WorldInv

\* Every step of either thread keeps the invariant.
LEMMA WorldStep == TypeOK /\ WorldInv /\ [Next]_vars => WorldInv'
<1> SUFFICES ASSUME TypeOK, WorldInv, [Next]_vars PROVE WorldInv'
  OBVIOUS
<1>1. CASE UwsNext /\ UNCHANGED loopVars
  BY <1>1, UwsWorldStep
<1>2. CASE LoopNext
  <2>1. ASSUME NEW p \in Producers, HandlePlayerLeave(p) PROVE WorldInv'
    BY <1>2, <2>1, UwsLeaveStep, LoopLeaveStep DEF LoopNext, Producers
  <2> QED
    BY <1>2, <2>1, EnterHandledStep, MoveHandledStep, TickStep DEF LoopNext
<1>3. CASE UNCHANGED vars
  BY <1>3, SessionOnly DEF vars, uwsVars, sharedVars, loopVars, IsPlaying, Connected
<1> QED
  BY <1>1, <1>2, <1>3 DEF Next

\* The invariant holds for good.
LEMMA WorldInvariant == Spec => [](TypeOK /\ WorldInv)
<1> QED
  BY TypeInit, TypeStep, WorldInit, WorldStep, PTL DEF Spec
-----------------------------------------------------------------------------
\* Whoever is in the world, or waits to be, after the connection went has a leave
\* message of on_close behind.
THEOREM NobodyLeftBehind == Spec => []NoGhosts
<1>1. WorldInv => NoGhosts
  BY DEF WorldInv
<1> QED
  BY <1>1, WorldInvariant, PTL

\* No name is in the world twice, and no connection is.
THEOREM NobodyTwice == Spec => []OneCharacterEach
<1>1. WorldInv => OneCharacterEach
  BY DEF WorldInv
<1> QED
  BY <1>1, WorldInvariant, PTL

\* Every leave message, also the game loop's own in the stream that has no order
\* with the other, is about a connection that went, and comes after its enter.
THEOREM LeavesStale == Spec => []LeavesAreStale
<1>1. TypeOK /\ WorldInv => LeavesAreStale
  <2> SUFFICES ASSUME TypeOK, WorldInv PROVE LeavesAreStale
    OBVIOUS
  <2>1. ASSUME NEW i \in DOMAIN Loop, NEW j \in DOMAIN Uws,
               Uws[j].type = "player_enter"
        PROVE  Uws[j].connection_id # Loop[i].connection_id
    BY <2>1 DEF WorldInv, LoopLeaves, EnterQueued, Uws
  <2>2. ASSUME NEW i \in DOMAIN Uws, NEW j \in DOMAIN Uws, Uws[i].type = "player_leave",
               Uws[j].type = "player_enter", Uws[j].connection_id = Uws[i].connection_id
        PROVE  j < i
    BY <2>2, StreamsTyped DEF WorldInv, StreamOrder
  <2>3. \A i \in DOMAIN Loop : Leaving(Loop[i].connection_id)
    BY DEF WorldInv, LoopLeaves, Leaving
  <2> QED
    BY <2>1, <2>2, <2>3 DEF LeavesAreStale, WorldInv, UwsLeaves, Producers, Uws, Loop
<1> QED
  BY <1>1, WorldInvariant, PTL

\* The player of an open connection is never taken out of the world: every leave
\* message that is handled is stale.
THEOREM NobodyEvicted == Spec => NoEviction
<1> DEFINE Stays == \A pc \in players : ~Leaving(pc.connection_id) =>
                      \E pc2 \in players' : /\ pc2.name = pc.name
                                            /\ pc2.connection_id = pc.connection_id
<1>1. TypeOK /\ WorldInv /\ [Next]_vars => [Stays]_vars
  <2> SUFFICES ASSUME TypeOK, WorldInv, Next PROVE Stays
    OBVIOUS
  <2>1. CASE players \subseteq players'
    BY <2>1
  <2>2. ASSUME NEW p \in Producers, HandlePlayerLeave(p) PROVE Stays
    <3>1. Leaving(Head(game_loop_queue[p]).connection_id)
      <4>1. CASE p = "uws"
        <5>1. 1 \in DOMAIN Uws /\ Head(game_loop_queue[p]) = Uws[1]
          BY <2>2, <4>1, UwsTaken, StreamsTyped DEF HandlePlayerLeave, Uws
        <5> QED
          BY <2>2, <5>1 DEF HandlePlayerLeave, WorldInv, UwsLeaves
      <4>2. CASE p = "loop"
        <5>1. 1 \in DOMAIN Loop /\ Head(game_loop_queue[p]) = Loop[1]
          BY <2>2, <4>2, LoopTaken, StreamsTyped DEF HandlePlayerLeave, Loop
        <5> QED
          BY <5>1 DEF WorldInv, LoopLeaves, Leaving
      <4> QED
        BY <4>1, <4>2 DEF Producers
    <3> QED
      BY <2>2, <3>1 DEF HandlePlayerLeave
  <2>3. ASSUME NEW p \in Producers, HandlePlayerMove(p) PROVE Stays
    BY <2>3, MovedPlayers
  <2> QED
    BY <2>1, <2>2, <2>3
    DEF Next, LoopNext, loopVars, HandlePlayerEnter, RefuseEnter, AdmitPlayer, DrainDone, Update,
        Deliver, TickDone
<1> QED
  BY <1>1, WorldInvariant, PTL DEF Spec, NoEviction
-----------------------------------------------------------------------------
(* The player in the world is the character of the slot. *)

PlayedName(c) ==
  characters[user_connections[c].user_id][user_connections[c].playing_character_slot].name

NamesMatch ==
  \A c \in Connected : IsPlaying(c) =>
    /\ \A pc \in players : pc.connection_id = c => pc.name = PlayedName(c)
    /\ \A i \in DOMAIN Uws :
         Uws[i].type = "player_enter" /\ Uws[i].connection_id = c
           => Uws[i].character_name = PlayedName(c)

\* A step of the websocket thread neither renames nor deletes what is played.
LEMMA PlayedNameKept ==
  ASSUME TypeOK, SlotInv, UwsNext, NEW c \in Connected, IsPlaying(c), c \in Connected'
  PROVE  IsPlaying(c)' /\ PlayedName(c)' = PlayedName(c)
<1> USE DEF sharedVars, dbVars
<1> DEFINE u == user_connections[c].user_id
           s == user_connections[c].playing_character_slot
<1>0. /\ user_connections \in [Connected -> Session]
      /\ u \in Users /\ s \in Slots /\ characters[u][s] # NoRow
      /\ user_connections[c].playing_character_slot # Nobody
      /\ characters \in Rows
  BY DEF TypeOK, UwsTypeOK, SharedTypeOK, SlotInv, SessionsSound, PlayedRows, Session, IsPlaying
<1> HIDE DEF u, s
<1> SUFFICES user_connections'[c].user_id = u /\ user_connections'[c].playing_character_slot = s
             /\ characters'[u][s] = characters[u][s]
  BY <1>0 DEF IsPlaying, PlayedName, u, s
<1>1. CASE OnOpen \/ OnCloseErase
  BY <1>0, <1>1 DEF OnOpen, OnCloseErase, Restrict, Connected, u, s, TypeOK, UwsTypeOK, SharedTypeOK
<1>2. ASSUME NEW d \in Connected,
             OnClose(d) \/ \E t \in MoveTargets : Move(d, t)
      PROVE  UNCHANGED <<user_connections, characters>>
  BY <1>2 DEF OnClose, Move
<1>3. ASSUME NEW d \in Connected, NEW v \in Users, RefuseBanned(d, v)
      PROVE  /\ user_connections'[c].user_id = u /\ user_connections'[c].playing_character_slot = s
             /\ UNCHANGED characters
  BY <1>0, <1>3 DEF RefuseBanned, Session, u, s
<1>4. ASSUME NEW d \in Connected, NEW v \in Users, Login(d, v) \/ Register(d, v)
      PROVE  /\ user_connections'[c].user_id = u /\ user_connections'[c].playing_character_slot = s
             /\ UNCHANGED characters
  <2>1. d # c
    BY <1>0, <1>4, StateAssumption DEF Login, Register, NotLoggedIn, u
  <2> QED
    BY <1>0, <1>4, <2>1 DEF Login, Register, u, s
<1>5. ASSUME NEW d \in Connected, NEW r \in Slots, PlayCharacter(d, r) \/ PlayCharacterFails(d, r)
      PROVE  /\ user_connections'[c].user_id = u /\ user_connections'[c].playing_character_slot = s
             /\ UNCHANGED characters
  <2>1. d # c
    BY <1>0, <1>5 DEF PlayCharacter, PlayCharacterFails, MayPlay, NotPlaying
  <2> QED
    BY <1>0, <1>5, <2>1 DEF PlayCharacter, PlayCharacterFails, TakeSlot, u, s
<1>6. ASSUME NEW d \in Connected, NEW r \in Slots,
             \/ DeleteCharacter(d, r)
             \/ \E name \in Names, served \in BOOLEAN : CreateCharacter(d, r, name, served)
      PROVE  UNCHANGED user_connections /\ characters'[u][s] = characters[u][s]
  <2> DEFINE v == user_connections[d].user_id
  <2>1. v # u \/ r # s
    BY <1>0, <1>6 DEF DeleteCharacter, CreateCharacter, Plays, u, s
  <2>2. UNCHANGED user_connections
    BY <1>6 DEF DeleteCharacter, CreateCharacter
  <2>3. v \in Users /\ \E x : characters' = [characters EXCEPT ![v][r] = x]
    BY <1>0, <1>6 DEF DeleteCharacter, CreateCharacter, NotPlaying, Session
  <2> QED
    BY <1>0, <2>1, <2>2, <2>3 DEF Rows
<1> QED
  BY <1>0, <1>1, <1>2, <1>3, <1>4, <1>5, <1>6 DEF UwsNext, u, s

\* Every step keeps the names of who plays, of the queued enters and of the
\* world in agreement.
LEMMA NamesStep == TypeOK /\ SlotInv /\ WorldInv /\ NamesMatch /\ [Next]_vars => NamesMatch'
<1> SUFFICES ASSUME TypeOK, SlotInv, WorldInv, NamesMatch, [Next]_vars,
                    NEW c \in Connected', IsPlaying(c)'
             PROVE  /\ \A pc \in players' : pc.connection_id = c => pc.name = PlayedName(c)'
                    /\ \A i \in DOMAIN Uws' :
                         Uws'[i].type = "player_enter" /\ Uws'[i].connection_id = c
                           => Uws'[i].character_name = PlayedName(c)'
  BY DEF NamesMatch
<1> USE DEF sharedVars
<1>1. CASE UwsNext /\ UNCHANGED loopVars
  <2>0. players' = players /\ outward_queue' = outward_queue
    BY <1>1 DEF loopVars
  <2>1. \A i \in DOMAIN Uws' :
          \/ i \in DOMAIN Uws /\ Uws'[i] = Uws[i]
          \/ Uws'[i].type # "player_enter"
          \/ \E d \in Connected, s \in Slots : PlayCharacter(d, s)
    <3>1. CASE game_loop_queue' = game_loop_queue
      BY <3>1 DEF Uws
    <3>2. ASSUME NEW d \in Connected, OnClose(d), Enqueue("uws", PlayerLeave(d))
          PROVE  \A i \in DOMAIN Uws' : \/ i \in DOMAIN Uws /\ Uws'[i] = Uws[i]
                                        \/ Uws'[i].type # "player_enter"
      <4>1. PlayerLeave(d) \in QueueMessages /\ PlayerLeave(d).type = "player_leave"
        BY ConnectedIds
        DEF TypeOK, UwsTypeOK, PlayerLeave, QueueMessages, LeaveMessages
      <4> QED
        BY <3>2, <4>1, UwsAppended, StreamsTyped
    <3>3. ASSUME NEW d \in Connected, NEW t \in MoveTargets, Move(d, t)
          PROVE  \A i \in DOMAIN Uws' : \/ i \in DOMAIN Uws /\ Uws'[i] = Uws[i]
                                        \/ Uws'[i].type # "player_enter"
      <4>1. PlayerMove(d, t) \in QueueMessages /\ PlayerMove(d, t).type = "player_move"
        BY ConnectedIds, UwsAssumption
        DEF TypeOK, UwsTypeOK, PlayerMove, QueueMessages, MoveMessages
      <4> QED
        BY <3>3, <4>1, UwsAppended, StreamsTyped DEF Move
    <3> QED
      BY <1>1, <3>1, <3>2, <3>3
      DEF UwsNext, OnOpen, OnCloseErase, OnClose, RefuseBanned, Login, Register,
          PlayCharacterFails, DeleteCharacter, CreateCharacter
  <2>2. CASE c \in Connected /\ IsPlaying(c)
    <3>1. PlayedName(c)' = PlayedName(c)
      BY <1>1, <2>2, PlayedNameKept
    <3>2. ASSUME NEW d \in Connected, NEW s \in Slots, PlayCharacter(d, s), NEW i \in DOMAIN Uws',
                 Uws'[i].connection_id = c
          PROVE  i \in DOMAIN Uws /\ Uws'[i] = Uws[i]
      <4>1. d # c
        BY <2>2, <3>2 DEF PlayCharacter, MayPlay, NotPlaying, IsPlaying
      <4> DEFINE m == PlayerEnter(d, characters[user_connections[d].user_id][s])
      <4>2. characters[user_connections[d].user_id][s] \in Row
        BY <3>2
        DEF PlayCharacter, MayPlay, NotPlaying, Rows, Session, TypeOK, UwsTypeOK, SharedTypeOK
      <4>3. m \in QueueMessages /\ m.connection_id = d
        BY <4>2, ConnectedIds DEF PlayerEnter, QueueMessages, EnterMessages, Row, TypeOK, UwsTypeOK
      <4> QED
        BY <3>2, <4>1, <4>3, UwsAppended, StreamsTyped DEF PlayCharacter
    <3> QED
      BY <2>0, <2>1, <2>2, <3>1, <3>2 DEF NamesMatch
  <2>3. CASE ~(c \in Connected /\ IsPlaying(c))
    <3>0. user_connections \in [Connected -> Session]
      BY DEF TypeOK, UwsTypeOK, SharedTypeOK
    <3>1. PICK s \in Slots : PlayCharacter(c, s) \/ PlayCharacterFails(c, s)
      <4>1. CASE OnOpen \/ OnCloseErase
        BY <2>3, <4>1 DEF OnOpen, OnCloseErase, Restrict, IsPlaying, Connected, NewSession
      <4>2. ASSUME NEW d \in Connected, NEW u \in Users, RefuseBanned(d, u) \/ Login(d, u) \/ Register(d, u)
            PROVE  FALSE
        <5>1. Connected' = Connected
          BY <3>0, <4>2, SessionUpdate DEF RefuseBanned, Login, Register
        <5> QED
          BY <2>3, <3>0, <4>2, <5>1 DEF RefuseBanned, Login, Register, IsPlaying, Session
      <4>3. ASSUME NEW d \in Connected, NEW s \in Slots, PlayCharacter(d, s) \/ PlayCharacterFails(d, s)
            PROVE  d = c
        <5>1. Connected' = Connected
          BY <3>0, <4>3, SessionUpdate DEF PlayCharacter, PlayCharacterFails, TakeSlot
        <5> QED
          BY <2>3, <3>0, <4>3, <5>1 DEF PlayCharacter, PlayCharacterFails, TakeSlot, IsPlaying, Session
      <4>4. user_connections' # user_connections
        BY <2>3 DEF IsPlaying, Connected
      <4> QED
        BY <1>1, <4>1, <4>2, <4>3, <4>4
        DEF UwsNext, OnClose, Move, DeleteCharacter, CreateCharacter
    <3>2. c \in Connected /\ Quiet(c) /\ ~InStream(Uws, c)
      BY <1>1, <2>3, <3>1 DEF PlayCharacter, PlayCharacterFails, MayPlay, NotPlaying, Dispatched,
                    WorldInv, FreshSilent
    <3>3. \A pc \in players' : pc.connection_id # c
      BY <2>0, <3>2 DEF Quiet
    <3>4. CASE PlayCharacterFails(c, s)
      BY <3>2, <3>3, <3>4 DEF PlayCharacterFails, InStream, Uws
    <3>5. CASE PlayCharacter(c, s)
      <4> DEFINE row == characters[user_connections[c].user_id][s]
                 m == PlayerEnter(c, row)
      <4>1. row \in Row
        BY <3>2, <3>5 DEF PlayCharacter, MayPlay, NotPlaying, Rows, Session, TypeOK, UwsTypeOK, SharedTypeOK
      <4>2. m \in QueueMessages /\ m.character_name = row.name
        BY <3>2, <4>1, ConnectedIds
        DEF PlayerEnter, QueueMessages, EnterMessages, Row, TypeOK, UwsTypeOK
      <4>3. \A i \in DOMAIN Uws' : Uws'[i].connection_id = c => Uws'[i] = m
        BY <3>2, <3>5, <4>2, UwsAppended, StreamsTyped DEF PlayCharacter, InStream
      <4>4. PlayedName(c)' = row.name
        BY <3>0, <3>2, <3>5 DEF PlayCharacter, TakeSlot, PlayedName, dbVars, Session
      <4> QED
        BY <3>3, <4>2, <4>3, <4>4
    <3> QED
      BY <3>1, <3>4, <3>5
  <2> QED
    BY <2>2, <2>3
<1>2. CASE LoopNext /\ UNCHANGED <<dbVars, asked>>
  <2>1. /\ c \in Connected /\ IsPlaying(c)
        /\ PlayedName(c)' = PlayedName(c)
    BY <1>2, LoopFrame DEF LoopNext, PlayedName, dbVars
  <2>2. \A i \in DOMAIN Uws' : \E j \in DOMAIN Uws : Uws'[i] = Uws[j]
    <3>1. ASSUME NEW p \in Producers, Dequeue(p)
          PROVE  \A i \in DOMAIN Uws' : \E j \in DOMAIN Uws : Uws'[i] = Uws[j]
      <4>1. CASE p = "uws"
        <5>1. \A i \in DOMAIN Uws' : i + 1 \in DOMAIN Uws /\ Uws'[i] = Uws[i + 1]
          BY <3>1, <4>1, UwsTaken, StreamsTyped
        <5> QED
          BY <5>1
      <4>2. CASE p = "loop"
        BY <3>1, <4>2, LoopTaken
      <4> QED
        BY <4>1, <4>2 DEF Producers
    <3>2. ASSUME NEW o \in outward_queue, Deliver(o)
          PROVE  Uws' = Uws
      BY <3>2 DEF Deliver, Enqueue, Uws, TypeOK, UwsTypeOK, SharedTypeOK, Producers
    <3> QED
      BY <1>2, <3>1, <3>2
      DEF LoopNext, HandlePlayerEnter, HandlePlayerLeave, HandlePlayerMove, DrainDone, Update, TickDone, Uws
  <2>3. \A pc \in players' :
          \/ \E old \in players : pc.name = old.name /\ pc.connection_id = old.connection_id
          \/ \E i \in DOMAIN Uws : /\ Uws[i].type = "player_enter"
                                   /\ pc.name = Uws[i].character_name
                                   /\ pc.connection_id = Uws[i].connection_id
    <3>1. ASSUME NEW p \in Producers, HandlePlayerEnter(p), NEW pc \in players'
          PROVE  \/ pc \in players
                 \/ \E i \in DOMAIN Uws : /\ Uws[i].type = "player_enter"
                                          /\ pc.name = Uws[i].character_name
                                          /\ pc.connection_id = Uws[i].connection_id
      <4>1. p = "uws"
        BY <3>1, LoopHead DEF HandlePlayerEnter, Loop, Producers
      <4>2. 1 \in DOMAIN Uws /\ Head(Uws) = Uws[1] /\ Uws[1].type = "player_enter"
        BY <3>1, <4>1, UwsTaken, StreamsTyped DEF HandlePlayerEnter, Uws
      <4>3. pc \in players \/ pc = NewPc(Uws[1])
        BY <3>1, <4>1, <4>2 DEF HandlePlayerEnter, RefuseEnter, AdmitPlayer, Uws
      <4> QED
        BY <4>2, <4>3 DEF NewPc
    <3>2. ASSUME NEW p \in Producers, HandlePlayerLeave(p) PROVE players' \subseteq players
      BY <3>2 DEF HandlePlayerLeave
    <3> QED
      BY <1>2, <3>1, <3>2, MovedPlayers DEF LoopNext, DrainDone, Update, Deliver, TickDone
  <2> QED
    BY <2>1, <2>2, <2>3 DEF NamesMatch
<1>3. CASE UNCHANGED vars
  BY <1>3 DEF vars, uwsVars, dbVars, loopVars, NamesMatch, IsPlaying, Connected, PlayedName, Uws
<1> QED
  BY <1>1, <1>2, <1>3 DEF Next

\* A character that is played keeps its row, and the player in the world is the
\* character of the slot its connection plays.
THEOREM PlayedRowsKept == Spec => []PlayedRowKept
<1>1. Init => NamesMatch
  BY DEF Init, UwsInit, SharedInit, NamesMatch, Connected
<1>2. TypeOK /\ SlotInv /\ WorldInv /\ NamesMatch => PlayedRowKept
  BY DEF TypeOK, UwsTypeOK, SharedTypeOK, SlotInv, SessionsSound, PlayedRows, WorldInv, FreshSilent,
         Quiet, NamesMatch, PlayedName, PlayedRowKept
<1> QED
  BY <1>1, <1>2, NamesStep, SlotInvariant, WorldInvariant, PTL DEF Spec
-----------------------------------------------------------------------------
(* Where the moves lead. *)

\* The message says where c is to be.
Places(m, c) == /\ m.connection_id = c
                /\ \/ m.type = "player_enter"
                   \/ m.type = "player_move" /\ m.loc \in Walkable

\* The last such message in the stream says where the client asked to be.
LastAsked(c) ==
  \A i \in DOMAIN Uws :
    /\ Places(Uws[i], c)
    /\ \A j \in DOMAIN Uws : Places(Uws[j], c) => j <= i
    => asked[c] = Uws[i].loc

\* Without one the player is there.
Arrived(c) ==
  (\A i \in DOMAIN Uws : ~Places(Uws[i], c)) =>
    \A pc \in players : pc.connection_id = c => pc.loc = asked[c]

MovesLead(c) == LastAsked(c) /\ Arrived(c)

MovesInv == \A c \in Connected : MovesLead(c)

\* Nothing changes for c while its players, the stream and its wish stay.
LEMMA MovesUntouched ==
  ASSUME NEW c, MovesLead(c), asked'[c] = asked[c], Uws' = Uws,
         \A pc \in players' : pc.connection_id = c => pc \in players
  PROVE  MovesLead(c)'
BY DEF MovesLead, LastAsked, Arrived, Places

\* A message that places c is queued along with the client's wish.
LEMMA PlaceQueued ==
  ASSUME TypeOK, NEW m \in QueueMessages, Enqueue("uws", m), NEW c, Places(m, c),
         asked'[c] = m.loc
  PROVE  MovesLead(c)'
<1>1. /\ Len(Uws) \in Nat /\ DOMAIN Uws' = 1 .. Len(Uws) + 1
      /\ Uws'[Len(Uws) + 1] = m
  BY UwsAppended, StreamsTyped
<1>2. Len(Uws) + 1 \in DOMAIN Uws' /\ \A i \in DOMAIN Uws' : i <= Len(Uws) + 1
  BY <1>1
<1>3. Arrived(c)'
  BY <1>1, <1>2 DEF Arrived, Places
<1>4. LastAsked(c)'
  <2> SUFFICES ASSUME NEW i \in DOMAIN Uws',
                      \A j \in DOMAIN Uws' : Places(Uws'[j], c) => j <= i
               PROVE  asked'[c] = Uws'[i].loc
    BY DEF LastAsked, Places
  <2>1. Len(Uws) + 1 <= i
    BY <1>1, <1>2
  <2>2. i = Len(Uws) + 1
    BY <1>1, <1>2, <2>1
  <2> QED
    BY <1>1, <2>2
<1> QED
  BY <1>3, <1>4 DEF MovesLead

\* Any other message that is queued leaves c where it is.
LEMMA OtherQueued ==
  ASSUME TypeOK, NEW m \in QueueMessages, Enqueue("uws", m), NEW c, MovesLead(c),
         ~Places(m, c), asked'[c] = asked[c], players' = players
  PROVE  MovesLead(c)'
<1>1. /\ Len(Uws) \in Nat /\ DOMAIN Uws = 1 .. Len(Uws)
      /\ DOMAIN Uws' = 1 .. Len(Uws) + 1
      /\ \A i \in 1 .. Len(Uws) : Uws'[i] = Uws[i]
      /\ Uws'[Len(Uws) + 1] = m
  BY UwsAppended, StreamsTyped
<1>2. \A i \in DOMAIN Uws : i \in DOMAIN Uws' /\ Uws'[i] = Uws[i]
  BY <1>1
<1>3. \A i \in DOMAIN Uws' : Places(Uws'[i], c) => i \in DOMAIN Uws /\ Uws'[i] = Uws[i]
  BY <1>1
<1>4. Arrived(c)'
  BY <1>2 DEF Arrived, Places, MovesLead
<1>5. LastAsked(c)'
  <2> SUFFICES ASSUME NEW i \in DOMAIN Uws', Places(Uws'[i], c),
                      \A j \in DOMAIN Uws' : Places(Uws'[j], c) => j <= i
               PROVE  asked'[c] = Uws'[i].loc
    BY DEF LastAsked, Places
  <2>1. i \in DOMAIN Uws /\ Uws'[i] = Uws[i] /\ Places(Uws[i], c)
    BY <1>3
  <2>2. \A j \in DOMAIN Uws : Places(Uws[j], c) => j <= i
    BY <1>2
  <2> QED
    BY <2>1, <2>2 DEF MovesLead, LastAsked
<1> QED
  BY <1>4, <1>5 DEF MovesLead

\* The oldest message is handled: c is where the message says, or it says nothing of c.
LEMMA PlaceTaken ==
  ASSUME TypeOK, Dequeue("uws"), NEW c, MovesLead(c), asked'[c] = asked[c],
         \A pc \in players' : pc.connection_id = c =>
           IF Places(Uws[1], c) THEN pc.loc = Uws[1].loc ELSE pc \in players
  PROVE  MovesLead(c)'
<1>1. /\ Len(Uws) \in Nat \ {0} /\ DOMAIN Uws = 1 .. Len(Uws)
      /\ DOMAIN Uws' = 1 .. Len(Uws) - 1
      /\ \A i \in 1 .. Len(Uws) - 1 : Uws'[i] = Uws[i + 1]
  BY UwsTaken, StreamsTyped
<1>2. \A i \in DOMAIN Uws : i = 1 \/ (i - 1 \in DOMAIN Uws' /\ Uws'[i - 1] = Uws[i])
  BY <1>1
<1>3. /\ 1 \in DOMAIN Uws
      /\ \A i \in DOMAIN Uws' : i + 1 \in DOMAIN Uws /\ Uws'[i] = Uws[i + 1] /\ 1 <= i + 1
  BY <1>1
<1>4. LastAsked(c)'
  <2> SUFFICES ASSUME NEW i \in DOMAIN Uws', Places(Uws'[i], c),
                      \A j \in DOMAIN Uws' : Places(Uws'[j], c) => j <= i
               PROVE  asked'[c] = Uws'[i].loc
    BY DEF LastAsked, Places
  <2>1. \A j \in DOMAIN Uws : Places(Uws[j], c) => j = 1 \/ j - 1 <= i
    BY <1>2
  <2>2. \A j \in DOMAIN Uws : Places(Uws[j], c) => j <= i + 1
    BY <1>1, <1>3, <2>1
  <2> QED
    BY <1>3, <2>2 DEF MovesLead, LastAsked
<1>5. Arrived(c)'
  <2> SUFFICES ASSUME \A i \in DOMAIN Uws' : ~Places(Uws'[i], c),
                      NEW pc \in players', pc.connection_id = c
               PROVE  pc.loc = asked'[c]
    BY DEF Arrived, Places
  <2>1. \A i \in DOMAIN Uws : Places(Uws[i], c) => i = 1
    BY <1>2
  <2>2. CASE Places(Uws[1], c)
    <3>1. asked[c] = Uws[1].loc
      BY <1>1, <1>3, <2>1, <2>2 DEF MovesLead, LastAsked
    <3> QED
      BY <2>2, <3>1
  <2>3. CASE ~Places(Uws[1], c)
    BY <2>1, <2>3 DEF MovesLead, Arrived
  <2> QED
    BY <2>2, <2>3
<1> QED
  BY <1>4, <1>5 DEF MovesLead

\* Every step of the websocket thread keeps what the moves lead to.
LEMMA UwsMovesStep ==
  ASSUME TypeOK, WorldInv, MovesInv, UwsNext, UNCHANGED loopVars
  PROVE  MovesInv'
<1> SUFFICES ASSUME NEW c \in Connected' PROVE MovesLead(c)'
  BY DEF MovesInv
<1>0. players' = players /\ user_connections \in [Connected -> Session]
  BY DEF loopVars, TypeOK, UwsTypeOK, SharedTypeOK
<1>1. CASE OnOpen
  <2>1. game_loop_queue' = game_loop_queue /\ asked' = asked
    BY <1>1 DEF OnOpen
  <2>2. CASE c \in Connected
    BY <1>0, <2>1, <2>2, MovesUntouched DEF MovesInv, Uws
  <2>3. CASE c \notin Connected
    <3>1. c = connection_id_counter /\ c \in ConnectionIds /\ ~(c < connection_id_counter)
      BY <1>1, <2>3, StateAssumption
      DEF OnOpen, Connected, ConnectionIds, TypeOK, UwsTypeOK, SharedTypeOK
    <3>2. ~InStream(Uws, c) /\ Quiet(c)
      BY <3>1 DEF WorldInv, IdsUsed
    <3> QED
      BY <1>0, <2>1, <3>2 DEF InStream, Quiet, MovesLead, LastAsked, Arrived, Places, Uws
  <2> QED
    BY <2>2, <2>3
<1>2. CASE OnCloseErase
  <2>1. c \in Connected /\ c # erasing /\ game_loop_queue' = game_loop_queue
    BY <1>2 DEF OnCloseErase, Restrict, Connected
  <2>2. asked'[c] = asked[c]
    BY <1>2, <2>1, ConnectedIds DEF OnCloseErase, TypeOK, UwsTypeOK
  <2> QED
    BY <1>0, <2>1, <2>2, MovesUntouched DEF MovesInv, Uws
<1>3. ASSUME NEW d \in Connected, OnClose(d) PROVE MovesLead(c)'
  <2>1. asked' = asked /\ c \in Connected
    BY <1>3 DEF OnClose, Connected
  <2>2. CASE UNCHANGED game_loop_queue
    BY <1>0, <2>1, <2>2, MovesUntouched DEF MovesInv, Uws
  <2>3. CASE Enqueue("uws", PlayerLeave(d))
    <3>1. PlayerLeave(d) \in QueueMessages /\ PlayerLeave(d).type = "player_leave"
      BY ConnectedIds DEF TypeOK, UwsTypeOK, PlayerLeave, QueueMessages, LeaveMessages
    <3>2. ~Places(PlayerLeave(d), c)
      BY <3>1 DEF Places
    <3> QED
      BY <1>0, <2>1, <2>3, <3>1, <3>2, OtherQueued DEF MovesInv
  <2> QED
    BY <1>3, <2>2, <2>3 DEF OnClose
<1>4. ASSUME NEW d \in Connected, NEW s \in Slots, PlayCharacter(d, s) PROVE MovesLead(c)'
  <2> DEFINE row == characters[user_connections[d].user_id][s]
             m == PlayerEnter(d, row)
  <2>1. row \in Row
    BY <1>4 DEF PlayCharacter, MayPlay, NotPlaying, Rows, Session, TypeOK, UwsTypeOK, SharedTypeOK
  <2>2. m \in QueueMessages /\ m.connection_id = d /\ m.type = "player_enter" /\ m.loc = row.loc
    BY <2>1, ConnectedIds DEF PlayerEnter, QueueMessages, EnterMessages, Row, TypeOK, UwsTypeOK
  <2>3. Enqueue("uws", m) /\ asked' = [asked EXCEPT ![d] = row.loc] /\ c \in Connected
    BY <1>0, <1>4, SessionUpdate DEF PlayCharacter, TakeSlot
  <2>4. d \in ConnectionIds /\ DOMAIN asked = ConnectionIds
    BY ConnectedIds DEF TypeOK, UwsTypeOK
  <2> HIDE DEF m, row
  <2>5. CASE c = d
    BY <2>2, <2>3, <2>4, <2>5, PlaceQueued DEF Places
  <2>6. CASE c # d
    <3>1. ~Places(m, c) /\ asked'[c] = asked[c]
      BY <2>2, <2>3, <2>6 DEF Places
    <3> QED
      BY <1>0, <2>2, <2>3, <3>1, OtherQueued DEF MovesInv
  <2> QED
    BY <2>5, <2>6
<1>5. ASSUME NEW d \in Connected, NEW t \in MoveTargets, Move(d, t) PROVE MovesLead(c)'
  <2> DEFINE m == PlayerMove(d, t)
  <2>1. m \in QueueMessages /\ m.connection_id = d /\ m.type = "player_move" /\ m.loc = t
    BY ConnectedIds, UwsAssumption
    DEF TypeOK, UwsTypeOK, PlayerMove, QueueMessages, MoveMessages
  <2>2. /\ Enqueue("uws", m) /\ c \in Connected
        /\ asked' = IF t \in Walkable THEN [asked EXCEPT ![d] = t] ELSE asked
    BY <1>5 DEF Move, Connected
  <2>3. d \in ConnectionIds /\ DOMAIN asked = ConnectionIds
    BY ConnectedIds DEF TypeOK, UwsTypeOK
  <2> HIDE DEF m
  <2>4. CASE c = d /\ t \in Walkable
    BY <2>1, <2>2, <2>3, <2>4, PlaceQueued DEF Places
  <2>5. CASE ~(c = d /\ t \in Walkable)
    <3>1. ~Places(m, c) /\ asked'[c] = asked[c]
      BY <2>1, <2>2, <2>5 DEF Places
    <3> QED
      BY <1>0, <2>1, <2>2, <3>1, OtherQueued DEF MovesInv
  <2> QED
    BY <2>4, <2>5
<1>6. ASSUME NEW d \in Connected,
             \/ \E u \in Users : RefuseBanned(d, u) \/ Login(d, u) \/ Register(d, u)
             \/ \E s \in Slots : \/ PlayCharacterFails(d, s) \/ DeleteCharacter(d, s)
                                 \/ \E name \in Names, served \in BOOLEAN :
                                      CreateCharacter(d, s, name, served)
      PROVE  MovesLead(c)'
  <2>1. Connected' = Connected
    <3>1. CASE UNCHANGED user_connections
      BY <3>1 DEF Connected
    <3>2. CASE ~UNCHANGED user_connections
      BY <1>0, <1>6, <3>2, SessionUpdate
      DEF RefuseBanned, Login, Register, PlayCharacterFails, TakeSlot, DeleteCharacter,
          CreateCharacter, sharedVars
    <3> QED
      BY <3>1, <3>2
  <2>2. asked' = asked /\ game_loop_queue' = game_loop_queue
    BY <1>6 DEF RefuseBanned, Login, Register, PlayCharacterFails, DeleteCharacter,
                CreateCharacter, sharedVars
  <2> QED
    BY <1>0, <2>1, <2>2, MovesUntouched DEF MovesInv, Uws
<1> QED
  BY <1>1, <1>2, <1>3, <1>4, <1>5, <1>6 DEF UwsNext

\* Every step of the game loop does.
LEMMA LoopMovesStep ==
  ASSUME TypeOK, WorldInv, MovesInv, LoopNext, UNCHANGED asked
  PROVE  MovesInv'
<1> SUFFICES ASSUME NEW c \in Connected' PROVE MovesLead(c)'
  BY DEF MovesInv
<1>0. c \in Connected /\ MovesLead(c)
  BY LoopFrame DEF LoopNext, MovesInv
<1>1. ASSUME NEW p \in Producers, HandlePlayerEnter(p) PROVE MovesLead(c)'
  <2>1. p = "uws"
    BY <1>1, LoopHead DEF HandlePlayerEnter, Loop, Producers
  <2>2. Dequeue("uws") /\ Head(Uws) = Uws[1] /\ 1 \in DOMAIN Uws
    BY <1>1, <2>1, UwsTaken, StreamsTyped DEF HandlePlayerEnter
  <2> DEFINE m == Uws[1]
  <2>3. m.type = "player_enter" /\ \A pc \in players' : pc \in players \/ pc = NewPc(m)
    BY <1>1, <2>1, <2>2 DEF HandlePlayerEnter, RefuseEnter, AdmitPlayer, Uws
  <2>4. \A pc \in players : pc.connection_id # m.connection_id
    BY <2>2, <2>3 DEF WorldInv, EnterFirst, Quiet
  <2>5. ASSUME NEW pc \in players', pc.connection_id = c
        PROVE  IF Places(m, c) THEN pc.loc = m.loc ELSE pc \in players
    BY <2>3, <2>4, <2>5 DEF Places, NewPc
  <2> QED
    BY <1>0, <2>2, <2>5, PlaceTaken
<1>2. ASSUME NEW p \in Producers, HandlePlayerLeave(p) PROVE MovesLead(c)'
  <2>1. players' \subseteq players
    BY <1>2 DEF HandlePlayerLeave
  <2>2. CASE p = "loop"
    BY <1>0, <1>2, <2>1, <2>2, LoopTaken, MovesUntouched DEF HandlePlayerLeave
  <2>3. CASE p = "uws"
    <3>1. Dequeue("uws") /\ Uws[1].type = "player_leave"
      BY <1>2, <2>3, UwsTaken DEF HandlePlayerLeave, Uws
    <3>2. ~Places(Uws[1], c)
      BY <3>1 DEF Places
    <3> QED
      BY <1>0, <2>1, <3>1, <3>2, PlaceTaken
  <2> QED
    BY <2>2, <2>3 DEF Producers
<1>3. ASSUME NEW p \in Producers, HandlePlayerMove(p) PROVE MovesLead(c)'
  <2>1. p = "uws"
    BY <1>3, LoopHead DEF HandlePlayerMove, Loop, Producers
  <2>2. Dequeue("uws") /\ Head(Uws) = Uws[1]
    BY <1>3, <2>1, UwsTaken DEF HandlePlayerMove
  <2> DEFINE m == Uws[1]
             Moved(pc) == IF pc.connection_id = m.connection_id THEN [pc EXCEPT !.loc = m.loc] ELSE pc
  <2>3. /\ m.type = "player_move"
        /\ players' = IF m.loc \in Walkable THEN {Moved(pc) : pc \in players} ELSE players
    BY <1>3, <2>1, <2>2 DEF HandlePlayerMove, Uws
  <2>4. \A pc \in players : pc.connection_id = m.connection_id =>
          Moved(pc).loc = m.loc /\ Moved(pc).connection_id = pc.connection_id
    BY DEF TypeOK, LoopTypeOK, Pc
  <2>5. \A pc \in players : pc.connection_id # m.connection_id => Moved(pc) = pc
    OBVIOUS
  <2> HIDE DEF m, Moved
  <2>6. ASSUME NEW pc \in players', pc.connection_id = c
        PROVE  IF Places(m, c) THEN pc.loc = m.loc ELSE pc \in players
    <3>1. CASE m.loc \in Walkable
      <4>1. PICK old \in players : pc = Moved(old)
        BY <2>3, <3>1
      <4>2. CASE old.connection_id = m.connection_id
        BY <2>3, <2>4, <2>6, <3>1, <4>1, <4>2 DEF Places
      <4>3. CASE old.connection_id # m.connection_id
        BY <2>5, <2>6, <4>1, <4>3 DEF Places
      <4> QED
        BY <4>2, <4>3
    <3>2. CASE m.loc \notin Walkable
      BY <2>3, <3>2 DEF Places
    <3> QED
      BY <3>1, <3>2
  <2> QED
    BY <1>0, <2>2, <2>6, PlaceTaken DEF m
<1>4. CASE DrainDone \/ Update \/ TickDone \/ \E o \in outward_queue : Deliver(o)
  <2>1. players' = players /\ Uws' = Uws
    BY <1>4 DEF DrainDone, Update, Deliver, TickDone, Enqueue, Uws, TypeOK, UwsTypeOK,
                SharedTypeOK, Producers
  <2> QED
    BY <1>0, <2>1, MovesUntouched
<1> QED
  BY <1>1, <1>2, <1>3, <1>4 DEF LoopNext

\* What the moves lead to holds for good.
LEMMA MovesInvariant == Spec => [](TypeOK /\ WorldInv /\ MovesInv)
<1>1. Init => MovesInv
  BY DEF Init, UwsInit, SharedInit, MovesInv, Connected
<1>2. TypeOK /\ WorldInv /\ MovesInv /\ [Next]_vars => MovesInv'
  <2> SUFFICES ASSUME TypeOK, WorldInv, MovesInv, [Next]_vars PROVE MovesInv'
    OBVIOUS
  <2>1. CASE UwsNext /\ UNCHANGED loopVars
    BY <2>1, UwsMovesStep
  <2>2. CASE LoopNext /\ UNCHANGED <<dbVars, asked>>
    BY <2>2, LoopMovesStep
  <2>3. CASE UNCHANGED vars
    BY <2>3, MovesUntouched DEF vars, uwsVars, sharedVars, loopVars, MovesInv, Connected, Uws
  <2> QED
    BY <2>1, <2>2, <2>3 DEF Next
<1> QED
  BY <1>1, <1>2, WorldInvariant, PTL DEF Spec

\* No accepted move of a player in the world is lost or overtaken.
THEOREM MovesAreKept == Spec => []MovesKept
<1>1. TypeOK /\ WorldInv /\ MovesInv => MovesKept
  <2> SUFFICES ASSUME TypeOK, WorldInv, MovesInv, NEW pc \in players, pc.connection_id \in Connected
               PROVE  LET c == pc.connection_id
                          q == game_loop_queue["uws"]
                          pending == {i \in DOMAIN q : /\ q[i].type = "player_move"
                                                       /\ q[i].connection_id = c
                                                       /\ q[i].loc \in Walkable}
                      IN  /\ pending = {} => asked[c] = pc.loc
                          /\ \A i \in pending :
                               (\A j \in pending : j <= i) => asked[c] = q[i].loc
    BY DEF MovesKept
  <2> DEFINE c == pc.connection_id
             pending == {i \in DOMAIN Uws : /\ Uws[i].type = "player_move"
                                            /\ Uws[i].connection_id = c
                                            /\ Uws[i].loc \in Walkable}
  <2>1. \A i \in DOMAIN Uws : ~(Uws[i].type = "player_enter" /\ Uws[i].connection_id = c)
    BY DEF WorldInv, EnterFirst, Quiet
  <2>2. \A i \in DOMAIN Uws : Places(Uws[i], c) <=> i \in pending
    BY <2>1 DEF Places
  <2>3. MovesLead(c)
    BY DEF MovesInv
  <2> HIDE DEF c
  <2>4. pending = {} => asked[c] = pc.loc
    BY <2>2, <2>3 DEF MovesLead, Arrived, c
  <2>5. \A i \in pending : (\A j \in pending : j <= i) => asked[c] = Uws[i].loc
    BY <2>2, <2>3 DEF MovesLead, LastAsked
  <2> QED
    BY <2>4, <2>5 DEF Uws, c
<1> QED
  BY <1>1, MovesInvariant, PTL
-----------------------------------------------------------------------------
(* Who comes back finds the former player gone. *)

\* No name is played on two connections at a time.
PlayedApart ==
  \A c, d \in Connected :
    IsPlaying(c) /\ IsPlaying(d) /\ PlayedName(c) = PlayedName(d) => c = d

LeaveWithin(a, b, c) == \E j \in a .. b : Uws[j] = PlayerLeave(c)

\* OldPlayerLeavesFirst for the enter at i.
FreeFor(i) ==
  Uws[i].type = "player_enter" =>
    /\ \A pc \in players : pc.name = Uws[i].character_name =>
         LeaveWithin(1, i - 1, pc.connection_id)
    /\ \A k \in 1 .. i - 1 :
         /\ Uws[k].type = "player_enter"
         /\ Uws[k].character_name = Uws[i].character_name
         => LeaveWithin(k + 1, i - 1, Uws[k].connection_id)

\* OldPlayerLeavesFirst says so of each.
LEMMA EachFree == OldPlayerLeavesFirst <=> \A i \in DOMAIN Uws : FreeFor(i)
BY DEF OldPlayerLeavesFirst, FreeFor, LeaveWithin, Uws

\* And of each in the next state.
LEMMA EachFreeNext == OldPlayerLeavesFirst' <=> \A i \in DOMAIN Uws' : FreeFor(i)'
BY DEF OldPlayerLeavesFirst, FreeFor, LeaveWithin, Uws

\* The queue as it was, and nobody new in the world.
LEMMA FreeUntouched ==
  ASSUME OldPlayerLeavesFirst, Uws' = Uws,
         \A pc2 \in players' : \E pc \in players :
           pc2.name = pc.name /\ pc2.connection_id = pc.connection_id
  PROVE  OldPlayerLeavesFirst'
<1> SUFFICES ASSUME NEW i \in DOMAIN Uws PROVE FreeFor(i)'
  BY EachFreeNext
<1>1. FreeFor(i)
  BY EachFree
<1> QED
  BY <1>1 DEF FreeFor, LeaveWithin

\* A message is queued: those before it are as free as they were.
LEMMA FreeAppended ==
  ASSUME TypeOK, OldPlayerLeavesFirst, NEW m \in QueueMessages, Enqueue("uws", m),
         players' = players, NEW last, last = Len(Uws) + 1, FreeFor(last)'
  PROVE  OldPlayerLeavesFirst'
<1>1. /\ Len(Uws) \in Nat /\ DOMAIN Uws = 1 .. Len(Uws)
      /\ DOMAIN Uws' = 1 .. Len(Uws) + 1
      /\ \A i \in 1 .. Len(Uws) : Uws'[i] = Uws[i]
  BY UwsAppended, StreamsTyped
<1>2. ASSUME NEW i \in 1 .. Len(Uws) PROVE FreeFor(i)'
  <2>1. FreeFor(i)
    BY <1>1, EachFree
  <2>2. \A k \in 1 .. i : Uws'[k] = Uws[k]
    BY <1>1
  <2>3. ASSUME NEW a \in Nat \ {0}, NEW c, LeaveWithin(a, i - 1, c)
        PROVE  LeaveWithin(a, i - 1, c)'
    BY <2>2, <2>3 DEF LeaveWithin
  <2> QED
    BY <2>1, <2>2, <2>3 DEF FreeFor
<1> QED
  BY <1>1, <1>2, EachFreeNext

\* The oldest message is taken: a leave that was waited for is still there, unless
\* it is the one taken and its player is out.
LEMMA FreeTaken ==
  ASSUME TypeOK, OldPlayerLeavesFirst, Dequeue("uws"),
         \A pc2 \in players' :
           \/ \E pc \in players : /\ pc2.name = pc.name
                                  /\ pc2.connection_id = pc.connection_id
                                  /\ Uws[1] # PlayerLeave(pc.connection_id)
           \/ /\ Uws[1].type = "player_enter"
              /\ pc2.name = Uws[1].character_name
              /\ pc2.connection_id = Uws[1].connection_id
  PROVE  OldPlayerLeavesFirst'
<1>1. /\ Len(Uws) \in Nat \ {0} /\ DOMAIN Uws = 1 .. Len(Uws)
      /\ DOMAIN Uws' = 1 .. Len(Uws) - 1
      /\ \A i \in 1 .. Len(Uws) - 1 : Uws'[i] = Uws[i + 1]
  BY UwsTaken, StreamsTyped
<1> SUFFICES ASSUME NEW i \in 1 .. Len(Uws) - 1, Uws'[i].type = "player_enter"
             PROVE  FreeFor(i)'
  BY <1>1, EachFreeNext DEF FreeFor
<1>2. i \in Nat /\ i + 1 \in DOMAIN Uws /\ Uws'[i] = Uws[i + 1] /\ FreeFor(i + 1)
  BY <1>1, EachFree
<1>3. ASSUME NEW a \in Nat, NEW c, LeaveWithin(a + 1, i, c), a # 0 \/ Uws[1] # PlayerLeave(c)
      PROVE  \E j \in 1 .. i - 1 : j >= a /\ Uws'[j] = PlayerLeave(c)
  <2>1. PICK j \in a + 1 .. i : Uws[j] = PlayerLeave(c)
    BY <1>3 DEF LeaveWithin
  <2>2. j # 1
    BY <1>2, <1>3, <2>1
  <2>3. j - 1 \in 1 .. i - 1 /\ j - 1 >= a /\ Uws'[j - 1] = Uws[j]
    BY <1>1, <1>2, <2>1, <2>2
  <2> QED
    BY <2>1, <2>3
<1>4. ASSUME NEW pc2 \in players', pc2.name = Uws'[i].character_name
      PROVE  LeaveWithin(1, i - 1, pc2.connection_id)'
  <2>1. ASSUME NEW pc \in players, pc2.name = pc.name, pc2.connection_id = pc.connection_id,
               Uws[1] # PlayerLeave(pc.connection_id)
        PROVE  LeaveWithin(1, i - 1, pc2.connection_id)'
    <3>1. LeaveWithin(0 + 1, i, pc.connection_id)
      BY <1>2, <1>4, <2>1 DEF FreeFor
    <3> QED
      BY <1>3, <2>1, <3>1 DEF LeaveWithin
  <2>2. CASE /\ Uws[1].type = "player_enter"
             /\ pc2.name = Uws[1].character_name
             /\ pc2.connection_id = Uws[1].connection_id
    <3>1. LeaveWithin(1 + 1, i, pc2.connection_id)
      BY <1>2, <1>4, <2>2 DEF FreeFor
    <3> QED
      BY <1>3, <3>1 DEF LeaveWithin
  <2> QED
    BY <2>1, <2>2
<1>5. ASSUME NEW k \in 1 .. i - 1, Uws'[k].type = "player_enter",
             Uws'[k].character_name = Uws'[i].character_name
      PROVE  LeaveWithin(k + 1, i - 1, Uws[k].connection_id)'
  <2>1. PICK a \in Nat : a = k + 1
    BY <1>2
  <2>2. PICK c : c = Uws'[k].connection_id
    OBVIOUS
  <2>3. a \in 1 .. i /\ a # 0 /\ Uws'[k] = Uws[a]
    BY <1>1, <1>2, <2>1
  <2>4. LeaveWithin(a + 1, i, c)
    BY <1>2, <1>5, <2>2, <2>3 DEF FreeFor
  <2>5. PICK j \in 1 .. i - 1 : j >= a /\ Uws'[j] = PlayerLeave(c)
    BY <1>3, <2>3, <2>4
  <2>6. j \in k + 1 .. i - 1
    BY <1>2, <2>1, <2>5
  <2> QED
    BY <2>2, <2>5, <2>6 DEF LeaveWithin
<1> QED
  BY <1>4, <1>5 DEF FreeFor

\* play_character_handler: a player of that name is the one of a former connection,
\* and so is whoever waits to enter under it; both have their leave queued.
LEMMA FreePlay ==
  ASSUME TypeOK, SlotInv, WorldInv, NamesMatch, NamesMatch', PlayedApart', OldPlayerLeavesFirst,
         NEW c \in Connected, NEW s \in Slots, PlayCharacter(c, s), UNCHANGED loopVars, UwsNext
  PROVE  OldPlayerLeavesFirst'
<1> DEFINE m == PlayerEnter(c, characters[user_connections[c].user_id][s])
           n == Len(Uws)
<1>1. m \in QueueMessages /\ m.type = "player_enter" /\ m.connection_id = c
  <2>1. characters[user_connections[c].user_id][s] \in Row
    BY DEF PlayCharacter, MayPlay, NotPlaying, Rows, Session, TypeOK, UwsTypeOK, SharedTypeOK
  <2> QED
    BY <2>1, ConnectedIds DEF PlayerEnter, QueueMessages, EnterMessages, Row, TypeOK, UwsTypeOK
<1>2. Enqueue("uws", m)
  BY DEF PlayCharacter
<1> HIDE DEF m
<1>3. /\ players' = players /\ erasing = NoConnection /\ Connected' = Connected
      /\ ~IsPlaying(c) /\ IsPlaying(c)'
      /\ connection_id_counter \in Nat
  <2>1. user_connections \in [Connected -> Session] /\ connection_id_counter \in Nat /\ s # Nobody
    BY StateAssumption DEF TypeOK, UwsTypeOK, SharedTypeOK, Nobody
  <2>2. Connected' = Connected
    BY <2>1, SessionUpdate DEF PlayCharacter, TakeSlot
  <2> QED
    BY <2>1, <2>2
    DEF PlayCharacter, TakeSlot, MayPlay, NotPlaying, Dispatched, Idle, IsPlaying, Session, loopVars
<1>4. /\ Len(Uws) \in Nat /\ DOMAIN Uws = 1 .. Len(Uws)
      /\ DOMAIN Uws' = 1 .. Len(Uws) + 1
      /\ \A i \in 1 .. Len(Uws) : Uws'[i] = Uws[i]
      /\ Uws'[Len(Uws) + 1] = m
  BY <1>1, <1>2, UwsAppended, StreamsTyped
<1>5. PlayedName(c)' = m.character_name
  <2>1. Len(Uws) + 1 \in DOMAIN Uws'
    BY <1>4
  <2> QED
    BY <1>1, <1>3, <1>4, <2>1 DEF NamesMatch
<1>6. Quiet(c) /\ ~InStream(Uws, c)
  BY <1>3 DEF WorldInv, FreshSilent
<1>7. ASSUME NEW d, d \in Connected, IsPlaying(d)
      PROVE  PlayedName(d) # m.character_name
  <2>1. IsPlaying(d)' /\ PlayedName(d)' = PlayedName(d)
    BY <1>3, <1>7, PlayedNameKept
  <2>2. d # c
    BY <1>3, <1>7
  <2> QED
    BY <1>3, <1>5, <1>7, <2>1, <2>2 DEF PlayedApart
<1>8. ASSUME NEW pc \in players, pc.name = m.character_name
      PROVE  \E j \in 1 .. Len(Uws) : Uws[j] = PlayerLeave(pc.connection_id)
  <2> DEFINE d == pc.connection_id
  <2>1. d \in ConnectionIds /\ d < connection_id_counter
    BY DEF WorldInv, IdsUsed, Quiet, TypeOK, LoopTypeOK, Pc
  <2>2. ~(d \in Connected)
    BY <1>7, <1>8 DEF WorldInv, FreshSilent, NamesMatch, Quiet
  <2>3. Leaving(d)
    BY <2>1, <2>2 DEF Leaving, Gone
  <2> QED
    BY <1>4, <2>3 DEF WorldInv, NoGhosts, Queued, Uws
<1>9. ASSUME NEW k \in 1 .. Len(Uws), Uws[k].type = "player_enter",
             Uws[k].character_name = m.character_name
      PROVE  \E j \in k + 1 .. Len(Uws) : Uws[j] = PlayerLeave(Uws[k].connection_id)
  <2> DEFINE d == Uws[k].connection_id
  <2>1. InStream(Uws, d) /\ k \in DOMAIN Uws
    BY <1>4 DEF InStream
  <2>2. d \in ConnectionIds /\ d < connection_id_counter
    BY <2>1, StreamsTyped, MessageFields DEF WorldInv, IdsUsed
  <2>3. ~(d \in Connected)
    BY <1>7, <1>9, <2>1 DEF WorldInv, FreshSilent, NamesMatch
  <2>4. Leaving(d)
    BY <2>2, <2>3 DEF Leaving, Gone
  <2>5. PICK j \in DOMAIN Uws : j > k /\ Uws[j] = PlayerLeave(d)
    BY <1>9, <2>1, <2>4 DEF WorldInv, NoGhosts, Uws
  <2>6. j \in k + 1 .. Len(Uws)
    BY <1>4, <2>5
  <2> QED
    BY <2>5, <2>6
<1>10. PICK last : last = Len(Uws) + 1
  OBVIOUS
<1>11. FreeFor(last)'
  <2>1. last - 1 = Len(Uws) /\ Uws'[last] = m
    BY <1>4, <1>10
  <2>2. ASSUME NEW pc \in players, pc.name = m.character_name
        PROVE  LeaveWithin(1, last - 1, pc.connection_id)'
    BY <1>4, <1>8, <2>1, <2>2 DEF LeaveWithin
  <2>3. ASSUME NEW k \in 1 .. last - 1, Uws'[k].type = "player_enter",
               Uws'[k].character_name = m.character_name
        PROVE  LeaveWithin(k + 1, last - 1, Uws[k].connection_id)'
    <3>1. Uws'[k] = Uws[k] /\ k \in 1 .. Len(Uws)
      BY <1>4, <2>1
    <3>2. PICK j \in k + 1 .. Len(Uws) : Uws[j] = PlayerLeave(Uws[k].connection_id)
      BY <1>9, <2>3, <3>1
    <3>3. Uws'[j] = Uws[j] /\ j \in k + 1 .. last - 1
      BY <1>4, <2>1, <3>2
    <3> QED
      BY <3>1, <3>2, <3>3 DEF LeaveWithin
  <2> QED
    BY <1>3, <2>1, <2>2, <2>3 DEF FreeFor
<1> QED
  BY <1>1, <1>2, <1>3, <1>10, <1>11, FreeAppended

\* Every step of the websocket thread leaves the way free.
LEMMA UwsFreeStep ==
  ASSUME TypeOK, SlotInv, WorldInv, NamesMatch, NamesMatch', PlayedApart', OldPlayerLeavesFirst,
         UwsNext, UNCHANGED loopVars
  PROVE  OldPlayerLeavesFirst'
<1>1. players' = players
  BY DEF loopVars
<1>2. CASE UNCHANGED game_loop_queue
  BY <1>1, <1>2, FreeUntouched DEF Uws
<1>3. ASSUME NEW m \in QueueMessages, m.type # "player_enter", Enqueue("uws", m)
      PROVE  OldPlayerLeavesFirst'
  <2>1. PICK last : last = Len(Uws) + 1
    OBVIOUS
  <2>2. Uws'[last] = m
    BY <1>3, <2>1, UwsAppended
  <2>3. FreeFor(last)'
    BY <1>3, <2>2 DEF FreeFor
  <2> QED
    BY <1>1, <1>3, <2>1, <2>3, FreeAppended
<1>4. ASSUME NEW c \in Connected, OnClose(c), Enqueue("uws", PlayerLeave(c))
      PROVE  OldPlayerLeavesFirst'
  <2>1. PlayerLeave(c) \in QueueMessages /\ PlayerLeave(c).type = "player_leave"
    BY ConnectedIds DEF TypeOK, UwsTypeOK, PlayerLeave, QueueMessages, LeaveMessages
  <2> QED
    BY <1>3, <1>4, <2>1
<1>5. ASSUME NEW c \in Connected, NEW t \in MoveTargets, Move(c, t)
      PROVE  OldPlayerLeavesFirst'
  <2>1. PlayerMove(c, t) \in QueueMessages /\ PlayerMove(c, t).type = "player_move"
    BY ConnectedIds, UwsAssumption DEF TypeOK, UwsTypeOK, PlayerMove, QueueMessages, MoveMessages
  <2> QED
    BY <1>3, <1>5, <2>1 DEF Move
<1>6. ASSUME NEW c \in Connected, NEW s \in Slots, PlayCharacter(c, s)
      PROVE  OldPlayerLeavesFirst'
  BY <1>6, FreePlay
<1> QED
  BY <1>2, <1>4, <1>5, <1>6
  DEF UwsNext, OnOpen, OnCloseErase, OnClose, RefuseBanned, Login, Register,
      PlayCharacterFails, DeleteCharacter, CreateCharacter, sharedVars

\* Every step of the game loop does.
LEMMA LoopFreeStep ==
  ASSUME TypeOK, WorldInv, OldPlayerLeavesFirst, LoopNext
  PROVE  OldPlayerLeavesFirst'
<1>1. ASSUME NEW p \in Producers, HandlePlayerEnter(p) PROVE OldPlayerLeavesFirst'
  <2>1. p = "uws"
    BY <1>1, LoopHead DEF HandlePlayerEnter, Loop, Producers
  <2>2. Dequeue("uws") /\ Head(Uws) = Uws[1]
    BY <1>1, <2>1, UwsTaken DEF HandlePlayerEnter
  <2> DEFINE m == Uws[1]
  <2>3. m.type = "player_enter" /\ \A pc \in players' : pc \in players \/ pc = NewPc(m)
    BY <1>1, <2>1, <2>2 DEF HandlePlayerEnter, RefuseEnter, AdmitPlayer, Uws
  <2>4. \A c : m # PlayerLeave(c)
    BY <2>3 DEF PlayerLeave
  <2> HIDE DEF m
  <2>5. NewPc(m).name = m.character_name /\ NewPc(m).connection_id = m.connection_id
    BY DEF NewPc
  <2> QED
    BY <2>2, <2>3, <2>4, <2>5, FreeTaken DEF m
<1>2. ASSUME NEW p \in Producers, HandlePlayerLeave(p) PROVE OldPlayerLeavesFirst'
  <2>1. players' \subseteq players
    BY <1>2 DEF HandlePlayerLeave
  <2>2. CASE p = "loop"
    BY <1>2, <2>1, <2>2, LoopTaken, FreeUntouched DEF HandlePlayerLeave
  <2>3. CASE p = "uws"
    <3>1. Dequeue("uws") /\ \A pc \in players' : pc.connection_id # Uws[1].connection_id
      BY <1>2, <2>3, UwsTaken DEF HandlePlayerLeave, Uws
    <3>2. \A pc \in players' : Uws[1] # PlayerLeave(pc.connection_id)
      BY <3>1 DEF PlayerLeave
    <3> QED
      BY <2>1, <3>1, <3>2, FreeTaken
  <2> QED
    BY <2>2, <2>3 DEF Producers
<1>3. ASSUME NEW p \in Producers, HandlePlayerMove(p) PROVE OldPlayerLeavesFirst'
  <2>1. p = "uws"
    BY <1>3, LoopHead DEF HandlePlayerMove, Loop, Producers
  <2>2. Dequeue("uws") /\ Uws[1].type = "player_move"
    BY <1>3, <2>1, UwsTaken DEF HandlePlayerMove, Uws
  <2>3. \A c : Uws[1] # PlayerLeave(c)
    BY <2>2 DEF PlayerLeave
  <2>4. \A pc2 \in players' : \E pc \in players :
          pc2.name = pc.name /\ pc2.connection_id = pc.connection_id
    BY <1>3, MovedPlayers
  <2> QED
    BY <2>2, <2>3, <2>4, FreeTaken
<1>4. CASE DrainDone \/ Update \/ TickDone \/ \E o \in outward_queue : Deliver(o)
  <2>1. players' = players /\ Uws' = Uws
    BY <1>4 DEF DrainDone, Update, Deliver, TickDone, Enqueue, Uws, TypeOK, UwsTypeOK,
                SharedTypeOK, Producers
  <2> QED
    BY <2>1, FreeUntouched
<1> QED
  BY <1>1, <1>2, <1>3, <1>4 DEF LoopNext

\* Where no name is played on two connections at a time, nobody is turned away because
\* of the player a former connection left behind: its leave message comes first.
THEOREM OldPlayersLeaveFirst == Spec /\ []PlayedApart => []OldPlayerLeavesFirst
<1>1. Init => OldPlayerLeavesFirst /\ NamesMatch
  BY DEF Init, UwsInit, SharedInit, OldPlayerLeavesFirst, NamesMatch, Connected, Producers
<1>2. TypeOK /\ SlotInv /\ WorldInv /\ NamesMatch /\ NamesMatch' /\ PlayedApart'
        /\ OldPlayerLeavesFirst /\ [Next]_vars => OldPlayerLeavesFirst'
  <2> SUFFICES ASSUME TypeOK, SlotInv, WorldInv, NamesMatch, NamesMatch', PlayedApart',
                      OldPlayerLeavesFirst, [Next]_vars
               PROVE  OldPlayerLeavesFirst'
    OBVIOUS
  <2>1. CASE UwsNext /\ UNCHANGED loopVars
    BY <2>1, UwsFreeStep
  <2>2. CASE LoopNext /\ UNCHANGED <<dbVars, asked>>
    BY <2>2, LoopFreeStep
  <2>3. CASE UNCHANGED vars
    BY <2>3, FreeUntouched DEF vars, uwsVars, sharedVars, loopVars, Uws
  <2> QED
    BY <2>1, <2>2, <2>3 DEF Next
<1> QED
  BY <1>1, <1>2, NamesStep, SlotInvariant, WorldInvariant, PTL DEF Spec

\* No two characters have one name.
NamesApart ==
  \A u, v \in Users, s, r \in Slots :
    /\ characters[u][s] # NoRow /\ characters[v][r] # NoRow
    /\ characters[u][s].name = characters[v][r].name
    => u = v /\ s = r

\* Where no two characters have one name, the same: a slot is played once, so a name is.
THEOREM NobodyTurnedAway == Spec /\ []NamesApart => []OldPlayerLeavesFirst
<1>1. TypeOK /\ SlotInv /\ NamesApart => PlayedApart
  <2> SUFFICES ASSUME TypeOK, SlotInv, NamesApart, NEW c \in Connected, NEW d \in Connected,
                      IsPlaying(c), IsPlaying(d), PlayedName(c) = PlayedName(d)
               PROVE  c = d
    BY DEF PlayedApart
  <2>1. \A e \in {c, d} : /\ user_connections[e].user_id \in Users
                          /\ user_connections[e].playing_character_slot \in Slots
    BY DEF SlotInv, SessionsSound, Session, IsPlaying, TypeOK, UwsTypeOK, SharedTypeOK
  <2>2. /\ user_connections[c].user_id = user_connections[d].user_id
        /\ user_connections[c].playing_character_slot = user_connections[d].playing_character_slot
    BY <2>1 DEF SlotInv, PlayedRows, NamesApart, PlayedName
  <2> QED
    BY <2>1, <2>2 DEF SlotInv, SlotExclusive, Plays
<1> QED
  BY <1>1, SlotInvariant, OldPlayersLeaveFirst, PTL

-----------------------------------------------------------------------------
(***************************************************************************)
(* The steps of the server are steps of WorldEntry: of what a step changes *)
(* for a connection, WorldEntry sees its link, its stage and its name, and *)
(* for every other connection it sees nothing.                             *)
(***************************************************************************)
\* WorldEntry sees nothing happen to c.
Same(c) == /\ LinkOf(c)' = LinkOf(c)
           /\ StageOf(c)' = StageOf(c)
           /\ NameOf(c)' = NameOf(c)

OthersSame(c) == \A d \in ConnectionIds \ {c} : Same(d)

\* A step nobody sees.
LEMMA EntryStutter ==
  ASSUME \A c \in ConnectionIds : Same(c)
  PROVE  UNCHANGED Entry!vars
BY DEF Same, Entry!vars

\* A connection is opened.
LEMMA EntryConnect ==
  ASSUME NEW c \in ConnectionIds, OthersSame(c),
         LinkOf(c) = "new", LinkOf(c)' = "up",
         StageOf(c)' = StageOf(c), NameOf(c)' = NameOf(c)
  PROVE  Entry!Next
<1>1. Entry!Connect(c)
  BY DEF OthersSame, Same, Entry!Connect
<1> QED
  BY <1>1 DEF Entry!Next

\* A client asks to enter.
LEMMA EntryAsk ==
  ASSUME NEW c \in ConnectionIds, OthersSame(c),
         LinkOf(c) = "up", LinkOf(c)' = "up",
         StageOf(c) = "outside", StageOf(c)' = "waiting", NameOf(c)' = NameOf(c)
  PROVE  Entry!Next
<1>1. Entry!Ask(c)
  BY DEF OthersSame, Same, Entry!Ask
<1> QED
  BY <1>1 DEF Entry!Next

\* The request fails half-way.
LEMMA EntrySpoil ==
  ASSUME NEW c \in ConnectionIds, OthersSame(c),
         LinkOf(c) = "up", LinkOf(c)' = "up",
         StageOf(c) = "outside", StageOf(c)' = "done", NameOf(c)' = NameOf(c)
  PROVE  Entry!Next
<1>1. Entry!Spoil(c)
  BY DEF OthersSame, Same, Entry!Spoil
<1> QED
  BY <1>1 DEF Entry!Next

\* Who waits is turned away.
LEMMA EntryTurnAway ==
  ASSUME NEW c \in ConnectionIds, OthersSame(c), LinkOf(c)' = LinkOf(c),
         StageOf(c) = "waiting", StageOf(c)' = "done", NameOf(c)' = NameOf(c)
  PROVE  Entry!Next
<1>1. Entry!TurnAway(c)
  BY DEF OthersSame, Same, Entry!TurnAway
<1> QED
  BY <1>1 DEF Entry!Next, Entry!Answer

\* Who waits is let in, under a name nobody has.
LEMMA EntryAdmit ==
  ASSUME NEW c \in ConnectionIds, OthersSame(c), LinkOf(c)' = LinkOf(c),
         StageOf(c) = "waiting", StageOf(c)' = "inside",
         NameOf(c)' \in Names, \A d \in ConnectionIds : NameOf(d) # NameOf(c)'
  PROVE  Entry!Next
<1> DEFINE n == NameOf(c)'
<1>1. Entry!Admit(c, n)
  BY DEF OthersSame, Same, Entry!Admit
<1> QED
  BY <1>1 DEF Entry!Next, Entry!Answer

\* A client goes.
LEMMA EntryDisconnect ==
  ASSUME NEW c \in ConnectionIds, OthersSame(c),
         LinkOf(c) = "up", LinkOf(c)' = "down",
         StageOf(c)' = IF StageOf(c) = "outside" THEN "done" ELSE StageOf(c),
         NameOf(c)' = NameOf(c)
  PROVE  Entry!Next
<1>1. Entry!Disconnect(c)
  BY DEF OthersSame, Same, Entry!Disconnect
<1> QED
  BY <1>1 DEF Entry!Next

\* Who went is taken out.
LEMMA EntryTakeOut ==
  ASSUME NEW c \in ConnectionIds, OthersSame(c),
         LinkOf(c) = "down", LinkOf(c)' = "down",
         StageOf(c) = "inside", StageOf(c)' = "done", NameOf(c)' = NoRow
  PROVE  Entry!Next
<1>1. Entry!TakeOut(c)
  BY DEF OthersSame, Same, Entry!TakeOut
<1> QED
  BY <1>1 DEF Entry!Next

-----------------------------------------------------------------------------
\* The player of a connection is the one with its id, if there is one only.
LEMMA ChosenOne ==
  ASSUME NEW S, NEW pc \in S,
         \A other \in S : other.connection_id = pc.connection_id => other = pc
  PROVE  (CHOOSE x \in S : x.connection_id = pc.connection_id) = pc
OBVIOUS

\* The name of c is that of its player.
LEMMA NameIs ==
  ASSUME OneCharacterEach, NEW pc \in players
  PROVE  NameOf(pc.connection_id) = pc.name
<1>1. (CHOOSE x \in players : x.connection_id = pc.connection_id) = pc
  BY ChosenOne DEF OneCharacterEach
<1> QED
  BY <1>1 DEF NameOf, InWorld

\* The same of the next state.
LEMMA NextNameIs ==
  ASSUME OneCharacterEach', NEW pc \in players'
  PROVE  NameOf(pc.connection_id)' = pc.name
<1>1. (CHOOSE x \in players' : x.connection_id = pc.connection_id) = pc
  BY ChosenOne DEF OneCharacterEach
<1> QED
  BY <1>1 DEF NameOf, InWorld

\* The name of c stays if its player does.
LEMMA NameStays ==
  ASSUME OneCharacterEach, OneCharacterEach', NEW c,
         \A pc \in players : pc.connection_id = c =>
           \E pc2 \in players' : pc2.name = pc.name /\ pc2.connection_id = c,
         \A pc2 \in players' : pc2.connection_id = c =>
           \E pc \in players : pc.connection_id = c
  PROVE  (InWorld(c)' <=> InWorld(c)) /\ NameOf(c)' = NameOf(c)
<1>1. InWorld(c)' <=> InWorld(c)
  BY DEF InWorld
<1>2. CASE InWorld(c)
  <2>1. PICK pc \in players : pc.connection_id = c
    BY <1>2 DEF InWorld
  <2>2. PICK pc2 \in players' : pc2.name = pc.name /\ pc2.connection_id = c
    BY <2>1
  <2> QED
    BY <1>1, <2>1, <2>2, NameIs, NextNameIs
<1>3. CASE ~InWorld(c)
  BY <1>1, <1>3 DEF NameOf
<1> QED
  BY <1>1, <1>2, <1>3

\* The stage of c stays if nothing it is made of changes.
LEMMA StageStays ==
  ASSUME NEW c, LinkOf(c)' = LinkOf(c), EnterQueued(c)' <=> EnterQueued(c),
         InWorld(c)' <=> InWorld(c), IsPlaying(c)' <=> IsPlaying(c)
  PROVE  StageOf(c)' = StageOf(c)
BY DEF StageOf

-----------------------------------------------------------------------------
(* The steps of the websocket thread. *)

\* A step that changes neither the queue nor the players leaves the name of every
\* connection alone, and a stage moves only with the link or the slot.
LEMMA QuietStep ==
  ASSUME NEW c, UNCHANGED <<game_loop_queue, players>>
  PROVE  /\ NameOf(c)' = NameOf(c)
         /\ EnterQueued(c)' <=> EnterQueued(c)
         /\ InWorld(c)' <=> InWorld(c)
BY DEF NameOf, InWorld, EnterQueued

\* A message that is no enter of c leaves c waiting or not.
LEMMA AppendedOther ==
  ASSUME TypeOK, NEW m \in QueueMessages, Enqueue("uws", m), NEW c,
         m.type # "player_enter" \/ m.connection_id # c
  PROVE  EnterQueued(c)' <=> EnterQueued(c)
<1>1. /\ DOMAIN Uws = 1 .. Len(Uws) /\ Len(Uws) \in Nat
      /\ DOMAIN Uws' = 1 .. Len(Uws) + 1
      /\ \A i \in 1 .. Len(Uws) : Uws'[i] = Uws[i]
      /\ Uws'[Len(Uws) + 1] = m
  BY UwsAppended, StreamsTyped
<1>2. EnterQueued(c) => EnterQueued(c)'
  <2> SUFFICES ASSUME NEW i \in DOMAIN Uws, Uws[i].type = "player_enter", Uws[i].connection_id = c
               PROVE  EnterQueued(c)'
    BY DEF EnterQueued, Uws
  <2>1. i \in DOMAIN Uws' /\ Uws'[i] = Uws[i]
    BY <1>1
  <2> QED
    BY <2>1 DEF EnterQueued, Uws
<1>3. EnterQueued(c)' => EnterQueued(c)
  <2> SUFFICES ASSUME NEW i \in DOMAIN Uws', Uws'[i].type = "player_enter", Uws'[i].connection_id = c
               PROVE  EnterQueued(c)
    BY DEF EnterQueued, Uws
  <2>1. i \in DOMAIN Uws /\ Uws'[i] = Uws[i]
    BY <1>1
  <2> QED
    BY <2>1 DEF EnterQueued, Uws
<1> QED
  BY <1>2, <1>3

\* The links are those of before, except of who opens or closes.
LEMMA LinksStay ==
  ASSUME NEW c, UNCHANGED <<connection_id_counter, erasing>>, Connected' = Connected
  PROVE  LinkOf(c)' = LinkOf(c)
BY DEF LinkOf, Leaving, Gone

\* An open connection outside of on_close is up.
LEMMA IdleUp ==
  ASSUME TypeOK, NEW c \in Connected, Idle
  PROVE  LinkOf(c) = "up" /\ c \in ConnectionIds /\ c # NoConnection
<1>1. c \in ConnectionIds /\ c \in 0 .. connection_id_counter - 1 /\ connection_id_counter \in Nat
  BY ConnectedIds, StateAssumption DEF TypeOK, UwsTypeOK, SharedTypeOK
<1> QED
  BY <1>1, StateAssumption DEF LinkOf, Leaving, Gone, Idle

\* Who is logged in and does not play is outside.
LEMMA NotPlayingOutside ==
  ASSUME TypeOK, WorldInv, NEW c \in Connected, Idle, ~IsPlaying(c)
  PROVE  StageOf(c) = "outside" /\ ~InWorld(c)
<1>1. Quiet(c) /\ ~InStream(Uws, c)
  BY DEF WorldInv, FreshSilent
<1>2. ~EnterQueued(c) /\ ~InWorld(c)
  BY <1>1 DEF Quiet, InStream, EnterQueued, InWorld, Uws
<1> QED
  BY <1>2, IdleUp DEF StageOf

\* on_open connects.
LEMMA OpenRefines ==
  ASSUME TypeOK, WorldInv, OnOpen, UNCHANGED loopVars
  PROVE  Entry!Next
<1>0. PICK new : new = connection_id_counter
  OBVIOUS
<1>1. /\ connection_id_counter = new
      /\ Connected' = Connected \cup {new}
      /\ \A c \in Connected : user_connections'[c] = user_connections[c]
      /\ user_connections'[new] = NewSession
      /\ new \in ConnectionIds /\ new \notin Connected
      /\ Connected \subseteq 0 .. new - 1 /\ new \in Nat
      /\ connection_id_counter' = new + 1
      /\ erasing = NoConnection /\ erasing' = NoConnection /\ new # NoConnection
      /\ UNCHANGED <<game_loop_queue, players>>
  BY <1>0, StateAssumption
  DEF OnOpen, Idle, TypeOK, UwsTypeOK, SharedTypeOK, Connected, ConnectionIds, loopVars
<1>2. OthersSame(new)
  <2> SUFFICES ASSUME NEW d \in ConnectionIds, d # new PROVE Same(d)
    BY DEF OthersSame
  <2>1. LinkOf(d)' = LinkOf(d)
    BY <1>1 DEF LinkOf, Leaving, Gone, ConnectionIds
  <2>2. IsPlaying(d)' <=> IsPlaying(d)
    BY <1>1 DEF IsPlaying
  <2> QED
    BY <1>1, <2>1, <2>2, QuietStep, StageStays DEF Same
<1>3. LinkOf(new) = "new" /\ LinkOf(new)' = "up"
  BY <1>1 DEF LinkOf, Leaving, Gone
<1>4. ~EnterQueued(new) /\ ~InWorld(new)
  BY <1>1 DEF WorldInv, IdsUsed, InStream, Quiet, EnterQueued, InWorld, Uws
<1>5. ~IsPlaying(new) /\ ~IsPlaying(new)'
  BY <1>1 DEF IsPlaying, NewSession
<1>6. StageOf(new)' = StageOf(new) /\ NameOf(new)' = NameOf(new)
  BY <1>1, <1>3, <1>4, <1>5, QuietStep DEF StageOf
<1> QED
  BY <1>1, <1>2, <1>3, <1>6, EntryConnect

\* on_close up to the leave message disconnects.
LEMMA CloseRefines ==
  ASSUME TypeOK, WorldInv, NEW c \in Connected, OnClose(c), UNCHANGED loopVars
  PROVE  Entry!Next
<1>1. /\ UNCHANGED <<connection_id_counter, user_connections, players>>
      /\ Connected' = Connected /\ Idle /\ erasing' = c
      /\ \A d : IsPlaying(d)' <=> IsPlaying(d)
  BY DEF OnClose, Connected, IsPlaying, loopVars
<1>2. c \in ConnectionIds /\ LinkOf(c) = "up"
  BY <1>1, IdleUp
<1>3. LinkOf(c)' = "down"
  BY <1>1, <1>2 DEF LinkOf, Leaving, Gone
<1>4. \A d : EnterQueued(d)' <=> EnterQueued(d)
  <2>1. CASE UNCHANGED game_loop_queue
    BY <2>1 DEF EnterQueued
  <2>2. CASE Enqueue("uws", PlayerLeave(c))
    <3>1. PlayerLeave(c) \in QueueMessages /\ PlayerLeave(c).type = "player_leave"
      BY <1>2 DEF PlayerLeave, QueueMessages, LeaveMessages
    <3> QED
      BY <2>2, <3>1, AppendedOther
  <2> QED
    BY <2>1, <2>2 DEF OnClose
<1>5. \A d : (InWorld(d)' <=> InWorld(d)) /\ NameOf(d)' = NameOf(d)
  BY <1>1 DEF InWorld, NameOf
<1>6. OthersSame(c)
  <2> SUFFICES ASSUME NEW d \in ConnectionIds, d # c PROVE Same(d)
    BY DEF OthersSame
  <2>1. LinkOf(d)' = LinkOf(d)
    BY <1>1, StateAssumption DEF LinkOf, Leaving, Gone, Idle
  <2> QED
    BY <1>1, <1>4, <1>5, <2>1, StageStays DEF Same
<1>7. StageOf(c)' = IF StageOf(c) = "outside" THEN "done" ELSE StageOf(c)
  BY <1>1, <1>2, <1>3, <1>4, <1>5 DEF StageOf
<1> QED
  BY <1>2, <1>3, <1>5, <1>6, <1>7, EntryDisconnect

\* The rest of on_close is not seen.
LEMMA EraseRefines ==
  ASSUME TypeOK, WorldInv, OnCloseErase, UNCHANGED loopVars
  PROVE  UNCHANGED Entry!vars
<1>0. PICK e : e = erasing
  OBVIOUS
<1>1. /\ e \in Connected /\ e \in ConnectionIds
      /\ connection_id_counter \in Nat /\ e < connection_id_counter
      /\ erasing = e /\ e # NoConnection /\ erasing' = NoConnection
      /\ Connected' = Connected \ {e}
      /\ \A d \in Connected \ {e} : user_connections'[d] = user_connections[d]
      /\ UNCHANGED <<connection_id_counter, game_loop_queue, players>>
  BY <1>0, ConnectedIds, StateAssumption
  DEF OnCloseErase, Restrict, Connected, TypeOK, UwsTypeOK, SharedTypeOK, loopVars
<1> SUFFICES ASSUME NEW d \in ConnectionIds PROVE Same(d)
  BY EntryStutter
<1>2. LinkOf(d)' = LinkOf(d)
  BY <1>1, StateAssumption DEF LinkOf, Leaving, Gone
<1>3. CASE d = e
  <2>1. LinkOf(d) = "down"
    BY <1>1, <1>3 DEF LinkOf, Leaving, ConnectionIds
  <2> QED
    BY <1>1, <1>2, <2>1, QuietStep DEF StageOf, Same
<1>4. CASE d # e
  <2>1. IsPlaying(d)' <=> IsPlaying(d)
    BY <1>1, <1>4 DEF IsPlaying
  <2> QED
    BY <1>1, <1>2, <2>1, QuietStep, StageStays DEF Same
<1> QED
  BY <1>3, <1>4

\* A step that opens, closes and seats nobody, and queues no enter, is not seen.
LEMMA UnseenStep ==
  ASSUME UNCHANGED <<connection_id_counter, erasing, players>>, Connected' = Connected,
         \A c \in ConnectionIds : /\ IsPlaying(c)' <=> IsPlaying(c)
                                  /\ EnterQueued(c)' <=> EnterQueued(c)
  PROVE  UNCHANGED Entry!vars
<1> SUFFICES ASSUME NEW c \in ConnectionIds PROVE Same(c)
  BY EntryStutter
<1>1. (InWorld(c)' <=> InWorld(c)) /\ NameOf(c)' = NameOf(c)
  BY DEF InWorld, NameOf
<1>2. LinkOf(c)' = LinkOf(c)
  BY LinksStay
<1> QED
  BY <1>1, <1>2, StageStays DEF Same

\* A login, an account or a character is not seen.
LEMMA AccountsUnseen ==
  ASSUME TypeOK, UNCHANGED loopVars, NEW c \in Connected,
         \/ \E u \in Users : RefuseBanned(c, u) \/ Login(c, u) \/ Register(c, u)
         \/ \E s \in Slots : \/ DeleteCharacter(c, s)
                             \/ \E name \in Names, served \in BOOLEAN :
                                  CreateCharacter(c, s, name, served)
  PROVE  UNCHANGED Entry!vars
<1>0. user_connections \in [Connected -> Session]
  BY DEF TypeOK, UwsTypeOK, SharedTypeOK
<1>1. UNCHANGED <<connection_id_counter, erasing, players, game_loop_queue>>
  BY DEF RefuseBanned, Login, Register, DeleteCharacter, CreateCharacter, sharedVars, loopVars
<1>2. Connected' = Connected /\ \A d : IsPlaying(d)' <=> IsPlaying(d)
  <2>1. CASE UNCHANGED user_connections
    BY <2>1 DEF Connected, IsPlaying
  <2>2. ASSUME NEW u \in Users, RefuseBanned(c, u) \/ Login(c, u) \/ Register(c, u)
        PROVE  Connected' = Connected /\ \A d : IsPlaying(d)' <=> IsPlaying(d)
    <3>1. Connected' = Connected
      BY <1>0, <2>2, SessionUpdate DEF RefuseBanned, Login, Register
    <3>2. \A d \in Connected : user_connections'[d].playing_character_slot
                                 = user_connections[d].playing_character_slot
      BY <1>0, <2>2 DEF RefuseBanned, Login, Register, Session
    <3> QED
      BY <3>1, <3>2 DEF IsPlaying
  <2> QED
    BY <2>1, <2>2 DEF DeleteCharacter, CreateCharacter, sharedVars
<1>3. \A d : EnterQueued(d)' <=> EnterQueued(d)
  BY <1>1 DEF EnterQueued
<1> QED
  BY <1>1, <1>2, <1>3, UnseenStep

\* A queued move is not seen.
LEMMA MoveUnseen ==
  ASSUME TypeOK, UNCHANGED loopVars, NEW c \in Connected, NEW t \in MoveTargets, Move(c, t)
  PROVE  UNCHANGED Entry!vars
<1>1. PlayerMove(c, t) \in QueueMessages /\ PlayerMove(c, t).type = "player_move"
  BY ConnectedIds, UwsAssumption
  DEF TypeOK, UwsTypeOK, PlayerMove, QueueMessages, MoveMessages
<1>2. \A d : EnterQueued(d)' <=> EnterQueued(d)
  BY <1>1, AppendedOther DEF Move
<1> QED
  BY <1>2, UnseenStep DEF Move, Connected, IsPlaying, loopVars

\* What taking a slot does to the sessions.
LEMMA SlotTaken ==
  ASSUME TypeOK, NEW c \in Connected, NEW s \in Slots, MayPlay(c, s), TakeSlot(c, s)
  PROVE  /\ Connected' = Connected /\ Idle /\ ~IsPlaying(c) /\ IsPlaying(c)'
         /\ \A d : d # c => (IsPlaying(d)' <=> IsPlaying(d))
<1>0. user_connections \in [Connected -> Session]
  BY DEF TypeOK, UwsTypeOK, SharedTypeOK
<1>1. Connected' = Connected
  BY <1>0, SessionUpdate DEF TakeSlot
<1>2. \A d \in Connected : user_connections'[d].playing_character_slot
                 = IF d = c THEN s ELSE user_connections[d].playing_character_slot
  BY <1>0 DEF TakeSlot, Session
<1>3. s # Nobody
  BY StateAssumption DEF Nobody
<1> QED
  BY <1>1, <1>2, <1>3 DEF IsPlaying, MayPlay, NotPlaying, Dispatched

\* play_character_handler asks.
LEMMA PlayRefines ==
  ASSUME TypeOK, WorldInv, UNCHANGED loopVars, NEW c \in Connected, NEW s \in Slots,
         PlayCharacter(c, s)
  PROVE  Entry!Next
<1> DEFINE m == PlayerEnter(c, characters[user_connections[c].user_id][s])
<1>1. m \in QueueMessages /\ m.type = "player_enter" /\ m.connection_id = c
  <2>1. characters[user_connections[c].user_id][s] \in Row
    BY DEF PlayCharacter, MayPlay, NotPlaying, Rows, Session, TypeOK, UwsTypeOK, SharedTypeOK
  <2> QED
    BY <2>1, ConnectedIds DEF PlayerEnter, QueueMessages, EnterMessages, Row, TypeOK, UwsTypeOK
<1> HIDE DEF m
<1>2. Enqueue("uws", m)
  BY DEF PlayCharacter, m
<1>3. /\ Connected' = Connected /\ Idle /\ ~IsPlaying(c)
      /\ UNCHANGED <<connection_id_counter, erasing, players>>
      /\ \A d : d # c => (IsPlaying(d)' <=> IsPlaying(d))
  BY SlotTaken DEF PlayCharacter, loopVars
<1>4. /\ StageOf(c) = "outside" /\ ~InWorld(c)
      /\ LinkOf(c) = "up" /\ c \in ConnectionIds
  BY <1>3, IdleUp, NotPlayingOutside
<1>5. \A d : LinkOf(d)' = LinkOf(d)
  BY <1>3, LinksStay
<1>6. \A d : (InWorld(d)' <=> InWorld(d)) /\ NameOf(d)' = NameOf(d)
  BY <1>3 DEF InWorld, NameOf
<1>7. EnterQueued(c)'
  <2>1. Len(Uws) + 1 \in DOMAIN Uws' /\ Uws'[Len(Uws) + 1] = m
    BY <1>1, <1>2, UwsAppended, StreamsTyped
  <2> QED
    BY <1>1, <2>1 DEF EnterQueued, Uws
<1>8. OthersSame(c)
  BY <1>1, <1>2, <1>3, <1>5, <1>6, AppendedOther, StageStays DEF OthersSame, Same
<1> QED
  BY <1>4, <1>5, <1>6, <1>7, <1>8, EntryAsk DEF StageOf

\* play_character_handler fails after it took the slot.
LEMMA PlayFailsRefines ==
  ASSUME TypeOK, WorldInv, UNCHANGED loopVars, NEW c \in Connected, NEW s \in Slots,
         PlayCharacterFails(c, s)
  PROVE  Entry!Next
<1>1. /\ Connected' = Connected /\ Idle /\ ~IsPlaying(c) /\ IsPlaying(c)'
      /\ UNCHANGED <<connection_id_counter, erasing, players, game_loop_queue>>
      /\ \A d : d # c => (IsPlaying(d)' <=> IsPlaying(d))
  BY SlotTaken DEF PlayCharacterFails, loopVars
<1>2. /\ StageOf(c) = "outside" /\ ~InWorld(c)
      /\ LinkOf(c) = "up" /\ c \in ConnectionIds
  BY <1>1, IdleUp, NotPlayingOutside
<1>3. \A d : LinkOf(d)' = LinkOf(d)
  BY <1>1, LinksStay
<1>4. OthersSame(c)
  BY <1>1, <1>3, QuietStep, StageStays DEF OthersSame, Same
<1>5. StageOf(c)' = "done" /\ NameOf(c)' = NameOf(c)
  BY <1>1, <1>2, QuietStep DEF StageOf
<1> QED
  BY <1>2, <1>3, <1>4, <1>5, EntrySpoil

\* Every step of the websocket thread is a step of WorldEntry or unseen.
LEMMA UwsRefines ==
  ASSUME TypeOK, WorldInv, UwsNext, UNCHANGED loopVars
  PROVE  [Entry!Next]_Entry!vars
<1>1. CASE OnOpen
  BY <1>1, OpenRefines
<1>2. CASE OnCloseErase
  BY <1>2, EraseRefines
<1>3. ASSUME NEW c \in Connected, OnClose(c) PROVE Entry!Next
  BY <1>3, CloseRefines
<1>4. ASSUME NEW c \in Connected, NEW s \in Slots, PlayCharacter(c, s) PROVE Entry!Next
  BY <1>4, PlayRefines
<1>5. ASSUME NEW c \in Connected, NEW s \in Slots, PlayCharacterFails(c, s) PROVE Entry!Next
  BY <1>5, PlayFailsRefines
<1>6. ASSUME NEW c \in Connected, NEW t \in MoveTargets, Move(c, t) PROVE UNCHANGED Entry!vars
  BY <1>6, MoveUnseen
<1> QED
  BY <1>1, <1>2, <1>3, <1>4, <1>5, <1>6, AccountsUnseen DEF UwsNext

-----------------------------------------------------------------------------
(* The steps of the game loop. *)

\* After the oldest message of the websocket thread is taken, the others wait.  Who
\* it let in or turned away waits no longer: there is one enter for a connection.
LEMMA TakenEnters ==
  ASSUME TypeOK, WorldInv, Dequeue("uws"), NEW c
  PROVE  EnterQueued(c)' <=> /\ EnterQueued(c)
                             /\ ~(Uws[1].type = "player_enter" /\ Uws[1].connection_id = c)
<1>1. /\ Len(Uws) \in Nat \ {0} /\ DOMAIN Uws = 1 .. Len(Uws)
      /\ DOMAIN Uws' = 1 .. Len(Uws) - 1
      /\ \A i \in 1 .. Len(Uws) - 1 : Uws'[i] = Uws[i + 1]
  BY UwsTaken, StreamsTyped
<1>2. ASSUME EnterQueued(c)'
      PROVE  EnterQueued(c) /\ ~(Uws[1].type = "player_enter" /\ Uws[1].connection_id = c)
  <2>1. PICK i \in DOMAIN Uws' : Uws'[i].type = "player_enter" /\ Uws'[i].connection_id = c
    BY <1>2 DEF EnterQueued, Uws
  <2>2. i + 1 \in DOMAIN Uws /\ 1 \in DOMAIN Uws /\ 1 < i + 1 /\ Uws'[i] = Uws[i + 1]
    BY <1>1, <2>1
  <2>3. EnterQueued(c)
    BY <2>1, <2>2 DEF EnterQueued, Uws
  <2>4. Uws[1].connection_id # c
    BY <2>1, <2>2 DEF WorldInv, StreamOrder
  <2> QED
    BY <2>3, <2>4
<1>3. ASSUME EnterQueued(c), ~(Uws[1].type = "player_enter" /\ Uws[1].connection_id = c)
      PROVE  EnterQueued(c)'
  <2>1. PICK i \in DOMAIN Uws : Uws[i].type = "player_enter" /\ Uws[i].connection_id = c
    BY <1>3 DEF EnterQueued, Uws
  <2>2. i # 1
    BY <1>3, <2>1
  <2>3. i - 1 \in DOMAIN Uws' /\ Uws'[i - 1] = Uws[i]
    BY <1>1, <2>1, <2>2
  <2> QED
    BY <2>1, <2>3 DEF EnterQueued, Uws
<1> QED
  BY <1>2, <1>3

\* Every link is the one of before.
LEMMA LoopLinks ==
  ASSUME UNCHANGED <<connection_id_counter, user_connections, erasing>>, NEW c
  PROVE  LinkOf(c)' = LinkOf(c) /\ (IsPlaying(c)' <=> IsPlaying(c))
BY LoopFrame, LinksStay

\* player_enter_handler answers.
LEMMA EnterRefines ==
  ASSUME TypeOK, WorldInv, NEW p \in Producers, HandlePlayerEnter(p),
         UNCHANGED <<connection_id_counter, user_connections, erasing>>
  PROVE  Entry!Next
<1>1. p = "uws"
  BY LoopHead DEF HandlePlayerEnter, Loop, Producers
<1>2. PICK m : m = Uws[1]
  OBVIOUS
<1> DEFINE c == m.connection_id
<1>3. Dequeue("uws") /\ Head(Uws) = m /\ m.type = "player_enter" /\ 1 \in DOMAIN Uws
  BY <1>1, <1>2, UwsTaken, StreamsTyped DEF HandlePlayerEnter, Uws
<1>4. m \in QueueMessages /\ c \in ConnectionIds /\ m.character_name \in Names
  BY <1>2, <1>3, StreamsTyped, MessageFields
<1>5. Quiet(c) /\ InStream(Uws, c)
  BY <1>2, <1>3 DEF WorldInv, EnterFirst, InStream
<1>6. WorldInv'
  BY EnterHandledStep
<1>7. /\ EnterQueued(c) /\ ~EnterQueued(c)'
      /\ \A d : d # c => (EnterQueued(d)' <=> EnterQueued(d))
  <2>1. EnterQueued(c)
    BY <1>2, <1>3 DEF EnterQueued, Uws
  <2> QED
    BY <1>2, <1>3, <2>1, TakenEnters
<1>8. \/ UNCHANGED players
      \/ ~NameTaken(m.character_name) /\ players' = players \cup {NewPc(m)}
  BY <1>1, <1>3 DEF HandlePlayerEnter, RefuseEnter, AdmitPlayer, Uws
<1>9. NewPc(m).connection_id = c /\ NewPc(m).name = m.character_name
  BY DEF NewPc
<1> HIDE DEF c
<1>10. OthersSame(c)
  <2> SUFFICES ASSUME NEW d \in ConnectionIds, d # c PROVE Same(d)
    BY DEF OthersSame
  <2>1. (InWorld(d)' <=> InWorld(d)) /\ NameOf(d)' = NameOf(d)
    BY <1>6, <1>8, <1>9, NameStays DEF WorldInv
  <2> QED
    BY <1>7, <2>1, LoopLinks, StageStays DEF Same
<1>11. StageOf(c) = "waiting"
  BY <1>7 DEF StageOf
<1>12. CASE UNCHANGED players
  <2>1. IsPlaying(c) \/ LinkOf(c) = "down"
    <3>1. c < connection_id_counter /\ connection_id_counter \in Nat
      BY <1>4, <1>5 DEF WorldInv, IdsUsed, TypeOK, UwsTypeOK, SharedTypeOK
    <3>2. c \in Connected => IsPlaying(c)
      BY <1>5 DEF WorldInv, FreshSilent
    <3> QED
      BY <1>4, <3>1, <3>2 DEF LinkOf, Leaving, Gone, ConnectionIds
  <2>2. ~InWorld(c)' /\ NameOf(c)' = NameOf(c)
    BY <1>5, <1>12 DEF InWorld, NameOf, Quiet
  <2>3. StageOf(c)' = "done"
    BY <1>7, <2>1, <2>2, LoopLinks DEF StageOf
  <2> QED
    BY <1>4, <1>10, <1>11, <2>2, <2>3, LoopLinks, EntryTurnAway
<1>13. CASE ~NameTaken(m.character_name) /\ players' = players \cup {NewPc(m)}
  <2>1. InWorld(c)' /\ NameOf(c)' = m.character_name
    BY <1>6, <1>9, <1>13, NextNameIs DEF InWorld, WorldInv
  <2>2. StageOf(c)' = "inside"
    BY <1>7, <2>1 DEF StageOf
  <2>3. ASSUME NEW d \in ConnectionIds PROVE NameOf(d) # m.character_name
    <3>1. CASE InWorld(d)
      <4>1. PICK pc \in players : pc.connection_id = d
        BY <3>1 DEF InWorld
      <4>2. NameOf(d) = pc.name
        BY <4>1, NameIs DEF WorldInv
      <4> QED
        BY <1>13, <4>1, <4>2 DEF NameTaken
    <3>2. CASE ~InWorld(d)
      BY <1>4, <3>2, StateAssumption DEF NameOf
    <3> QED
      BY <3>1, <3>2
  <2> QED
    BY <1>4, <1>10, <1>11, <2>1, <2>2, <2>3, LoopLinks, EntryAdmit
<1> QED
  BY <1>8, <1>12, <1>13

\* player_leave_handler takes out who has left, or nobody.
LEMMA LeaveRefines ==
  ASSUME TypeOK, WorldInv, NEW p \in Producers, HandlePlayerLeave(p),
         UNCHANGED <<connection_id_counter, user_connections, erasing>>
  PROVE  [Entry!Next]_Entry!vars
<1>1. PICK m : m = Head(game_loop_queue[p])
  OBVIOUS
<1> DEFINE c == m.connection_id
<1>2. /\ Dequeue(p) /\ m.type = "player_leave"
      /\ players' = {pc \in players : pc.connection_id # c}
  BY <1>1 DEF HandlePlayerLeave
<1>3. /\ c \in ConnectionIds /\ Leaving(c) /\ ~EnterQueued(c) /\ WorldInv'
      /\ \A d : EnterQueued(d)' <=> EnterQueued(d)
  <2>1. CASE p = "uws"
    <3>1. m = Uws[1] /\ 1 \in DOMAIN Uws
      BY <1>1, <1>2, <2>1, UwsTaken, StreamsTyped DEF Uws
    <3>2. c \in ConnectionIds /\ Leaving(c)
      BY <1>2, <3>1, StreamsTyped, MessageFields DEF WorldInv, UwsLeaves
    <3>3. ~EnterQueued(c)
      BY <1>2, <3>1, StreamsTyped DEF WorldInv, StreamOrder, EnterQueued, Uws
    <3>4. \A d : EnterQueued(d)' <=> EnterQueued(d)
      BY <1>2, <2>1, <3>1, TakenEnters
    <3> QED
      BY <2>1, <3>2, <3>3, <3>4, UwsLeaveStep
  <2>2. CASE p = "loop"
    <3>1. m = Loop[1] /\ 1 \in DOMAIN Loop /\ Uws' = Uws
      BY <1>1, <1>2, <2>2, LoopTaken, StreamsTyped DEF Loop
    <3>2. c \in ConnectionIds /\ Gone(c) /\ ~EnterQueued(c)
      BY <3>1, StreamsTyped, MessageFields DEF WorldInv, LoopLeaves
    <3>3. \A d : EnterQueued(d)' <=> EnterQueued(d)
      BY <3>1 DEF EnterQueued, Uws
    <3> QED
      BY <2>2, <3>2, <3>3, LoopLeaveStep DEF Leaving
  <2> QED
    BY <2>1, <2>2 DEF Producers
<1> HIDE DEF c
<1>4. \A d \in ConnectionIds \ {c} : Same(d)
  <2> SUFFICES ASSUME NEW d \in ConnectionIds, d # c PROVE Same(d)
    OBVIOUS
  <2>1. (InWorld(d)' <=> InWorld(d)) /\ NameOf(d)' = NameOf(d)
    BY <1>2, <1>3, NameStays DEF WorldInv
  <2> QED
    BY <1>3, <2>1, LoopLinks, StageStays DEF Same
<1>5. ~InWorld(c)' /\ NameOf(c)' = NoRow
  BY <1>2 DEF InWorld, NameOf
<1>6. CASE InWorld(c)
  <2>1. LinkOf(c) = "down"
    <3>1. ~Quiet(c)
      BY <1>6 DEF InWorld, Quiet
    <3>2. c < connection_id_counter /\ connection_id_counter \in Nat
      BY <1>3, <3>1 DEF WorldInv, IdsUsed, TypeOK, UwsTypeOK, SharedTypeOK
    <3> QED
      BY <1>3, <3>2 DEF LinkOf, ConnectionIds
  <2>2. StageOf(c) = "inside" /\ StageOf(c)' = "done" /\ LinkOf(c)' = "down"
    BY <1>3, <1>5, <1>6, <2>1, LoopLinks DEF StageOf
  <2> QED
    BY <1>3, <1>4, <1>5, <2>1, <2>2, EntryTakeOut DEF OthersSame
<1>7. CASE ~InWorld(c)
  <2>1. NameOf(c)' = NameOf(c)
    BY <1>5, <1>7 DEF NameOf
  <2>2. Same(c)
    BY <1>3, <1>5, <1>7, <2>1, LoopLinks, StageStays DEF Same
  <2> QED
    BY <1>4, <2>2, EntryStutter
<1> QED
  BY <1>6, <1>7

\* player_move_handler is not seen: a player that moved keeps its name.
LEMMA MoveHandledUnseen ==
  ASSUME TypeOK, WorldInv, NEW p \in Producers, HandlePlayerMove(p),
         UNCHANGED <<connection_id_counter, user_connections, erasing>>
  PROVE  UNCHANGED Entry!vars
<1> SUFFICES ASSUME NEW c \in ConnectionIds PROVE Same(c)
  BY EntryStutter
<1>1. p = "uws"
  BY LoopHead DEF HandlePlayerMove, Loop, Producers
<1>2. Dequeue("uws") /\ Uws[1].type = "player_move"
  BY <1>1, UwsTaken DEF HandlePlayerMove, Uws
<1>3. EnterQueued(c)' <=> EnterQueued(c)
  BY <1>2, TakenEnters
<1>4. (InWorld(c)' <=> InWorld(c)) /\ NameOf(c)' = NameOf(c)
  <2>1. WorldInv'
    BY MoveHandledStep
  <2> QED
    BY <2>1, MovedPlayers, NameStays DEF WorldInv
<1> QED
  BY <1>3, <1>4, LoopLinks, StageStays DEF Same

\* Updates and deliveries are not seen.
LEMMA TickUnseen ==
  ASSUME TypeOK,
         DrainDone \/ Update \/ (\E o \in outward_queue : Deliver(o)) \/ TickDone,
         UNCHANGED <<connection_id_counter, user_connections, erasing>>
  PROVE  UNCHANGED Entry!vars
<1>1. players' = players
  BY DEF DrainDone, Update, Deliver, TickDone
<1>2. Uws' = Uws
  BY DEF DrainDone, Update, Deliver, TickDone, Enqueue, Uws, TypeOK, UwsTypeOK, SharedTypeOK,
         Producers
<1>3. \A c : EnterQueued(c)' <=> EnterQueued(c)
  BY <1>2 DEF EnterQueued, Uws
<1> QED
  BY <1>1, <1>3, UnseenStep, LoopFrame

\* Every step of the game loop is a step of WorldEntry or unseen.
LEMMA LoopRefines ==
  ASSUME TypeOK, WorldInv, LoopNext
  PROVE  [Entry!Next]_Entry!vars
<1> USE DEF LoopNext
<1>1. ASSUME NEW p \in Producers, HandlePlayerEnter(p) PROVE Entry!Next
  BY <1>1, EnterRefines
<1>2. ASSUME NEW p \in Producers, HandlePlayerLeave(p) PROVE [Entry!Next]_Entry!vars
  BY <1>2, LeaveRefines
<1>3. ASSUME NEW p \in Producers, HandlePlayerMove(p) PROVE UNCHANGED Entry!vars
  BY <1>3, MoveHandledUnseen
<1> QED
  BY <1>1, <1>2, <1>3, TickUnseen

-----------------------------------------------------------------------------
\* The server begins where WorldEntry does.
LEMMA EntryBegins == Init => Entry!Init
<1> SUFFICES ASSUME Init PROVE Entry!Init
  OBVIOUS
<1>1. /\ connection_id_counter = 0 /\ Uws = <<>> /\ players = {} /\ Connected = {}
  BY DEF Init, UwsInit, SharedInit, LoopInit, Uws, Connected, Producers
<1>2. ASSUME NEW c \in ConnectionIds
      PROVE  LinkOf(c) = "new" /\ StageOf(c) = "outside" /\ NameOf(c) = NoRow
  <2>1. LinkOf(c) = "new"
    BY <1>1 DEF LinkOf, ConnectionIds
  <2>2. ~EnterQueued(c) /\ ~InWorld(c) /\ ~IsPlaying(c)
    BY <1>1 DEF EnterQueued, InWorld, IsPlaying, Uws
  <2> QED
    BY <2>1, <2>2 DEF StageOf, NameOf
<1> QED
  BY <1>2 DEF Entry!Init

\* Every step of the server is one WorldEntry allows.
LEMMA EntryStep == TypeOK /\ WorldInv /\ [Next]_vars => [Entry!Next]_Entry!vars
<1> SUFFICES ASSUME TypeOK, WorldInv, [Next]_vars PROVE [Entry!Next]_Entry!vars
  OBVIOUS
<1>1. CASE UwsNext /\ UNCHANGED loopVars
  BY <1>1, UwsRefines
<1>2. CASE LoopNext /\ UNCHANGED <<dbVars, asked>>
  BY <1>2, LoopRefines
<1>3. CASE UNCHANGED vars
  BY <1>3, UnseenStep
  DEF vars, uwsVars, sharedVars, loopVars, EnterQueued, IsPlaying, Connected
<1> QED
  BY <1>1, <1>2, <1>3 DEF Next

\* The server keeps the promise of WorldEntry, but for its fairness: whatever order
\* callbacks and ticks come in, a client is let in under a name nobody has, is let
\* in or turned away once, and is taken out only after it went.
THEOREM EntryPromiseKept == Spec => Entry!Init /\ [][Entry!Next]_Entry!vars
<1> QED
  BY EntryBegins, EntryStep, WorldInvariant, PTL DEF Spec
=============================================================================
