# Verification of the Land of the Rair server (core-cpp)

The repository is the server of an online role-playing game: a websocket
thread speaks with the clients and a database, a game loop keeps the world.
This directory models what those two do to each other, checks the models with
TLC on small instances, and proves the most important safety properties with
TLAPS for every value of the constants.

## 1. The system

| component | state | operations | talks to |
|---|---|---|---|
| websocket thread (`uws_thread.cpp`, `message_handlers/`) | `user_connections` (id -> `per_socket_data`), `handle_to_connection_id_map`, `connection_id_counter`, `motd` | `on_open`, `on_message` with one handler per message type, `on_close`, `on_fail` | database (transactions), game loop (`game_loop_queue`), clients |
| game loop (`main.cpp`, `game_queue_message_handlers/`) | the maps of the registry with their players and NPCs, `outward_queue` | per tick: drain the queue, update each map, deliver | websocket thread (reads `user_connections` under a shared lock, sends through `s_handle`) |
| database pool (`database/`) | entries (available, id, connection) | `create_transaction`, `commit`, destructor, `release_connection` | every repository |
| repositories and tables (`repositories/`, `sql/init.sql`) | rows | insert, get, update, delete | handlers |
| presence and chat | `motd` | joined and entered broadcasts, the list of a login, chat, message of the day | all sessions |
| NPCs (`ai/`, `game_logic/logic_helpers.*`) | `m.npcs`, spawner scripts | `run_ai_on`, `fill_spawners`, `remove_dead_npcs`, `create_npc` | called from the tick |
| visibility, paths (`fov.*`, `a_star.cpp`) | none | `compute_fov_restrictive_shadowcasting`, `is_visible`, `a_star_path` | called from the tick |
| profanity filter (`censor_sensor.*`) | word tiers, enabled tiers | `is_profane_ish`, `clean_profanity_ish`, ... | create and chat handlers |
| asset loading (`asset_loading/`) | maps, spawner scripts and their cache, global NPCs | `load_assets`, `load_map_from_file` | start-up |
| messages (`messages/`) | none | `serialize`, `deserialize` of each class | all handlers, clients |
| components, configuration, logging | records, files | reading, writing | start-up, all |
| start-up and shut-down (`main.cpp`, `run_uws`) | `quit`, `init_done`, `s_handle` | signals, joining | both threads |

How they interact. All websocket callbacks run one after the other on one
thread. The game loop is the main thread. They share `user_connections`,
changed only by the websocket thread, read by the loop under
`user_connections_mutex`; and `game_loop_queue`, a lock-free queue with several
producers: the websocket thread, and the game loop itself, which queues a leave
message when it wants to send to a connection it cannot find.

What is hard here:

- `on_close` queues the leave message *before* it erases the connection, and
  the loop may run in between (`uws_thread.cpp:213`, `:230`);
- the queue keeps the order of one producer only, so the loop's own leave
  messages are in no order with the websocket thread's enters and leaves
  (`main.cpp:204`);
- checks and effects are apart: the slot is set after the look at the other
  connections, and errors come after the slot is set
  (`play_character_handler.cpp:53-97`);
- the world knows characters by name and connections by id, the table by user
  and slot; players outlive their connection for a while;
- the pool hands out one connection and marks them all
  (`database_pool.cpp:62-72`), and gives a connection back before the work on it
  is destroyed (`database_transaction.cpp:31`);
- the drain of the queue has no bound (`main.cpp:136`);
- the two threads end in an order neither controls alone, and the loop keeps a
  pointer to a local of the other (`main.cpp:198`, `uws_thread.cpp:270`);
- who is online reaches a client by its login or by a broadcast, and both run
  over connections that are closing or have no user yet (`login_handler.cpp:101`);
  a login can break off after the session is the user's (`login_handler.cpp:83`);
- a transaction can break off between any two of its queries
  (`create_character_handler.cpp:97`), and a query without an order answers with
  any of its rows;
- maps share spawner scripts through a cache, and one map is read with what the
  ones before it left (`load_map.cpp:305`, `load_assets.cpp:133`);
- loops that draw until a draw is good (`logic_helpers.cpp:57`, `default_ai.cpp:172`).

What makes each component correct:

- *websocket thread*: a user plays a slot on one connection at most; a played
  character keeps its row; whoever entered gets a leave message when it goes.
- *game loop*: no name and no connection twice in the world; nobody left in it
  after leaving, nobody thrown out while connected; no accepted move lost; who
  waits to enter is answered.
- *pool*: a connection is leased once at a time, releasing never throws, some
  connection is always left.
- *presence*: whoever got an answer to its login knows of every other user of whom
  that is true, and has the message of the day that is set.
- *start-up and shut-down*: told to quit, the program ends; the thread is joined;
  no round of the loop begins on a server that is gone.
- *repositories*: no character is half made; no update changes whose a row is; the
  ways to read a row agree; a ban is found until it ends.
- *messages*: what is written is read, by the class that wrote it and by no other.
- *filter*: what registration refuses is what chat masks, and it is masked.
- *asset loading, NPCs*: every object gets the NPCs it names, in its number; they
  stay near it; neither loading nor a tick hangs.
- *visibility*: what is visible is what the field of view says, and walls hide.
- *paths*: the path found can be walked, leads back to where it began, and is found
  if there is one.

The hazards, each at its line, are in `PROJECT.json`.

## 2. Modules

| module | models |
|---|---|
| `ServerState` | what the threads share: connection ids, sessions, the queue and its messages |
| `UwsThread` | `on_open`, `on_close`, the checks of `handler_macros.h`, and each handler that changes state: login, register, create, delete, play, move |
| `GameLoop` | the tick: `player_enter_handler`, `player_leave_handler`, `player_move_handler`, the map updates, the deliveries |
| `GameServer` | both threads, fairness, the properties of the whole, the refinement mapping |
| `WorldEntry` | the abstract promise: connect, ask, be let in or turned away, disconnect, be taken out |
| `Presence` | `UwsThread` with what its handlers tell the other clients, and `set_motd_handler` |
| `Service` | `Presence` within the life of the program: `on_sigint`, `main`, `run_uws`, the end of both threads |
| `Tables` | the queries of the five repositories on their tables, in the transactions of the handlers |
| `Messages`, `Wire` | `serialize` and `deserialize` of every class; a message on its way, `handle_public_chat` |
| `Censor` | `is_profane`, `is_profane_ish`, `clean_profanity_ish`, the tiers |
| `Npcs` | `load_assets`, `load_map_from_file`, `create_npc`, `remove_dead_npcs`, `fill_spawners`, `run_ai_on` |
| `DatabasePool` | pool and transactions, for any number of threads |
| `TileMap` | the tiles of a map and the steps between two of them, for `AStar` and `Fov` |
| `AStar` | `a_star_path`, and the walk back along its result in `run_ai_on` |
| `Fov` | `compute_fov_restrictive_shadowcasting`, and `is_visible` on its result |
| `MCGameServer`, `MCService`, `MCTables`, `MCWire`, `MCNpcs`, `MCFov` | the instances for TLC |
| `UwsThreadProofs` | lemmas on the actions of `UwsThread`, for the two modules that compose it |
| `GameServerProofs`, `ServiceProofs`, `TablesProofs`, `WireProofs`, `NpcsProofs`, `DatabasePoolProofs`, `TileProofs` | theorems; `TileProofs` has those of `AStar` and of `Fov` |

`UwsThread` is composed twice: with the game loop in `GameServer`, and with the
clients' views and the life of the program in `Presence` and `Service`. The
composition of all of them is out of TLC's reach; what the halves have to do with
each other is small. The loop changes nothing of the sessions, and `Service`
keeps of the tick what uses the server's handle.

**State and code, server.** `user_connections` is the map of the same name with
the three fields that matter (`ws`, `user_id`, `playing_character_slot`); a `ws`
of "closing" is a connection the server asked to close because the account is
banned, and in `Presence` also one its client closes: nothing is dispatched from it
and nothing sent to it, and it is in the map until `on_close` has run. To the state
of `UwsThread` such a client is one that sends nothing more. `erasing` is the connection `on_close` is in the middle of, and stands
for the unique lock it holds meanwhile. `game_loop_queue` is one sequence per
producer; `try_dequeue` takes the head of any of them. `players` are the
`pc_component`s of all maps, in one set, since the code finds them by name or by
connection. `outward_queue` keeps whom a message is for and whether it is an
error or a map update. `phase` is where `main` is in its tick. `characters` and
`users` are the two tables. `asked` is a history variable: the position a
client's accepted requests lead to.

A handler of the websocket thread shares with the loop only the queue and the
erasure in `on_close`, so each handler is one action, and `on_close` two. On the
loop's side every message taken from the queue and every delivery is a step of
its own. Handlers and branches that only answer the client (wrong password,
invalid name, slot taken, ...) change nothing modelled and are no actions; their
conditions are the negations of the guards.

Replies, passwords, stats, gold and e-mail are left out. Names are the ones the
name checks let through; a position is a tile or "off the map"; `selectable`
says whether allegiance and class are among the ones served, `has_stats` whether
rows of `character_stats` refer to the character. A ban is one that has not run
out, and does not change. `PlayCharacterFails` covers the errors after the slot
is set: a failing stats query is always possible. The order of `outward_queue`
is not kept: nothing modelled depends on it. Locations are part of the
character's row.

**Presence and service.** `told` is, for each connection, the sum of what its
client was sent: who is online, who entered, the message of the day, and whether its
login was answered (`welcomed`). `login_handler` makes the session the user's before
it reads the characters and their stats; if a query raises there, `on_message` logs
it, and the client is logged in without an answer, a list, a message of the day and
an announcement (`TellLogin`). It cannot log in again, but it may play, and is then
announced as an entrant. `register_handler` has no such branch: after its commit the
only read is `get_by_user_id` with `included_tables::all`, which makes no query (and
is given the id of an empty optional, `register_handler.cpp:133`, which it does not
look at). The properties are therefore about clients whose login was answered and who
are still connected (`Informed`). `ClientCloses` is a client's close, at any time;
`Forget` is the end of `on_close`, after which a view means nothing. Nothing is
ever taken out of a view before, since `Auth:leave` is never sent: `on_close` looks for
another connection of the user while its own is still in the map
(`uws_thread.cpp:216`). `OnlineKnown` therefore says who must be known and
nothing of who must be forgotten. In `Service`, `main` and `thread` are where the
two threads are; `server` is the life of `rair_server`, a local of the websocket
thread that `s_handle.s` points to. A round of the loop is its look at `quit`
(`NextRound`), the sleep, the tick (`BeginTick`, `EndTick`) and the deliveries
(`Send`, `Sent`): the thread can end anywhere between them, so a tick may begin on a
server that is gone, while a round does not. `UseHandle` lets the program crash where it
uses a destroyed server, since a late delivery and the final `stop()` can.

**Tables.** `db` is what is committed and `work` what the open transaction sees;
`tx` is where the transaction of a handler stands. One transaction is open at a
time, since only the websocket thread uses the repositories. The queries no
handler runs are run in transactions of one statement. A `SELECT` without
`ORDER BY` answers with any of its rows. Columns no property tells apart are
merged. Constraints are checked at each statement; the ids a sequence gave do not
come back when a transaction is left.

**Messages, chat.** A document is a function from keys to values; a class is its
type string, its keys and how nested objects are read. `Whole` documents are those
of this version of the server; `LeaveOut` makes the ones an other version would
write. A `uint32` keeps its width (`UintSize`), as `character_object` writes
stats as `int64` and reads them with `GetUint`. `Dictionary` is a sequence: the
order the hash map of the filter happens to have.

**NPCs.** The loader goes file by file and object by object; an object keeps the
spawner script that was made for it, which may be a copy out of
`spawner_script_cache`. The registry visits maps in an order of its own, so each
loaded map is put anywhere among the others. A draw is any choice the generator
can make. One map at a time is ticked. `driven` and `targets` are history: the AI
has run on the NPC, and it had a target. The undefined write of
`fill_spawners` goes through `end()` of an empty map, which is a field of the map
nothing reads any more, so the model has no effect of it but the missing entry:
nothing ever respawns. The ids of the NPCs under `assets/npcs` are taken to be
distinct, and no object whose script file is missing has a `resourceName`, as in
the assets: the code would write through an empty optional there.

**Pool.** A scan that finds nothing is no step.

**Search.** `AStar` takes one turn of the `while` loop as a step, since the
neighbours of one tile do not influence each other. `phase` tells the search from
the walk; `came_from` and `cost_so_far` are the two hash maps, `frontier` is the
priority queue as a set of pairs, in which no pair occurs twice. The walk starts
only from a goal that was reached. It overwrites the entry of the goal, as the
code does through its reference. Paths are not claimed to be shortest: the cost
of a new tile is 1 whatever the way to it (`a_star.cpp:107`).

**Field of view.** `Fov` takes each tile that is looked at as a step, and each end
of a line. Both octants are the same actions, in coordinates (line, cell); they
differ in `TileAt` and in the second `++idx` of the horizontal one
(`fov.cpp:225`). The bitset is the set of tiles that are set in it. Slopes are
integers, in units of 1/48, so that the four lines there are have exact ones; the
doubles of the code compare in the same way but for one, the end of cell 2 in
line 3, which rounds to the double below the start of cell 3 (`EndSlope`).
`fov_max_distance` is 4 in the code, and `SlopesExact` says that the model is not
about more.

External code: `moodycamel::ConcurrentQueue` (order of each producer, nothing
across), PostgreSQL (constraints of `init.sql`, transactions, sequences),
rapidjson (documents).

## 3. What is checked

| run | instance | properties |
|---|---|---|
| `sessions` | 3 connections, 2 users, 1 slot, both characters of the same name, at most 2 queued | `SlotExclusive`, `OneCharacterEach`, `NoGhosts`, `LeavesAreStale`, `NoEviction`, `GhostsLeave`, `ImplementsWorldEntry` |
| `accounts` | 2 connections, 3 users (one new, one banned), 2 slots, 2 names, no base stats so that characters can be deleted | `PlayedRowKept` |
| `moves` | 2 connections, 1 user with a character on a wall and one off the map, moves to a floor and a wall, at most 3 queued | `MovesKept`, `OldPlayerLeavesFirst`, `EnterAnswered` |
| `service` | 2 connections, 3 users (a game master, a new one, a banned one), a query of a login that raises, a client that closes, an interrupt or an exception at any time | `OnlineKnown`, `MotdAgreed`, `EntrantsKnown`, `ThreadJoined`, `NoRoundOnDeadServer`, `QuitEnds` |
| `tables` | 2 user names, 2 slots, 2 names, 1 base stat, 1 id for users and 2 for each other table, a clock of 2 instants | `NothingHalf`, `ReadsAgree`, `IdentityKept`, `BansHold` |
| `wire` | all 21 classes, samples of each, a `uint` of 16 values; phrases of up to 4 characters, 3 words that overlap, 3 tiers | `RoundTrip`, `NoMixUp`, `IncompleteRefused`, `FilterHolds` |
| `npcs` | 3 pairs out of 3 map files, one script shared by three objects, 4 kinds of NPC, 2 players | `NearHome`, `KeepsTicking`, `SpawnsItsOwn`, `Populated` |
| `pool` | 3 threads, 3 connections | `NoSharedLease`, `ReleaseNeverThrows`, `OneLeft`, `SomeoneServed` |
| `a_star` | every layout of walls on 3 x 3 tiles, every start and goal | `StepsPossible`, `NoCircle`, `NothingMissed`, `WayBack`, `Ends` |
| `fov` | 5 x 5 tiles, at most 3 opaque or a ring with at most one hole, reach 4, the player in a corner or in the middle, walls lit or not | `WallsHide`, `OpenViewSeen` |
| `delete` (violation) | a created character with base stats | `FreeCharacterDeletable` |
| `fov_lookup` (violation) | as `fov`, at most 1 opaque | `ShownIfSeen` |

The type invariants of the modules with proofs are theorems, or parts of the
inductive invariants, and no run spends time on them.

Bounds. `MaxConnections` bounds the connections ever opened; three let one
connection close while a second of the same user, and a third of another user
with the same character name, are about. `MaxQueued` bounds the queue for moves
only: play, close and the loop's own leaves are never held back. Two slots are
needed where a user plays one and deletes another, one elsewhere. The tiles are
a start, a floor and a wall: the code distinguishes walkable, not walkable and
outside. `EnterAnswered` is checked where clients move, so that the drain can go on
for as long as they like. In `service` two connections let one client log in, play or change the
message of the day while another connects, is turned away, breaks off its login or
closes, in every order against the end of the program. In `tables` two ids let a row be deleted
and another of the same key be made, and two characters of a user be read at
once; `MaxId` and `MaxNow` stop the sequences and the clock. In `wire` every
class is read by every class, each key is left out once, and the values of each
kind include the largest and, where the code writes signed numbers, negative
ones; of the words of the dictionary one lies inside of another and two overlap,
which four characters are enough to show. In `npcs` two objects of one
map and one of another share a script, one object stands in a wall, one replaces
another, a map lacks a layer, and kinds of NPC lack a sprite, are dead at birth
or always hostile; radii of 1 and 2 leave tiles on either side of each limit.
Three threads are needed in the pool for one to wait while another
gives back and a third is inside its destructor. Nine tiles hold one whose nine
neighbours are all walkable, walls around corners, and goals shut off. The field
of view has the reach of the code, and a corner from which a whole quadrant of that
reach is on the map. With three opaque tiles an octant has obstacles of several
former lines at once, which are extended and passed over; the ring is what it takes
to shut the corner in. A shorter reach would not do: at 3 a stronger `WallsHide`
holds that is false at 4 (below).

Fairness. The loop never blocks for good: weak fairness of `LoopNext`.
`on_close` goes on to erase: weak fairness of `OnCloseErase`. The drain ends
when `try_dequeue` finds the queue empty; other messages may arrive just then,
so the end of the drain gets strong fairness: `try_dequeue` sees the empty queue
if it is empty again and again. No client is ever made to act.
`EnterAnswered` has the premise `ClientsPause`: the code has no bound on the
drain, and moves that arrive as fast as they are handled keep a tick from its
deliveries for ever; without the premise the clients of `moves` violate it. It is about maps that are loaded: an enter for another map
is dropped without an answer (`player_enter_handler.cpp:54`). In `Service` both
threads are scheduled, and the deliveries of a tick come to an end (`Sent`),
since nothing is added to `outward_queue` meanwhile. That loading ends, and that each
tick does, is not assumed: the drain has no bound (`main.cpp:136`), and `create_npc`
and a wandering creature draw until a draw is good (`logic_helpers.cpp:57`,
`default_ai.cpp:172`). `QuitEnds` has it as a premise instead, `WorkEnds`. Nobody has to interrupt the
program, and no client has to do anything. In the pool, a thread goes on with
what it does once it has called `create_transaction`; nobody must call it. In
`AStar` the one thread there is goes on. A thread that waits for a connection
competes with others, so only `SomeoneServed` is claimed, and not that each
waiting thread is served.

Deadlock. The server's runs check it, and so do `tables` and `wire`; those models
never stop. `Service` may stop because the program ends, and so may `Npcs` after
an interrupt. `DatabasePool` may stop: when the process was terminated. `AStar`
stops at the end of the walk, or of a search without result, `Fov` when it
returns.

Findings.

- `delete`: no character made by the server can be deleted, since its rows in
  `character_stats` refer to it and nothing deletes those.
- `fov_lookup`: `is_visible` looks a creature up at the mirror image of its
  column. A player at the left edge is shown nothing that stands to its right.

What else the models show, and no text of the repository denies:

- An enter message for a map that is not loaded is dropped and the client waits,
  its slot taken.
- The flag of a pool entry says "in use" of entries nobody uses; the pool shrinks
  to one connection at its first transaction, which `OneLeft` shows is kept.
- In the pool, with two threads and more the process can terminate: the
  destructor of a transaction releases before its work is destroyed. The server
  uses the pool from one thread, and for that `OneThreadNeverTerminates` is
  proved.
- Nobody is told that a user left, and no NPC is ever born after loading.
- A map without a Spawners layer empties the maps the registry has after it.
- Lists of characters with their locations, and of locations, hold the first
  location several times; an update of one ban replaces all of them.
- `insert_or_update_character` on a taken slot overwrites the character there but
  for its name.
- Chat masks only the first occurrence of a word.
- After an exception in `run()` the round under way goes on: it may sleep and then
  begin its tick, and its deliveries, and the `stop()` at the end, use a server that
  is gone.
- A login whose queries raise leaves the client logged in without an answer: it can
  play, unannounced, and is refused when it tries to log in again.
- The view is not symmetric along x and y, even on a map that is: the horizontal
  octant passes over obstacles (`fov.cpp:225`).
- It is not always a tile of the line before that one sees past. With (2,1) and (3,3)
  opaque, a player at (0,0) sees (4,4): the horizontal octant takes (3,4) of the same
  ring, which the vertical octant has seen, for a tile of its own former line, and the
  second `++idx` passes over the obstacle that (3,3) is. `SeenThroughOpen` therefore
  asks for a tile that is nearer in steps along the axes.
- A word of the dictionary with a star in it may come through though it was said once:
  `*b` in `*bb` is masked to `**b`. The dictionary is part of the assets, which are not
  in this repository; that its words have no stars is a hypothesis (`Starless`).

## 4. What is proved

All safety properties the runs check are theorems, for every value of the constants
that the assumptions named here allow. Each rests on an inductive invariant; what the
invariant adds to the property is the argument.

**Server** (`GameServerProofs`), every number of connections, users, slots, names,
maps, tiles and every initial content of the tables, under `StateAssumption` and
`UwsAssumption`:

- `TypeCorrect`: `Spec => []TypeOK`.
- `SlotsExclusive`: `Spec => []SlotExclusive`. The inductive invariant `SlotInv`
  adds that who plays is logged in and that a played slot has a row.
- `NobodyLeftBehind`, `NobodyTwice`, `LeavesStale`: `NoGhosts`,
  `OneCharacterEach`, `LeavesAreStale`. None is inductive alone. `WorldInv`
  follows the stream of the websocket thread: for one connection it is an enter,
  moves, a leave, in this order (`StreamOrder`); the loop knows nothing of a
  connection whose enter still waits (`EnterFirst`), so it cannot write a leave
  for it; connections that play nothing occur nowhere (`FreshSilent`), and ids
  that were never given out neither (`IdsUsed`).
- `NobodyEvicted`: the action property `NoEviction`, from `LeavesAreStale`.
- `PlayedRowsKept`: `PlayedRowKept`, with `NamesMatch`: the name in a queued
  enter is the name of the row its connection plays.
- `MovesAreKept`: `MovesKept`. The property speaks of the messages still queued for a
  connection; the invariant `MovesInv` says the same of positions in the stream: the
  last message that places a connection asks for what `asked` says, and where there is
  none its player stands there.
- `OldPlayersLeaveFirst`: `OldPlayerLeavesFirst`, under the hypothesis `[]PlayedApart`,
  that no name is played on two connections at a time. It is needed: nothing in the
  tables keeps two users from having characters of one name, and of two such players
  who are connected the second is turned away with no leave before it, which is what
  `player_enter_handler` means to do. `NobodyTurnedAway` derives the hypothesis from
  names that are distinct in the tables (`[]NamesApart`), which is how `moves` sets them
  up, through `SlotsExclusive`.
- `EntryPromiseKept`: the safety half of `ImplementsWorldEntry`. Under `WorldInv` each
  step of the server changes what `WorldEntry` sees of one connection at most (`Same`,
  `OthersSame`), and that as one of its actions does. `StreamOrder` is why who was
  answered does not wait for a second answer, `LoopLeaves` and `UwsLeaves` why only
  who went is taken out.

**The program and its clients** (`ServiceProofs`), any number of connections and users,
also under `PresenceAssumption`:

- `AlwaysJoined`, `RoundsOnLiveServer`: `ThreadJoined`, `NoRoundOnDeadServer`.
  `LifeInv` places the two threads against each other: main starts before the
  thread, and whatever takes the thread out of its `run()`, the stop main asked
  for or an exception, has set `quit` before the server is destroyed.
- `EveryoneKnown`, `SameMotd`, `EntrantsAnnounced`: `OnlineKnown`, `MotdAgreed`,
  `EntrantsKnown`. `ClientsInv` adds `AnsweredLogins`: a client whose login was
  answered has a user and a connection in the map, so that no one logs in, breaking
  off or not, on a connection whose user others were told of. Steps that answer no
  login keep all of it (`QuietStep`).

**Tables** (`TablesProofs`), any users, slots, names, stats and bounds, under
`TablesAssumption`:

- `NothingIsHalf`, `IdentitiesKept`, `BansAreKept`, `ReadsAgreeAlways`: `NothingHalf`,
  `IdentityKept`, `BansHold`, `ReadsAgree`, and `TypeCorrect`. `TablesInv` holds of the
  committed tables and of those the transaction sees alike: the constraints, ids below
  their sequences and no id twice, all base stats of a character whose creation has got
  that far (`Filled`). Between the two, a row of one and a row of the other with the same
  id are the same character or stat (`SameRows`), and no ban is lost but by the
  update that replaces them all (`BansStay`). `ReadsAgree` follows from the constraints:
  each of its queries selects by what is unique.

**Messages and filter** (`WireProofs`), any sample messages whose members have the types
of the headers (`SamplesAssumption`), any phrases (`PhrasesAssumption`), any width of an
integer, any dictionary:

- `RoundTrips`, `NobodyMixesUp`, `PartsAreRefused`: `RoundTrip`, `NoMixUp`,
  `IncompleteRefused`. `WireInv` keeps what is under way: the document is what
  `serialize` wrote or a part of it, what was received is what `deserialize` makes of
  it, and what was said is still what is sent.
- `FilterIsKept`: `FilterHolds`, where no word of the dictionary has a star (`Starless`;
  section 3 has what happens otherwise). The lemma is `Passing`: as the words of the
  dictionary are gone through, in whatever order, each character stays or becomes a
  star, so no word comes up that was not there, and what was masked stays masked.

**NPCs** (`NpcsProofs`), any map files, scripts, registry order and players, under
`NpcsAssumption`:

- `NpcsStayHome`, `OwnNpcsOnly`: `NearHome`, `SpawnsItsOwn`. `NpcsInv` says of each
  script in a map or in the cache which file and which object it is from, of each NPC
  which object of which map it was created for, and that ids tell NPCs apart.
- `EveryoneIsThere`: `Populated`. `CountOK` counts, for each object, the NPCs there are
  and the rounds still to come; before the registry visits a map there are none.
- `TheLoopKeepsTicking`: `KeepsTicking`, under the hypothesis `Roomy`: every object has a
  free tile on or next to its own, and every kind of NPC has a move stat. `create_npc`
  loops for ever, and `run_ai_on` divides by zero, where it does not hold; the maps of
  `npcs` satisfy it.

**Pool** (`DatabasePoolProofs`), any number of threads and connections:
`LeasesExclusive`, `ReleaseSafe`, `OneIsLeft` (`NoSharedLease`, `ReleaseNeverThrows`,
`OneLeft`); and `OneThreadNeverTerminates` for one thread.

**Search** (`TileProofs`), maps of any size and any walls: `StepsArePossible`,
`NeverInACircle`, `NothingIsMissed`, `WalkComesBack` and its `TypeCorrect`. The
inductive invariant `IInv` adds that no tile is reached from the goal
(`GoalNotExpanded`), which is why the walk may use the goal's entry as its
cursor; that a reached tile waits on the frontier or has all its walkable
neighbours reached (`FrontierBetween`); and where the cursor is (`WayToCursor`).
The lemma they rest on is `ImprovedIsNew`: a reached tile is never entered again.

**Field of view** (`TileProofs`), maps of any size, any layout of what is opaque, any
place of the player, a reach of up to 4:

- `NoWallSeenThrough`: `WallsHide`. Once there are obstacles the code itself asks for a
  tile of the former line that can be looked through; before there are any it does not,
  and `EdgeOK` is why nothing is missed: whatever is not seen, or is opaque, ends below
  the edge of the view, which the next line begins behind.
- `OpenViewIsSeen`: `OpenViewSeen`. `ViewInv` follows the cells with nothing in the way
  (`Unblocked`) that are still to be looked at. Whatever is opaque before one is beside
  the rectangle, so that its obstacle begins behind the cell (`ShadowsBehind`) and stays
  there when an open cell extends it, the cells in the rectangle being extended by
  nobody; for the same reason the edge of the view stays where it began (`EdgeStays`),
  and in each line on the way some cell is seen, so the octant goes on (`GoesOn`). At its
  end all of them are seen, and the second octant unsets none.

Induction. Folds and recursive functions of the models (the objects of a file, the words
of the dictionary, the steps of an NPC, the obstacles of a line) are proved about without
a principle that has an operator as its parameter: every set of naturals that is not
empty has a least element (`LeastNatural`, from `NatLessThanWellFounded` and `WFMin`), so
a claim that fails for some number of steps fails for a first one. Each such claim is
made for the function at hand (`Folding`, `Passing`, `Reached`).

Only model-checked: liveness, which is out of the prover's reach (`GhostsLeave`,
`EnterAnswered`, `QuitEnds`, `SomeoneServed`, `Ends`, and the fairness of `WorldEntry` in
`ImplementsWorldEntry`), and the two violations.

## 5. Not modelled

- Random numbers: a draw is a choice. Containers: a hash map is a function.
  Configuration, logging, the working directory: plain input and output; that it
  fails is one of the ways `main` ends early in `Service`.
- `clean_profanity`, which only a test calls: its replace gets a range that ends
  before it begins.
- The reading of YAML and JSON files, items, and the character selection: records
  that are read once and, the selection apart, used by no module of the server.
- `move_npc_along_path`: no creature of the running server has paths, since
  `create_npc` sets none. The walk of an interrupted path is in `AStar`.
- What a map update lists: `main` puts it together from the field of view of each
  player with bounds of its own (`main.cpp:158`); where an unsigned lower one wraps,
  `is_visible` takes it as the negative number it stands for. `is_visible` is modelled
  on its own.
- The arrays of obstacles of the field of view: a seventh of the tiles of a map
  (`fov.cpp:272`), which four opaque tiles on a map of 25 can overrun. `Fov` has them
  without a bound. The layouts of `fov` keep within them, and a map of 98 tiles has
  room for every cell of an octant. A map without a walls or an opaque layer, for
  which nothing is computed (`fov.cpp:284`), is left out.
- Text: a string with a NUL in it is cut there when it is read with `GetString()`.
  Debug builds: rapidjson asserts where it otherwise gives null for a member that is
  missing, as `online_users` of a login's answer can be; the model has the latter.
- Tables of `init.sql` no query touches, escaping, and the case that `CITEXT`
  ignores.
- Retries: there are none in the code. The timeouts of websocketpp
  (`uws_thread.cpp:292`) end a handshake that does not complete, with `on_fail`, which
  changes nothing modelled, or with `on_close`, which is possible at any time; a client
  that vanishes is an `on_close`. A crash loses sessions and world together, and the
  database keeps what was committed, which is what `NothingHalf` and `IdentityKept`
  are about.

What could follow: the map update composed from `Fov`, `Npcs` and the players, with the
bounds `main` computes; the moving of NPCs along a path, once the server gives them one.
