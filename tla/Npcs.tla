--------------------------------- MODULE Npcs ---------------------------------
(***************************************************************************)
(* Maps, spawners and NPCs: load_assets reads the map files, builds a      *)
(* spawner for each object of the Spawners and the NPCs layer, and creates *)
(* the first NPCs; then every tick of the game loop, map by map, drops the *)
(* dead, fills the spawners and runs the AI of each NPC.                   *)
(*                                                                         *)
(* A map file is a record of the walkable tiles, the layers it has and its *)
(* objects; a script file is what get_spawner_script reads of it.  A       *)
(* random choice is any choice the generator can make.  What NPCs look     *)
(* like and carry is left out; hp, max_hp and move are the stats the code  *)
(* looks at.  lacks says what an NPC cannot be created without.            *)
(* npc.paths is always empty, as create_npc leaves it.                     *)
(***************************************************************************)
EXTENDS Integers, Sequences, FiniteSets, FiniteSetsExt, Functions, SequencesExt

CONSTANTS
  MapFileLists, \* the lists of map files the loader may find
  Scripts,      \* name of a script file -> its contents, for those that exist
  GlobalNpcs,   \* the NPCs of assets/npcs
  Players,
  UintSize,     \* bound: 2^32 in the code
  nullopt,
  Nowhere       \* where a player is who is on another map

Tiles == Int \X Int

MapFiles == UNION {Range(list) : list \in MapFileLists}

ASSUME NpcsAssumption ==
  /\ UintSize \in Nat \ {0}
  /\ \A list \in MapFileLists : list \in Seq(Range(list))
  /\ \A file \in MapFiles : /\ file.walkable \subseteq Tiles
                            /\ file.objects \in Seq(Range(file.objects))
                            /\ \A object \in Range(file.objects) : object.at \in Tiles
  /\ \A name \in DOMAIN Scripts :
       LET tree == Scripts[name]
       IN  /\ {tree.initialSpawn, tree.maxCreatures, tree.spawnRadius,
               tree.randomWalkRadius, tree.leashRadius} \subseteq Nat
           /\ tree.npcIds \in Seq(Range(tree.npcIds))
  /\ \A kind \in GlobalNpcs : kind.move \in Nat
  /\ nullopt \notin {"sprite", "stat"}

VARIABLES
  files,        \* the map files still to be loaded
  maps,         \* the map_components, in the order they are visited
  global_npcs,  \* the global_npc_components
  spawner_script_cache, spawner_id_counter,
  npcs,         \* every npc_component, with its map
  npc_id_counter,
  quit,
  phase,        \* what the main thread does
  unvisited,    \* spawning: the maps not visited yet
  todo,         \* the NPCs to create, or to run the AI of
  here,         \* ticking: the map
  player_location_map  \* ticking: where the players are

loadVars == <<files, maps, global_npcs, spawner_script_cache, spawner_id_counter>>
vars == <<loadVars, npcs, npc_id_counter, quit, phase, unvisited, todo, here,
          player_location_map>>

-----------------------------------------------------------------------------
\* load_map: from the objects of a file to spawners.
stat_default == 10

\* The NPC of an object of the NPCs layer: every stat is 10, no hostility.
TownNpc(name) == [npc_id |-> name, lacks |-> nullopt, hostility |-> "",
                  hp |-> stat_default, max_hp |-> stat_default, move |-> stat_default]

\* A leash radius of -1 in an unsigned integer.
create_spawner_script_for_npc(object, id) ==
  [id |-> id, loc |-> object.at, initial_spawn |-> 1, max_creatures |-> 1,
   spawn_radius |-> 0, random_walk_radius |-> 0, leash_radius |-> UintSize - 1,
   npc_ids |-> <<TownNpc(object.name)>>]

\* The NPCs with this id; ids are taken to be distinct.
get_global_npc_by_npc_id(known, id) == {npc \in known : npc.npc_id = id}

\* Names not known yet are left out, and stay out: the script is cached.
Known(known, ids) ==
  FoldLeft(LAMBDA found, id :
             LET npc == get_global_npc_by_npc_id(known, id)
             IN  IF npc = {} THEN found ELSE Append(found, CHOOSE n \in npc : TRUE),
           <<>>, ids)

get_spawner_script(file, at, id, known) ==
  IF file \notin DOMAIN Scripts
    THEN nullopt
    ELSE LET tree == Scripts[file]
         IN  [id |-> id, loc |-> at, initial_spawn |-> tree.initialSpawn,
              max_creatures |-> tree.maxCreatures, spawn_radius |-> tree.spawnRadius,
              random_walk_radius |-> tree.randomWalkRadius, leash_radius |-> tree.leashRadius,
              npc_ids |-> Known(known, tree.npcIds)]

\* Mutant of FromCache: the location of the first object stays.
FromCacheAsIs(script, at) == script

\* A cached script is copied; only its location is changed, its id is shared.
FromCache(script, at) == IF script = nullopt THEN nullopt ELSE [script EXCEPT !.loc = at]

\* The NPC named by the object's own resourceName, for its copy of the script.
WithResource(script, resource, known) ==
  IF script = nullopt \/ resource = nullopt THEN script
  ELSE [script EXCEPT !.npc_ids = @ \o Known(known, <<resource>>)]

\* Mutant of Cached: the script is cached with the first object's own NPC.
CachedWithResource(fresh, used) == used

\* What goes into spawner_script_cache for the next object with this script.
Cached(fresh, used) == fresh

\* One object of a layer: s holds the cache, the counter and the objects so far.
\* An object on the tile of an earlier one of its layer replaces it.
PutObject(s, object, known) ==
  LET cached == object.script \in DOMAIN s.cache
      fresh == get_spawner_script(object.script, object.at, s.counter, known)
      used == WithResource(IF cached THEN FromCache(s.cache[object.script], object.at)
                                     ELSE fresh,
                           object.resource, known)
      script == CASE object.layer = "NPCs" -> create_spawner_script_for_npc(object, s.counter)
                  [] object.layer = "Spawners" /\ object.script # nullopt -> used
                  [] OTHER -> nullopt
      read == object.layer = "Spawners" /\ object.script # nullopt /\ ~cached
  IN  [cache |-> IF read
                   THEN [f \in DOMAIN s.cache \cup {object.script} |->
                           IF f = object.script THEN Cached(fresh, used) ELSE s.cache[f]]
                   ELSE s.cache,
       counter |-> IF object.layer = "NPCs" \/ (read /\ fresh # nullopt)
                     THEN s.counter + 1 ELSE s.counter,
       objects |-> {o \in s.objects : o.layer # object.layer \/ o.at # object.at}
                     \cup {[layer |-> object.layer, at |-> object.at, gid |-> object.gid,
                            name |-> object.name, script |-> script]}]

load_map_from_file(file) ==
  FoldLeft(LAMBDA s, object : PutObject(s, object, global_npcs),
           [cache |-> spawner_script_cache, counter |-> spawner_id_counter, objects |-> {}],
           file.objects)

\* An object creates NPCs.
Spawns(object) == /\ object.gid # 0
                  /\ object.script # nullopt
                  /\ object.script.initial_spawn > 0
                  /\ object.script.max_creatures > 0
                  /\ object.script.npc_ids # <<>>

Of(map, layer) == {o \in map.objects : o.layer = layer /\ Spawns(o)}

-----------------------------------------------------------------------------
\* load_assets.  The order a registry view visits the maps in is the registry's:
\* any order of the files.
Init == /\ files \in MapFileLists
        /\ maps = <<>>
        /\ global_npcs = GlobalNpcs
        /\ spawner_script_cache = <<>>
        /\ spawner_id_counter = 0
        /\ npcs = {}
        /\ npc_id_counter = 0
        /\ quit = FALSE
        /\ phase = "loading"
        /\ unvisited = <<>>
        /\ todo = {}
        /\ here = 0
        /\ player_location_map = [p \in Players |-> Nowhere]

tickVars == <<here, player_location_map>>

\* The next file: its NPCs become global NPCs, for the files after it.
LoadMap ==
  /\ phase = "loading" /\ files # <<>>
  /\ files' = Tail(files)
  /\ IF quit
       THEN UNCHANGED <<maps, global_npcs, spawner_script_cache, spawner_id_counter>>
       ELSE LET s == load_map_from_file(Head(files))
                map == [walkable |-> Head(files).walkable, layers |-> Head(files).layers,
                        objects |-> s.objects]
            IN  /\ spawner_script_cache' = s.cache
                /\ spawner_id_counter' = s.counter
                /\ global_npcs' = global_npcs \cup {TownNpc(o.name) : o \in Of(map, "NPCs")}
                /\ \E i \in 1 .. Len(maps) + 1 : maps' = InsertAt(maps, i, map)
  /\ UNCHANGED <<npcs, npc_id_counter, quit, phase, unvisited, todo, tickVars>>

AllLoaded ==
  /\ phase = "loading" /\ files = <<>>
  /\ phase' = "Spawners"
  /\ unvisited' = [i \in DOMAIN maps |-> i]
  /\ UNCHANGED <<loadVars, npcs, npc_id_counter, quit, todo, tickVars>>

Spawning == phase \in {"Spawners", "NPCs"}

\* Mutant of Times: one round too many.
TimesInclusive(layer, script) == IF layer = "Spawners" THEN 0 .. script.initial_spawn ELSE {0}

\* The rounds of the loop over an object; one for an object of the NPCs layer.
Times(layer, script) == IF layer = "Spawners" THEN 0 .. script.initial_spawn - 1 ELSE {0}

\* The next map.  Where the layer is missing, load_assets returns: the maps after
\* this one stay without NPCs, and the NPCs layers are not looked at either.
VisitMap ==
  /\ Spawning /\ todo = {} /\ unvisited # <<>>
  /\ IF quit \/ phase \notin maps[Head(unvisited)].layers
       THEN phase' = "loaded" /\ UNCHANGED <<unvisited, todo>>
       ELSE /\ todo' = UNION {[map : {Head(unvisited)}, object : {o},
                               round : Times(phase, o.script)] :
                                o \in Of(maps[Head(unvisited)], phase)}
            /\ unvisited' = Tail(unvisited)
            /\ UNCHANGED phase
  /\ UNCHANGED <<loadVars, npcs, npc_id_counter, quit, tickVars>>

AllVisited ==
  /\ Spawning /\ todo = {} /\ unvisited = <<>>
  /\ IF phase = "Spawners"
       THEN phase' = "NPCs" /\ unvisited' = [i \in DOMAIN maps |-> i]
       ELSE phase' = "loaded" /\ UNCHANGED unvisited
  /\ UNCHANGED <<loadVars, npcs, npc_id_counter, quit, todo, tickVars>>

\* SIGINT.
Interrupt == /\ ~quit /\ quit' = TRUE
             /\ UNCHANGED <<loadVars, npcs, npc_id_counter, phase, unvisited, todo, tickVars>>

-----------------------------------------------------------------------------
\* create_npc
Square(at, radius) == {<<x, y>> : x \in at[1] - radius .. at[1] + radius,
                                  y \in at[2] - radius .. at[2] + radius}

\* Where create_npc may put an NPC; its loop does not end where this is empty.
SpawnTiles(map, script) ==
  IF script.spawn_radius > 0 THEN Square(script.loc, script.spawn_radius) \cap map.walkable
                             ELSE {script.loc}

\* The NPCs layer takes the first of the list, a spawner any of it.
Drawn(request) ==
  IF phase = "NPCs" THEN {Head(request.object.script.npc_ids)}
                    ELSE Range(request.object.script.npc_ids)

Npc(request, kind, at) ==
  [id |-> npc_id_counter, map |-> request.map, npc_id |-> kind.npc_id,
   hostility |-> kind.hostility, hp |-> kind.hp, max_hp |-> kind.max_hp, move |-> kind.move,
   loc |-> at, object |-> request.object, driven |-> FALSE, targets |-> FALSE]

Creating == Spawning \/ phase = "filling"

\* One NPC; the order within a layer makes no difference but to the ids.
CreateNpc ==
  /\ Creating /\ todo # {}
  /\ LET request == CHOOSE r \in todo : TRUE
         tiles == SpawnTiles(maps[request.map], request.object.script)
     IN  /\ todo' = todo \ {request}
         /\ \E kind \in Drawn(request) :
              IF kind.lacks = "sprite"
                THEN UNCHANGED <<npcs, npc_id_counter, phase>>
              ELSE IF tiles = {}
                THEN phase' = "stuck" /\ UNCHANGED <<npcs, npc_id_counter>>
              ELSE /\ npc_id_counter' = npc_id_counter + 1
                   /\ IF kind.lacks = "stat"
                        THEN UNCHANGED npcs
                        ELSE \E at \in tiles : npcs' = npcs \cup {Npc(request, kind, at)}
                   /\ UNCHANGED phase
  /\ UNCHANGED <<loadVars, quit, unvisited, tickVars>>

-----------------------------------------------------------------------------
\* One map of a tick of the game loop.
On(i) == {npc \in npcs : npc.map = i}

remove_dead_npcs(some) == {npc \in some : npc.hp > 0}

\* The loop of fill_spawners that counts.  The test is the wrong way round: an
\* entry is only written where there is one, and where there is none the count
\* goes through end(), which of robin_hood's empty map is a field of the map itself
\* that nothing reads any more.  So there never is an entry.
CountNpc(counter, npc) ==
  LET script == npc.object.script
  IN  IF script.id \in DOMAIN counter THEN [counter EXCEPT ![script.id] = <<1, npc.object>>]
                                      ELSE counter

spawner_npc_counter(some) == FoldSet(LAMBDA npc, counter : CountNpc(counter, npc), <<>>, some)

\* What fill_spawners creates: one NPC for each spawner that has too few.
Missing(i, some) ==
  LET counter == spawner_npc_counter(remove_dead_npcs(some))
  IN  {[map |-> i, object |-> counter[id][2], round |-> 0] :
         id \in {k \in DOMAIN counter :
                  counter[k][1] < counter[k][2].script.max_creatures}}

BeginTick(i) ==
  /\ phase \in {"loaded", "idle"}
  /\ ~quit
  /\ phase' = "filling"
  /\ here' = i
  /\ player_location_map' \in [Players -> maps[i].walkable \cup {Nowhere}]
  /\ npcs' = npcs \ (On(i) \ remove_dead_npcs(On(i)))
  /\ todo' = Missing(i, On(i))
  /\ UNCHANGED <<loadVars, npc_id_counter, quit, unvisited>>

StartAi == /\ phase = "filling" /\ todo = {}
           /\ phase' = "ai"
           /\ todo' = {npc.id : npc \in On(here)}
           /\ UNCHANGED <<loadVars, npcs, npc_id_counter, quit, unvisited, tickVars>>

EndTick == /\ phase = "ai" /\ todo = {}
           /\ phase' = "idle"
           /\ here' = 0
           /\ player_location_map' = [p \in Players |-> Nowhere]
           /\ UNCHANGED <<loadVars, npcs, npc_id_counter, quit, unvisited, todo>>

-----------------------------------------------------------------------------
\* run_ai_on
hostility_never == "always"
hostility_on_hit == "onHit"
target_radius == 4
leash_slack == 4

\* The distance, rounded down as the conversion to an integer does.
distance_between(a, b) ==
  LET square == (b[1] - a[1]) * (b[1] - a[1]) + (b[2] - a[2]) * (b[2] - a[2])
  IN  CHOOSE d \in 0 .. square : d * d <= square /\ (d + 1) * (d + 1) > square

get_players_in_range(at) ==
  {p \in Players : /\ player_location_map[p] # Nowhere
                   /\ player_location_map[p] \in Square(at, target_radius)}

\* There is a target: a player is on the NPC's tile, and of those in range one is
\* drawn, but never the last one.  agro_target is null.
HasTarget(npc) ==
  /\ npc.hostility # hostility_on_hit
  /\ \E p \in Players : player_location_map[p] = npc.loc
  /\ Cardinality(get_players_in_range(npc.loc)) > 1

\* Mutant of StepsFrom: a step leads to another tile.
StepsAway(map, at) == (Square(at, 1) \ {at}) \cap map.walkable

\* The tiles one turn of the loop that wanders may reach.
StepsFrom(map, at) == Square(at, 1) \cap map.walkable

\* Where num_steps steps may end; nowhere if the NPC is walled in, and then the
\* loop does not end.
Reach(map, at, num_steps) ==
  LET reach[k \in 0 .. num_steps] ==
        IF k = 0 THEN {at} ELSE UNION {StepsFrom(map, t) : t \in reach[k - 1]}
  IN  reach[num_steps]

\* The NPC is sent back.
TooFar(npc, distance, target) ==
  \/ ~target /\ distance > npc.object.script.random_walk_radius
  \/ distance > npc.object.script.leash_radius

\* The end of run_ai_on.  leash_radius + 4 is computed in 32 bits.
Leashed(npc, at, target) ==
  LET script == npc.object.script
      distance == distance_between(at, script.loc)
      there == [npc EXCEPT !.loc = at, !.driven = TRUE, !.targets = target]
      home == [there EXCEPT !.loc = script.loc]
  IN  IF ~TooFar(npc, distance, target) THEN there
      ELSE IF distance > (script.leash_radius + leash_slack) % UintSize
             THEN [home EXCEPT !.hp = npc.max_hp]
             ELSE home

Becomes(npc, new) == npcs' = (npcs \ {npc}) \cup {new} /\ UNCHANGED phase

\* A draw below 0 divides by zero, and the process dies.
Wander(npc) ==
  IF npc.move = 0
    THEN phase' = "crashed" /\ UNCHANGED npcs
    ELSE \E tiles \in {Reach(maps[here], npc.loc, num_steps) : num_steps \in 0 .. npc.move - 1} :
           IF tiles = {} THEN phase' = "stuck" /\ UNCHANGED npcs
                         ELSE \E at \in tiles : Becomes(npc, Leashed(npc, at, FALSE))

RunAi ==
  /\ phase = "ai" /\ todo # {}
  /\ LET npc == CHOOSE n \in npcs : n.id = Min(todo)
     IN  /\ todo' = todo \ {npc.id}
         /\ IF npc.hostility = hostility_never THEN UNCHANGED <<npcs, phase>>
            ELSE IF HasTarget(npc) /\ npc.move > 0
                   THEN Becomes(npc, Leashed(npc, npc.loc, TRUE))
                   ELSE Wander(npc)
  /\ UNCHANGED <<loadVars, npc_id_counter, quit, unvisited, tickVars>>

Next ==
  \/ LoadMap \/ AllLoaded \/ VisitMap \/ AllVisited \/ CreateNpc
  \/ Interrupt
  \/ \E i \in DOMAIN maps : BeginTick(i)
  \/ StartAi \/ RunAi \/ EndTick

Spec == Init /\ [][Next]_vars

-----------------------------------------------------------------------------
\* Where the object an NPC comes from is on its map.
Home(npc) == npc.object.at

(***************************************************************************)
(* An NPC keeps to its own object.  It stands on a tile one can walk on or *)
(* on its object's tile, within spawn_radius of it until the AI has run    *)
(* on it; from then on within random_walk_radius, and while it has a       *)
(* target within leash_radius.  The script the object's spawner was made   *)
(* from may be one that other objects, on other maps, share.               *)
(***************************************************************************)
NearHome ==
  \A npc \in npcs :
    LET script == npc.object.script
    IN  /\ npc.loc \in maps[npc.map].walkable \cup {Home(npc)}
        /\ ~npc.driven => npc.loc \in Square(Home(npc), script.spawn_radius)
        /\ npc.driven => distance_between(npc.loc, Home(npc)) <=
                           IF npc.targets THEN script.leash_radius
                                          ELSE script.random_walk_radius

\* Every object has a free tile next to it or under it, and every NPC can move.
Roomy ==
  /\ \A file \in MapFiles : \A object \in Range(file.objects) :
       Square(object.at, 1) \cap file.walkable # {}
  /\ \A kind \in GlobalNpcs : kind.move # 0

(***************************************************************************)
(* The loop keeps ticking: neither the search for a free tile at a spawner *)
(* nor the wandering of an NPC runs for ever, and no draw divides by zero, *)
(* where the maps leave every spawner a free tile next to it and every NPC *)
(* has a move stat (Roomy).  An NPC may come to stand where nothing is free only   *)
(* by being sent back to a tile that never had a neighbour.                *)
(***************************************************************************)
KeepsTicking == phase \notin {"stuck", "crashed"}

\* What the script file of the object and its resourceName name.
Named(map_object, file_object) ==
  Range(Scripts[file_object.script].npcIds) \cup {file_object.resource}

(***************************************************************************)
(* A spawner spawns its own: the NPCs its script file names and the one    *)
(* its own object names, never one named by another object with the same   *)
(* script.  The cache holds the script as it was before the object's own   *)
(* NPC was added.                                                          *)
(***************************************************************************)
SpawnsItsOwn ==
  \A npc \in npcs :
    npc.object.layer = "Spawners" =>
      \E list \in MapFileLists : \E file \in Range(list) :
        \E o \in Range(file.objects) :
          /\ file.walkable = maps[npc.map].walkable
          /\ o.layer = "Spawners" /\ o.at = Home(npc) /\ o.name = npc.object.name
          /\ npc.npc_id \in Named(npc.object, o)

Born(i, object) == Cardinality({npc \in On(i) : npc.object = object})

(***************************************************************************)
(* Who lives where.  No object ever has more NPCs than it starts with or   *)
(* its spawner may have; and when loading ends, every object of every map  *)
(* has all it starts with, provided every map has both layers and nobody   *)
(* interrupted.  (One map without a Spawners layer empties the maps after  *)
(* it, and the NPCs layers of all.)                                        *)
(***************************************************************************)
Populated ==
  \A i \in DOMAIN maps : \A layer \in {"Spawners", "NPCs"} :
    \A o \in Of(maps[i], layer) :
      LET start == IF layer = "NPCs" THEN 1 ELSE o.script.initial_spawn
      IN  /\ Born(i, o) <= start \/ Born(i, o) <= o.script.max_creatures
          /\ /\ phase = "loaded" /\ ~quit
             /\ \A j \in DOMAIN maps : {"Spawners", "NPCs"} \subseteq maps[j].layers
             /\ \A kind \in Range(o.script.npc_ids) : kind.lacks = nullopt
             => Born(i, o) = start
=============================================================================
