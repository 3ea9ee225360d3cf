------------------------------- MODULE MCNpcs -------------------------------
(* A forest and a town that share a script, and a cave without spawners. *)
EXTENDS Npcs, TLC

CONSTANTS p1, p2

Object(layer, at, name, script, resource) ==
  [layer |-> layer, at |-> at, gid |-> 1, name |-> name, script |-> script,
   resource |-> resource]

Forest == [walkable |-> {<<x, 0>> : x \in 0 .. 6} \ {<<1, 0>>}, layers |-> {"Spawners", "NPCs"},
           objects |-> <<Object("Spawners", <<1, 0>>, "den", "pack", "bear"),
                         Object("Spawners", <<4, 0>>, "gone", "nofile", nullopt),
                         Object("NPCs", <<6, 0>>, "hunter", nullopt, nullopt)>>]

\* The smith stands in the wall; one object replaces another on its tile.
Town == [walkable |-> {<<x, 1>> : x \in 0 .. 2} \cup {<<2, 0>>}, layers |-> {"Spawners", "NPCs"},
         objects |-> <<Object("NPCs", <<0, 0>>, "smith", nullopt, nullopt),
                       Object("Spawners", <<2, 1>>, "old", "pack", nullopt),
                       Object("Spawners", <<2, 1>>, "guards", "pack", "smudge")>>]

Cave == [walkable |-> {<<0, 0>>}, layers |-> {"NPCs"},
         objects |-> <<Object("NPCs", <<0, 0>>, "hermit", nullopt, nullopt)>>]

MCMapFileLists == {<<Forest, Town>>, <<Town, Forest>>, <<Cave, Town>>}

MCScripts ==
  [f \in {"pack"} |-> [initialSpawn |-> 1, maxCreatures |-> 2, spawnRadius |-> 2,
                       randomWalkRadius |-> 1, leashRadius |-> 2,
                       npcIds |-> <<"wolf", "hermit", "dummy">>]]

Kind(id, hostility, hp) == [npc_id |-> id, lacks |-> nullopt, hostility |-> hostility,
                            hp |-> hp, max_hp |-> 2, move |-> 2]

MCGlobalNpcs == {Kind("wolf", "faction", 2), Kind("bear", "onHit", 1),
                 Kind("dummy", "always", 0),
                 [Kind("smudge", "onHit", 1) EXCEPT !.lacks = "sprite"]}

\* Nobody is walled in on these maps.
ASSUME RoomyAssumption == Roomy

PlayersAlike == Permutations(Players)
=============================================================================
