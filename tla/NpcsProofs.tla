------------------------------ MODULE NpcsProofs ------------------------------
(***************************************************************************)
(* Every NPC keeps to its own object and is one that its object names, and *)
(* the loop keeps ticking, for any maps, scripts and players.              *)
(*                                                                         *)
(* What the loader builds is a fold over the objects of a file, what the   *)
(* AI walks a recursion over its steps, and a distance the root of a       *)
(* square.  What they come to is shown by induction: every set of naturals *)
(* that is not empty has a least element, so that a claim that fails for   *)
(* some number of objects or steps fails for a first one.                  *)
(***************************************************************************)
EXTENDS Npcs, SequenceTheorems, FiniteSetTheorems, WellFoundedInduction, TLAPS

-----------------------------------------------------------------------------
(* What is true of the scripts, the objects, the maps and the NPCs. *)

\* An NPC to create: a global one, or one that a map defines.
KindOK(kind) == kind \in GlobalNpcs \/ kind = TownNpc(kind.npc_id)

KindsOf(script) == {kind.npc_id : kind \in Range(script.npc_ids)}

ScriptOK(s) ==
  /\ s = [id |-> s.id, loc |-> s.loc, initial_spawn |-> s.initial_spawn,
          max_creatures |-> s.max_creatures, spawn_radius |-> s.spawn_radius,
          random_walk_radius |-> s.random_walk_radius, leash_radius |-> s.leash_radius,
          npc_ids |-> s.npc_ids]
  /\ s.loc \in Tiles
  /\ {s.initial_spawn, s.max_creatures, s.spawn_radius, s.random_walk_radius,
      s.leash_radius} \subseteq Nat
  /\ s.npc_ids \in Seq(Range(s.npc_ids))
  /\ \A kind \in Range(s.npc_ids) : KindOK(kind)

\* A cached script names the NPCs of its file and no others.
CacheOK(cache) ==
  \A name \in DOMAIN cache :
    cache[name] # nullopt => /\ ScriptOK(cache[name])
                             /\ KindsOf(cache[name]) \subseteq Range(Scripts[name].npcIds)

\* The object o of a map is the object f of its file, and has its spawner in its place.
ObjectOf(o, f) ==
  /\ o = [layer |-> f.layer, at |-> f.at, gid |-> f.gid, name |-> f.name, script |-> o.script]
  /\ o.script # nullopt =>
       /\ ScriptOK(o.script)
       /\ o.script.loc = f.at
       /\ f.layer = "Spawners" => KindsOf(o.script) \subseteq Named(o, f)
       /\ f.layer = "NPCs" => \E id : o.script = create_spawner_script_for_npc(f, id)

ObjectsOK(objects, file) ==
  /\ IsFiniteSet(objects)
  /\ \A o \in objects : \E f \in Range(file.objects) : ObjectOf(o, f)
  /\ \A o, other \in objects : o.layer = other.layer /\ o.at = other.at => o = other

MapOK(map) ==
  \E file \in MapFiles : /\ map.walkable = file.walkable /\ map.layers = file.layers
                         /\ ObjectsOK(map.objects, file)

NpcFields == {"id", "map", "npc_id", "hostility", "hp", "max_hp", "move", "loc", "object",
              "driven", "targets"}

\* An NPC is one that the object it comes from, on its map, spawns.
NpcOK(npc) ==
  /\ npc = [k \in NpcFields |-> npc[k]]
  /\ npc.id \in 0 .. npc_id_counter - 1
  /\ npc.map \in DOMAIN maps
  /\ npc.object \in maps[npc.map].objects
  /\ npc.object.layer \in {"Spawners", "NPCs"} /\ Spawns(npc.object)
  /\ npc.loc \in Tiles
  /\ \E kind \in Range(npc.object.script.npc_ids) :
       npc.npc_id = kind.npc_id /\ npc.move = kind.move

LoadedOK ==
  /\ files \in Seq(MapFiles)
  /\ \A kind \in global_npcs : KindOK(kind)
  /\ CacheOK(spawner_script_cache)
  /\ maps \in Seq(Range(maps))
  /\ \A i \in DOMAIN maps : MapOK(maps[i])

NpcsOK ==
  /\ npc_id_counter \in Nat
  /\ IsFiniteSet(npcs)
  /\ \A npc \in npcs : NpcOK(npc)
  /\ \A npc, other \in npcs : npc.id = other.id => npc = other

\* What is to be done, and for whom, in the phases of the main thread.  While spawners
\* are filled there is never anything to do.
PhaseOK ==
  /\ phase \in {"loading", "Spawners", "NPCs", "loaded", "filling", "ai", "idle",
                "stuck", "crashed"}
  /\ phase = "loading" => npcs = {}
  /\ phase \in {"loading", "loaded", "filling", "idle"} => todo = {}
  /\ unvisited \in Seq(DOMAIN maps)
  /\ Spawning => \A r \in todo : r.map \in DOMAIN maps /\ r.object \in Of(maps[r.map], phase)
  /\ phase \in {"filling", "ai"} => here \in DOMAIN maps
  /\ phase = "ai" => \A id \in todo : \E npc \in npcs : npc.id = id /\ npc.map = here

NpcsInv == LoadedOK /\ NpcsOK /\ PhaseOK /\ NearHome

-----------------------------------------------------------------------------
(* Numbers and distances. *)

\* Every set of naturals that is not empty has a least element.
LEMMA LeastNatural ==
  ASSUME NEW T, T \subseteq Nat, T # {} PROVE \E x \in T : \A y \in T : x <= y
<1>1. PICK x \in T : \A y \in T : <<y, x>> \notin OpToRel(<, Nat)
  BY NatLessThanWellFounded, WFMin
<1>2. \A y \in T : ~(y < x)
  BY <1>1 DEF OpToRel
<1> QED  BY <1>2

\* The greatest element of a set of numbers that is not empty.
LEMMA MaxOf ==
  ASSUME NEW n \in Nat, NEW s \in SUBSET (1 .. n), s # {}
  PROVE  Max(s) \in s /\ \A x \in s : Max(s) >= x
<1> DEFINE T == {n - x : x \in s}
<1>1. T \subseteq Nat /\ T # {}
  <2>1. \A x \in s : x \in Int /\ n - x \in Nat
    OBVIOUS
  <2> QED  BY <2>1
<1>2. PICK t \in T : \A u \in T : t <= u
  <2> HIDE DEF T
  <2> QED  BY <1>1, LeastNatural
<1>3. PICK x \in s : t = n - x
  BY <1>2
<1>4. \A y \in s : x >= y
  <2> TAKE y \in s
  <2>1. t <= n - y
    BY <1>2
  <2> QED  BY <1>3, <2>1
<1> QED  BY <1>4 DEF Max

\* There is a distance between any two tiles, and none between a tile and itself.
LEMMA Distance ==
  ASSUME NEW a \in Tiles, NEW b \in Tiles
  PROVE  distance_between(a, b) \in Nat /\ distance_between(a, a) = 0
<1> DEFINE Square2(s, t) == (t[1] - s[1]) * (t[1] - s[1]) + (t[2] - s[2]) * (t[2] - s[2])
           Root(n, d) == d * d <= n /\ (d + 1) * (d + 1) > n
<1>1. \A i \in Int : i * i \in Nat
  OBVIOUS
<1>2. a[1] \in Int /\ a[2] \in Int /\ b[1] \in Int /\ b[2] \in Int
  BY DEF Tiles
<1>3. Square2(a, b) \in Nat /\ Square2(a, a) = 0
  <2>1. b[1] - a[1] \in Int /\ b[2] - a[2] \in Int
    BY <1>2
  <2>2. (b[1] - a[1]) * (b[1] - a[1]) \in Nat /\ (b[2] - a[2]) * (b[2] - a[2]) \in Nat
    BY <1>1, <2>1
  <2>3. a[1] - a[1] = 0 /\ a[2] - a[2] = 0
    BY <1>2
  <2> QED  BY <2>2, <2>3
<1>4. ASSUME NEW n \in Nat PROVE \E d \in 0 .. n : Root(n, d)
  <2> DEFINE T == {d \in 0 .. n : (d + 1) * (d + 1) > n}
  <2>1. n \in T /\ T \subseteq Nat
    OBVIOUS
  <2>2. PICK d \in T : \A e \in T : d <= e
    <3> HIDE DEF T
    <3> QED  BY <2>1, LeastNatural
  <2>3. d * d <= n
    <3>1. CASE d = 0
      BY <3>1
    <3>2. CASE d # 0
      <4>1. d - 1 \in 0 .. n /\ d - 1 \notin T
        BY <2>2, <3>2
      <4>2. ~((d - 1 + 1) * (d - 1 + 1) > n)
        BY <4>1
      <4>3. d - 1 + 1 = d /\ d \in Nat
        BY <2>2
      <4> QED  BY <4>2, <4>3
    <3> QED  BY <3>1, <3>2
  <2> QED  BY <2>2, <2>3
<1>5. distance_between(a, b) = CHOOSE d \in 0 .. Square2(a, b) : Root(Square2(a, b), d)
  BY DEF distance_between
<1>6. distance_between(a, a) = CHOOSE d \in 0 .. Square2(a, a) : Root(Square2(a, a), d)
  BY DEF distance_between
<1> HIDE DEF Square2, Root
<1>7. distance_between(a, b) \in 0 .. Square2(a, b)
  BY <1>3, <1>4, <1>5
<1>8. distance_between(a, a) \in 0 .. 0
  BY <1>3, <1>4, <1>6
<1> QED  BY <1>3, <1>7, <1>8

-----------------------------------------------------------------------------
(* The way of the AI. *)

\* The tiles the AI may stand on after some steps: it has walked on free tiles, and
\* there are such where it starts on one or has one next to it.
LEMMA Reached ==
  ASSUME NEW map, NEW at, NEW num_steps \in Nat
  PROVE  /\ Reach(map, at, num_steps) \subseteq map.walkable \cup {at}
         /\ at \in Tiles /\ map.walkable \subseteq Tiles /\ StepsFrom(map, at) # {}
              => Reach(map, at, num_steps) # {}
<1> DEFINE Body(g, k) == IF k = 0 THEN {at} ELSE UNION {StepsFrom(map, t) : t \in g[k - 1]}
           Part(k) == \E g : g = [j \in 0 .. k |-> Body(g, j)]
<1>1. Part(0)
  <2> DEFINE g == [j \in 0 .. 0 |-> {at}]
  <2>1. g = [j \in 0 .. 0 |-> Body(g, j)]
    OBVIOUS
  <2> QED  BY <2>1
<1>2. ASSUME NEW k \in Nat, Part(k) PROVE Part(k + 1)
  <2>1. PICK g : g = [j \in 0 .. k |-> Body(g, j)]
    BY <1>2
  <2> DEFINE h == [j \in 0 .. k + 1 |-> IF j = k + 1 THEN UNION {StepsFrom(map, t) : t \in g[k]}
                                                 ELSE g[j]]
  <2>2. ASSUME NEW j \in 0 .. k + 1 PROVE h[j] = Body(h, j)
    <3>1. CASE j = k + 1
      <4>1. h[k] = g[k] /\ j # 0 /\ j - 1 = k
        BY <3>1
      <4> QED  BY <3>1, <4>1
    <3>2. CASE j # k + 1
      <4>1. j \in 0 .. k /\ h[j] = g[j] /\ (j # 0 => j - 1 \in 0 .. k /\ h[j - 1] = g[j - 1])
        BY <3>2
      <4>2. g[j] = Body(g, j)
        BY <2>1, <4>1
      <4> QED  BY <4>1, <4>2
    <3> QED  BY <3>1, <3>2
  <2>3. h = [j \in 0 .. k + 1 |-> Body(h, j)]
    <3>1. h = [j \in 0 .. k + 1 |-> h[j]]
      OBVIOUS
    <3> HIDE DEF h
    <3> QED  BY <2>2, <3>1
  <2> QED  BY <2>3
<1>3. Part(num_steps)
  <2> DEFINE T == {k \in Nat : ~Part(k)}
  <2> SUFFICES ASSUME T # {} PROVE FALSE
    OBVIOUS
  <2>1. PICK k \in T : \A j \in T : k <= j
    <3> HIDE DEF Part
    <3> QED  BY LeastNatural
  <2> HIDE DEF Part
  <2>2. k # 0 /\ k - 1 \in Nat
    BY <1>1, <2>1
  <2>3. Part(k - 1)
    BY <2>1, <2>2
  <2> QED  BY <1>2, <2>1, <2>2, <2>3
<1> DEFINE reach == CHOOSE g : g = [j \in 0 .. num_steps |-> Body(g, j)]
<1>4. reach = [j \in 0 .. num_steps |-> Body(reach, j)]
  BY <1>3
<1>5. Reach(map, at, num_steps) = reach[num_steps]
  BY DEF Reach
<1> HIDE DEF reach
<1>6. \A k \in 0 .. num_steps : reach[k] = IF k = 0 THEN {at}
                                  ELSE UNION {StepsFrom(map, t) : t \in reach[k - 1]}
  BY <1>4
<1> DEFINE Fine(k) == /\ k = 0 => reach[k] = {at}
                      /\ k # 0 => reach[k] \subseteq map.walkable
                      /\ at \in Tiles /\ map.walkable \subseteq Tiles /\ StepsFrom(map, at) # {}
                           => reach[k] # {}
<1>7. ASSUME NEW k \in 1 .. num_steps, Fine(k - 1) PROVE Fine(k)
  <2>1. k \in 0 .. num_steps /\ k # 0
    OBVIOUS
  <2>2. reach[k] = UNION {StepsFrom(map, t) : t \in reach[k - 1]}
    BY <1>6, <2>1
  <2>3. reach[k] \subseteq map.walkable
    BY <2>2 DEF StepsFrom
  <2>4. ASSUME at \in Tiles, map.walkable \subseteq Tiles, StepsFrom(map, at) # {}
        PROVE  reach[k] # {}
    <3>1. PICK t \in reach[k - 1] : TRUE
      BY <1>7, <2>4
    <3>2. CASE k = 1
      BY <1>7, <2>2, <2>4, <3>2
    <3>3. CASE k # 1
      <4>1. t \in map.walkable /\ t \in Tiles
        BY <1>7, <2>4, <3>1, <3>3
      <4>2. t \in StepsFrom(map, t)
        BY <4>1 DEF StepsFrom, Square, Tiles
      <4> QED  BY <2>2, <3>1, <4>2
    <3> QED  BY <3>2, <3>3
  <2> QED  BY <2>1, <2>3, <2>4
<1>8. Fine(0)
  <2>1. 0 \in 0 .. num_steps
    OBVIOUS
  <2>2. reach[0] = {at}
    BY <1>6, <2>1
  <2> QED  BY <2>2
<1>9. Fine(num_steps)
  <2> DEFINE T == {k \in 0 .. num_steps : ~Fine(k)}
  <2> SUFFICES ASSUME T # {} PROVE FALSE
    OBVIOUS
  <2>1. PICK k \in T : \A j \in T : k <= j
    <3>1. T \subseteq Nat
      OBVIOUS
    <3> HIDE DEF T
    <3> QED  BY <3>1, LeastNatural
  <2> HIDE DEF Fine
  <2>2. k \in 1 .. num_steps /\ k - 1 \in 0 .. num_steps
    BY <1>8, <2>1
  <2>3. Fine(k - 1)
    BY <2>1, <2>2
  <2> QED  BY <1>7, <2>1, <2>2, <2>3
<1> QED  BY <1>5, <1>9

-----------------------------------------------------------------------------
(* Folds over the elements of a sequence. *)

\* The names that are known, as the loop over them finds them.
Finds(found, known, ids) ==
  /\ found[0] = <<>>
  /\ \A n \in 1 .. Len(ids) :
       LET npc == get_global_npc_by_npc_id(known, ids[n])
       IN  found[n] = IF npc = {} THEN found[n - 1] ELSE Append(found[n - 1], CHOOSE m \in npc : TRUE)

\* The fold of Known goes through the names in their order.
LEMMA Finding ==
  ASSUME NEW known, NEW ids, ids \in Seq(Range(ids))
  PROVE  \E found : Finds(found, known, ids) /\ Known(known, ids) = found[Len(ids)]
<1> DEFINE N == Len(ids)
           Step(found, id) ==
             LET npc == get_global_npc_by_npc_id(known, id)
             IN  IF npc = {} THEN found ELSE Append(found, CHOOSE m \in npc : TRUE)
           Body(g, s) == IF s = {} THEN <<>> ELSE Step(g[s \ {Max(s)}], ids[Max(s)])
           Part(k) == \E g : g = [s \in SUBSET (1 .. k) |-> Body(g, s)]
<1>1. N \in Nat /\ DOMAIN ids = 1 .. N
  OBVIOUS
<1> DEFINE iter == CHOOSE g : g = [s \in SUBSET (1 .. N) |-> Body(g, s)]
<1>2. Known(known, ids) = iter[1 .. N]
  BY <1>1 DEF Known, FoldLeft, MapThenFoldSet
<1> HIDE DEF N, Step
<1>3. Part(0)
  <2> DEFINE g == [s \in SUBSET (1 .. 0) |-> <<>>]
  <2>1. g = [s \in SUBSET (1 .. 0) |-> Body(g, s)]
    OBVIOUS
  <2> QED  BY <2>1
<1>4. ASSUME NEW k \in Nat, Part(k) PROVE Part(k + 1)
  <2>1. PICK g : g = [s \in SUBSET (1 .. k) |-> Body(g, s)]
    BY <1>4
  <2> DEFINE h == [s \in SUBSET (1 .. k + 1) |->
                     IF k + 1 \in s THEN Step(g[s \ {k + 1}], ids[k + 1]) ELSE g[s]]
  <2>2. ASSUME NEW s \in SUBSET (1 .. k + 1) PROVE h[s] = Body(h, s)
    <3>1. CASE s = {}
      BY <2>1, <3>1
    <3>2. CASE k + 1 \in s
      <4>1. Max(s) = k + 1
        <5>1. k + 1 \in Nat /\ s # {}
          BY <3>2
        <5>2. Max(s) \in s /\ \A x \in s : Max(s) >= x
          BY <5>1, MaxOf
        <5>3. Max(s) \in 1 .. k + 1 /\ Max(s) >= k + 1
          BY <3>2, <5>2
        <5> QED  BY <5>1, <5>3
      <4>2. s \ {k + 1} \in SUBSET (1 .. k + 1) /\ k + 1 \notin s \ {k + 1}
        OBVIOUS
      <4>3. h[s \ {k + 1}] = g[s \ {k + 1}]
        BY <4>2
      <4> QED  BY <3>2, <4>1, <4>3
    <3>3. CASE s # {} /\ k + 1 \notin s
      <4>1. s \in SUBSET (1 .. k)
        BY <3>3
      <4>2. s \ {Max(s)} \in SUBSET (1 .. k + 1) /\ k + 1 \notin s \ {Max(s)}
        BY <3>3
      <4>3. h[s \ {Max(s)}] = g[s \ {Max(s)}]
        BY <4>2
      <4>4. h[s] = g[s]
        BY <3>3
      <4>5. g[s] = Body(g, s)
        BY <2>1, <4>1
      <4> QED  BY <3>3, <4>3, <4>4, <4>5
    <3> QED  BY <3>1, <3>2, <3>3
  <2>3. h = [s \in SUBSET (1 .. k + 1) |-> Body(h, s)]
    <3>1. h = [s \in SUBSET (1 .. k + 1) |-> h[s]]
      OBVIOUS
    <3> HIDE DEF h
    <3> QED  BY <2>2, <3>1
  <2> QED  BY <2>3
<1>5. Part(N)
  <2> DEFINE T == {k \in Nat : ~Part(k)}
  <2>1. SUFFICES ASSUME T # {} PROVE FALSE
    BY <1>1
  <2>2. PICK k \in T : \A j \in T : k <= j
    <3> HIDE DEF Part
    <3> QED  BY <2>1, LeastNatural
  <2> HIDE DEF Part
  <2>3. k # 0 /\ k - 1 \in Nat
    BY <1>3, <2>2
  <2>4. Part(k - 1)
    BY <2>2, <2>3
  <2> QED  BY <1>4, <2>2, <2>3, <2>4
<1>6. iter = [s \in SUBSET (1 .. N) |-> Body(iter, s)]
  BY <1>5
<1> HIDE DEF iter
<1> DEFINE found == [n \in 0 .. N |-> iter[1 .. n]]
<1>7. found[0] = <<>>
  <2>1. iter[1 .. 0] = <<>>
    BY <1>1, <1>6
  <2> QED  BY <1>1, <2>1
<1>8. ASSUME NEW n \in 1 .. N PROVE found[n] = Step(found[n - 1], ids[n])
  <2>1. 1 .. n \in SUBSET (1 .. N) /\ 1 .. n # {} /\ n \in Nat
    BY <1>1
  <2>2. Max(1 .. n) = n
    <3>1. 1 .. n \in SUBSET (1 .. n)
      OBVIOUS
    <3>2. Max(1 .. n) \in 1 .. n /\ \A x \in 1 .. n : Max(1 .. n) >= x
      BY <2>1, <3>1, MaxOf
    <3> QED  BY <2>1, <3>2
  <2>3. (1 .. n) \ {n} = 1 .. n - 1
    BY <2>1
  <2>4. iter[1 .. n] = Step(iter[1 .. n - 1], ids[n])
    BY <1>6, <2>1, <2>2, <2>3
  <2>5. n \in 0 .. N /\ n - 1 \in 0 .. N
    BY <1>1
  <2> QED  BY <2>4, <2>5
<1>9. found[N] = iter[1 .. N]
  BY <1>1
<1> HIDE DEF found
<1> QED  BY <1>2, <1>7, <1>8, <1>9 DEF Finds, N, Step

\* What Known returns are NPCs that are known, under names of the list.
LEMMA KnownOK ==
  ASSUME NEW known, NEW ids, ids \in Seq(Range(ids)), \A kind \in known : KindOK(kind)
  PROVE  LET npcs_found == Known(known, ids)
         IN  /\ npcs_found \in Seq(Range(npcs_found))
             /\ \A kind \in Range(npcs_found) : KindOK(kind) /\ kind.npc_id \in Range(ids)
<1> DEFINE N == Len(ids)
           Good == {kind \in known : kind.npc_id \in Range(ids)}
<1>1. PICK found : Finds(found, known, ids) /\ Known(known, ids) = found[N]
  BY Finding
<1>2. N \in Nat /\ DOMAIN ids = 1 .. N
  OBVIOUS
<1> HIDE DEF N
<1>3. found[0] \in Seq(Good)
  BY <1>1 DEF Finds
<1>4. ASSUME NEW n \in 1 .. N, found[n - 1] \in Seq(Good) PROVE found[n] \in Seq(Good)
  <2> DEFINE npc == get_global_npc_by_npc_id(known, ids[n])
  <2>1. found[n] = IF npc = {} THEN found[n - 1] ELSE Append(found[n - 1], CHOOSE m \in npc : TRUE)
    BY <1>1 DEF Finds, N
  <2>2. npc \subseteq Good
    BY <1>2 DEF get_global_npc_by_npc_id, Range
  <2> HIDE DEF npc, Good
  <2>3. CASE npc = {}
    BY <1>4, <2>1, <2>3
  <2>4. CASE npc # {}
    <3>1. (CHOOSE m \in npc : TRUE) \in Good
      BY <2>2, <2>4
    <3> QED  BY <1>4, <2>1, <2>4, <3>1
  <2> QED  BY <2>3, <2>4
<1> HIDE DEF Good
<1>5. found[N] \in Seq(Good)
  <2> DEFINE T == {k \in 0 .. N : found[k] \notin Seq(Good)}
  <2>1. SUFFICES ASSUME T # {} PROVE FALSE
    BY <1>2
  <2>2. PICK k \in T : \A j \in T : k <= j
    <3>1. T \subseteq Nat
      BY <1>2
    <3> HIDE DEF T
    <3> QED  BY <2>1, <3>1, LeastNatural
  <2>3. k \in 1 .. N /\ k - 1 \in 0 .. N
    BY <1>2, <1>3, <2>2
  <2>4. found[k - 1] \in Seq(Good)
    BY <2>2, <2>3
  <2> QED  BY <1>4, <2>2, <2>3, <2>4
<1> DEFINE all == found[N]
<1>6. /\ all \in Seq(Range(all))
      /\ \A kind \in Range(all) : kind \in Good
  <2> HIDE DEF all
  <2>1. all \in Seq(Good)
    BY <1>5 DEF all
  <2>2. \A i \in 1 .. Len(all) : all[i] \in Good /\ all[i] \in Range(all)
    BY <2>1 DEF Range
  <2> QED  BY <2>1, <2>2 DEF Range
<1> QED  BY <1>1, <1>6 DEF Good

-----------------------------------------------------------------------------
(* Scripts and the objects that use them. *)

\* What get_spawner_script reads.
LEMMA FreshOK ==
  ASSUME NEW name, NEW at \in Tiles, NEW id, NEW known, \A kind \in known : KindOK(kind),
         get_spawner_script(name, at, id, known) # nullopt
  PROVE  LET fresh == get_spawner_script(name, at, id, known)
         IN  ScriptOK(fresh) /\ fresh.loc = at /\ KindsOf(fresh) \subseteq Range(Scripts[name].npcIds)
<1> DEFINE fresh == get_spawner_script(name, at, id, known)
           tree  == Scripts[name]
           found == Known(known, tree.npcIds)
<1>1. name \in DOMAIN Scripts
  BY DEF get_spawner_script
<1>2. {tree.initialSpawn, tree.maxCreatures, tree.spawnRadius,
        tree.randomWalkRadius, tree.leashRadius} \subseteq Nat
      /\ tree.npcIds \in Seq(Range(tree.npcIds))
  BY <1>1, NpcsAssumption
<1>3. /\ found \in Seq(Range(found))
      /\ \A kind \in Range(found) : KindOK(kind) /\ kind.npc_id \in Range(tree.npcIds)
  <2> HIDE DEF tree
  <2> QED  BY <1>2, KnownOK
<1> HIDE DEF found
<1>4. fresh = [id |-> id, loc |-> at, initial_spawn |-> tree.initialSpawn,
               max_creatures |-> tree.maxCreatures, spawn_radius |-> tree.spawnRadius,
               random_walk_radius |-> tree.randomWalkRadius, leash_radius |-> tree.leashRadius,
               npc_ids |-> found]
  BY <1>1 DEF get_spawner_script, found
<1> HIDE DEF fresh, tree
<1> QED  BY <1>2, <1>3, <1>4 DEF ScriptOK, KindsOf, fresh, tree

\* A copy of a cached script stands where its object does, and spawns what the script
\* names.
LEMMA CopyOK ==
  ASSUME NEW script, ScriptOK(script), script # nullopt, NEW at \in Tiles
  PROVE  LET copy == FromCache(script, at)
         IN  ScriptOK(copy) /\ copy.loc = at /\ KindsOf(copy) = KindsOf(script)
<1> DEFINE copy == FromCache(script, at)
<1>1. copy = [id |-> script.id, loc |-> at, initial_spawn |-> script.initial_spawn,
              max_creatures |-> script.max_creatures, spawn_radius |-> script.spawn_radius,
              random_walk_radius |-> script.random_walk_radius,
              leash_radius |-> script.leash_radius, npc_ids |-> script.npc_ids]
  BY DEF FromCache, ScriptOK
<1> HIDE DEF copy
<1>2. ScriptOK(copy)
  BY <1>1 DEF ScriptOK
<1> QED  BY <1>1, <1>2 DEF KindsOf, copy

\* An object adds the NPC it names to its own copy.
LEMMA ResourceOK ==
  ASSUME NEW script, ScriptOK(script), NEW resource,
         NEW known, \A kind \in known : KindOK(kind)
  PROVE  LET used == WithResource(script, resource, known)
         IN  ScriptOK(used) /\ used.loc = script.loc /\ KindsOf(used) \subseteq KindsOf(script) \cup {resource}
<1> DEFINE used == WithResource(script, resource, known)
<1>1. CASE script = nullopt \/ resource = nullopt
  BY <1>1 DEF WithResource
<1>2. CASE script # nullopt /\ resource # nullopt
  <2> DEFINE found == Known(known, <<resource>>)
             old   == script.npc_ids
             new   == old \o found
  <2>1. <<resource>> \in Seq(Range(<<resource>>)) /\ Range(<<resource>>) = {resource}
    BY DEF Range
  <2>2. /\ found \in Seq(Range(found))
        /\ \A kind \in Range(found) : KindOK(kind) /\ kind.npc_id = resource
    BY <2>1, KnownOK
  <2>3. old \in Seq(Range(old)) /\ \A kind \in Range(old) : KindOK(kind)
    BY DEF ScriptOK
  <2>4. used = [script EXCEPT !.npc_ids = new]
    BY <1>2 DEF WithResource
  <2> HIDE DEF found, used
  <2>5. new \in Seq(Range(new)) /\ Range(new) = Range(old) \cup Range(found)
    <3> HIDE DEF old
    <3>1. new \in Seq(Range(old) \cup Range(found)) /\ Len(new) = Len(old) + Len(found)
          /\ Len(old) \in Nat /\ Len(found) \in Nat
      BY <2>2, <2>3
    <3>2. \A i \in 1 .. Len(new) : new[i] = IF i <= Len(old) THEN old[i] ELSE found[i - Len(old)]
      BY <2>2, <2>3
    <3>3. DOMAIN new = 1 .. Len(new) /\ DOMAIN old = 1 .. Len(old) /\ DOMAIN found = 1 .. Len(found)
      BY <2>2, <2>3, <3>1
    <3> HIDE DEF new
    <3>4. \A i \in 1 .. Len(old) : i \in 1 .. Len(new) /\ new[i] = old[i]
      BY <3>1, <3>2
    <3>5. \A i \in 1 .. Len(found) : Len(old) + i \in 1 .. Len(new) /\ new[Len(old) + i] = found[i]
      <4> TAKE i \in 1 .. Len(found)
      <4>1. Len(old) + i \in 1 .. Len(new) /\ ~(Len(old) + i <= Len(old)) /\ Len(old) + i - Len(old) = i
        BY <3>1
      <4>2. new[Len(old) + i] = found[Len(old) + i - Len(old)]
        BY <3>2, <4>1
      <4> QED  BY <4>1, <4>2
    <3>6. \A i \in 1 .. Len(new) : new[i] \in Range(new) /\ new[i] \in Range(old) \cup Range(found)
      BY <3>1, <3>3 DEF Range
    <3>7. Range(new) = Range(old) \cup Range(found)
      <4>1. Range(new) \subseteq Range(old) \cup Range(found)
        BY <3>3, <3>6 DEF Range
      <4>2. ASSUME NEW x \in Range(old) PROVE x \in Range(new)
        <5>1. PICK i \in 1 .. Len(old) : x = old[i]
          BY <3>3 DEF Range
        <5> QED  BY <3>4, <3>6, <5>1
      <4>3. ASSUME NEW x \in Range(found) PROVE x \in Range(new)
        <5>1. PICK i \in 1 .. Len(found) : x = found[i]
          BY <3>3 DEF Range
        <5> QED  BY <3>5, <3>6, <5>1
      <4> QED  BY <4>1, <4>2, <4>3
    <3>8. new \in Seq(Range(new))
      BY <3>1, <3>7
    <3> QED  BY <3>7, <3>8
  <2> HIDE DEF new
  <2>6. used = [id |-> script.id, loc |-> script.loc, initial_spawn |-> script.initial_spawn,
                max_creatures |-> script.max_creatures, spawn_radius |-> script.spawn_radius,
                random_walk_radius |-> script.random_walk_radius,
                leash_radius |-> script.leash_radius, npc_ids |-> new]
    BY <2>4 DEF ScriptOK
  <2>7. \A kind \in Range(new) : KindOK(kind) /\ kind.npc_id \in KindsOf(script) \cup {resource}
    BY <2>2, <2>3, <2>5 DEF KindsOf
  <2>8. ScriptOK(used)
    BY <2>5, <2>6, <2>7 DEF ScriptOK
  <2> QED  BY <2>6, <2>7, <2>8 DEF KindsOf, used
<1> QED  BY <1>1, <1>2

\* The script an object of the NPCs layer gets.
LEMMA TownOK ==
  ASSUME NEW object, object.at \in Tiles, NEW id
  PROVE  LET script == create_spawner_script_for_npc(object, id)
         IN  ScriptOK(script) /\ script.loc = object.at
<1> DEFINE script == create_spawner_script_for_npc(object, id)
           kind == TownNpc(object.name)
<1>1. kind.npc_id = object.name
  BY DEF TownNpc
<1>2. KindOK(kind)
  BY <1>1 DEF KindOK
<1> HIDE DEF kind
<1>3. script = [id |-> id, loc |-> object.at, initial_spawn |-> 1, max_creatures |-> 1,
                spawn_radius |-> 0, random_walk_radius |-> 0, leash_radius |-> UintSize - 1,
                npc_ids |-> <<kind>>]
  BY DEF create_spawner_script_for_npc, kind
<1> HIDE DEF script
<1>4. <<kind>> \in Seq(Range(<<kind>>)) /\ Range(<<kind>>) = {kind}
  BY DEF Range
<1>5. UintSize - 1 \in Nat
  BY NpcsAssumption
<1> QED  BY <1>2, <1>3, <1>4, <1>5 DEF ScriptOK, script

-----------------------------------------------------------------------------
(* The objects of a file. *)

\* An object is put into its map with a spawner of its own, and the cache holds what
\* the script files say.
LEMMA PutOK ==
  ASSUME NEW s, CacheOK(s.cache), NEW file \in MapFiles, ObjectsOK(s.objects, file),
         NEW object \in Range(file.objects), NEW known, \A kind \in known : KindOK(kind)
  PROVE  LET put == PutObject(s, object, known)
         IN  CacheOK(put.cache) /\ ObjectsOK(put.objects, file)
<1> DEFINE name == object.script
           cached == name \in DOMAIN s.cache
           fresh == get_spawner_script(name, object.at, s.counter, known)
           copy == IF cached THEN FromCache(s.cache[name], object.at) ELSE fresh
           used == WithResource(copy, object.resource, known)
           script == CASE object.layer = "NPCs" -> create_spawner_script_for_npc(object, s.counter)
                       [] object.layer = "Spawners" /\ name # nullopt -> used
                       [] OTHER -> nullopt
           read == object.layer = "Spawners" /\ name # nullopt /\ ~cached
           cache == IF read THEN [f \in DOMAIN s.cache \cup {name} |->
                                    IF f = name THEN fresh ELSE s.cache[f]]
                            ELSE s.cache
           new == [layer |-> object.layer, at |-> object.at, gid |-> object.gid,
                   name |-> object.name, script |-> script]
           objects == {o \in s.objects : o.layer # object.layer \/ o.at # object.at} \cup {new}
           put == PutObject(s, object, known)
<1>1. put.cache = cache /\ put.objects = objects
  BY DEF PutObject, Cached
<1>2. object.at \in Tiles
  BY NpcsAssumption
<1>3. fresh # nullopt => /\ ScriptOK(fresh) /\ fresh.loc = object.at
                         /\ KindsOf(fresh) \subseteq Range(Scripts[name].npcIds)
  BY <1>2, FreshOK
<1> HIDE DEF fresh
<1>4. copy # nullopt => /\ ScriptOK(copy) /\ copy.loc = object.at
                        /\ KindsOf(copy) \subseteq Range(Scripts[name].npcIds)
  <2>1. CASE ~cached
    BY <1>3, <2>1
  <2>2. CASE cached
    <3> DEFINE old == s.cache[name]
    <3>1. copy = FromCache(old, object.at)
      BY <2>2
    <3>2. old # nullopt => ScriptOK(old) /\ KindsOf(old) \subseteq Range(Scripts[name].npcIds)
      BY <2>2 DEF CacheOK
    <3> HIDE DEF copy, old
    <3>3. CASE old = nullopt
      BY <3>1, <3>3 DEF FromCache
    <3>4. CASE old # nullopt
      <4>1. LET c == FromCache(old, object.at)
            IN  ScriptOK(c) /\ c.loc = object.at /\ KindsOf(c) = KindsOf(old)
        BY <1>2, <3>2, <3>4, CopyOK
      <4> QED  BY <3>1, <3>2, <3>4, <4>1
    <3> QED  BY <3>3, <3>4
  <2> QED  BY <2>1, <2>2
<1>5. used # nullopt => /\ ScriptOK(used) /\ used.loc = object.at
                        /\ KindsOf(used) \subseteq Range(Scripts[name].npcIds) \cup {object.resource}
  <2> HIDE DEF copy
  <2>1. CASE copy = nullopt
    BY <2>1 DEF WithResource
  <2>2. CASE copy # nullopt
    <3>1. ScriptOK(used) /\ used.loc = copy.loc /\ KindsOf(used) \subseteq KindsOf(copy) \cup {object.resource}
      BY <1>4, <2>2, ResourceOK
    <3> QED  BY <1>4, <2>2, <3>1
  <2> QED  BY <2>1, <2>2
<1>6. CacheOK(cache)
  BY <1>3 DEF CacheOK
<1>7. ObjectOf(new, object)
  <2> HIDE DEF used
  <2>1. CASE object.layer = "NPCs"
    <3>1. script = create_spawner_script_for_npc(object, s.counter)
      BY <2>1
    <3> HIDE DEF script
    <3>2. ScriptOK(script) /\ script.loc = object.at
      BY <1>2, <3>1, TownOK
    <3> QED  BY <2>1, <3>1, <3>2 DEF ObjectOf
  <2>2. CASE object.layer = "Spawners" /\ name # nullopt
    <3>1. script = used
      BY <2>2
    <3> HIDE DEF script
    <3> QED  BY <1>5, <2>2, <3>1 DEF ObjectOf, Named
  <2>3. CASE object.layer # "NPCs" /\ ~(object.layer = "Spawners" /\ name # nullopt)
    <3>1. script = nullopt
      BY <2>3
    <3> HIDE DEF script
    <3> QED  BY <3>1 DEF ObjectOf
  <2> QED  BY <2>1, <2>2, <2>3
<1>8. new.layer = object.layer /\ new.at = object.at
  OBVIOUS
<1> HIDE DEF new
<1>9. ObjectsOK(objects, file)
  <2> DEFINE rest == {o \in s.objects : o.layer # object.layer \/ o.at # object.at}
  <2>1. rest \subseteq s.objects /\ IsFiniteSet(s.objects)
    BY DEF ObjectsOK
  <2>2. IsFiniteSet(rest)
    BY <2>1, FS_Subset
  <2>3. IsFiniteSet(objects)
    <3>1. IsFiniteSet({new})
      BY FS_Singleton
    <3> HIDE DEF rest
    <3>2. IsFiniteSet(rest \cup {new})
      BY <2>2, <3>1, FS_Union
    <3> QED  BY <3>2 DEF rest
  <2>4. \A o \in objects : \E f \in Range(file.objects) : ObjectOf(o, f)
    BY <1>7 DEF ObjectsOK
  <2>5. \A o, other \in objects : o.layer = other.layer /\ o.at = other.at => o = other
    BY <1>8 DEF ObjectsOK
  <2> QED  BY <2>3, <2>4, <2>5 DEF ObjectsOK
<1> QED  BY <1>1, <1>6, <1>9

\* The fold of load_map_from_file puts the objects one by one.
LEMMA Loading ==
  ASSUME NEW file \in MapFiles
  PROVE  \E steps :
           /\ steps[0] = [cache |-> spawner_script_cache, counter |-> spawner_id_counter,
                          objects |-> {}]
           /\ \A n \in 1 .. Len(file.objects) :
                steps[n] = PutObject(steps[n - 1], file.objects[n], global_npcs)
           /\ load_map_from_file(file) = steps[Len(file.objects)]
<1> DEFINE objects == file.objects
           start == [cache |-> spawner_script_cache, counter |-> spawner_id_counter, objects |-> {}]
           N == Len(objects)
           Step(r, object) == PutObject(r, object, global_npcs)
           Body(g, s) == IF s = {} THEN start ELSE Step(g[s \ {Max(s)}], objects[Max(s)])
           Part(k) == \E g : g = [s \in SUBSET (1 .. k) |-> Body(g, s)]
<1>1. N \in Nat /\ DOMAIN objects = 1 .. N
  BY NpcsAssumption
<1> DEFINE iter == CHOOSE g : g = [s \in SUBSET (1 .. N) |-> Body(g, s)]
<1>2. load_map_from_file(file) = iter[1 .. N]
  BY <1>1 DEF load_map_from_file, FoldLeft, MapThenFoldSet
<1> HIDE DEF N, Step
<1>3. Part(0)
  <2> DEFINE g == [s \in SUBSET (1 .. 0) |-> start]
  <2>1. g = [s \in SUBSET (1 .. 0) |-> Body(g, s)]
    OBVIOUS
  <2> QED  BY <2>1
<1>4. ASSUME NEW k \in Nat, Part(k) PROVE Part(k + 1)
  <2>1. PICK g : g = [s \in SUBSET (1 .. k) |-> Body(g, s)]
    BY <1>4
  <2> DEFINE h == [s \in SUBSET (1 .. k + 1) |->
                     IF k + 1 \in s THEN Step(g[s \ {k + 1}], objects[k + 1]) ELSE g[s]]
  <2>2. ASSUME NEW s \in SUBSET (1 .. k + 1) PROVE h[s] = Body(h, s)
    <3>1. CASE s = {}
      BY <2>1, <3>1
    <3>2. CASE k + 1 \in s
      <4>1. Max(s) = k + 1
        <5>1. k + 1 \in Nat /\ s # {}
          BY <3>2
        <5>2. Max(s) \in s /\ \A x \in s : Max(s) >= x
          BY <5>1, MaxOf
        <5>3. Max(s) \in 1 .. k + 1 /\ Max(s) >= k + 1
          BY <3>2, <5>2
        <5> QED  BY <5>1, <5>3
      <4>2. s \ {k + 1} \in SUBSET (1 .. k + 1) /\ k + 1 \notin s \ {k + 1}
        OBVIOUS
      <4>3. h[s \ {k + 1}] = g[s \ {k + 1}]
        BY <4>2
      <4> QED  BY <3>2, <4>1, <4>3
    <3>3. CASE s # {} /\ k + 1 \notin s
      <4>1. s \in SUBSET (1 .. k)
        BY <3>3
      <4>2. s \ {Max(s)} \in SUBSET (1 .. k + 1) /\ k + 1 \notin s \ {Max(s)}
        BY <3>3
      <4>3. h[s \ {Max(s)}] = g[s \ {Max(s)}]
        BY <4>2
      <4>4. h[s] = g[s]
        BY <3>3
      <4>5. g[s] = Body(g, s)
        BY <2>1, <4>1
      <4> QED  BY <3>3, <4>3, <4>4, <4>5
    <3> QED  BY <3>1, <3>2, <3>3
  <2>3. h = [s \in SUBSET (1 .. k + 1) |-> Body(h, s)]
    <3>1. h = [s \in SUBSET (1 .. k + 1) |-> h[s]]
      OBVIOUS
    <3> HIDE DEF h
    <3> QED  BY <2>2, <3>1
  <2> QED  BY <2>3
<1>5. Part(N)
  <2> DEFINE T == {k \in Nat : ~Part(k)}
  <2>1. SUFFICES ASSUME T # {} PROVE FALSE
    BY <1>1
  <2>2. PICK k \in T : \A j \in T : k <= j
    <3> HIDE DEF Part
    <3> QED  BY <2>1, LeastNatural
  <2> HIDE DEF Part
  <2>3. k # 0 /\ k - 1 \in Nat
    BY <1>3, <2>2
  <2>4. Part(k - 1)
    BY <2>2, <2>3
  <2> QED  BY <1>4, <2>2, <2>3, <2>4
<1>6. iter = [s \in SUBSET (1 .. N) |-> Body(iter, s)]
  BY <1>5
<1> HIDE DEF iter
<1> DEFINE steps == [n \in 0 .. N |-> iter[1 .. n]]
<1>7. steps[0] = start
  <2>1. iter[1 .. 0] = start
    BY <1>1, <1>6
  <2> QED  BY <1>1, <2>1
<1>8. ASSUME NEW n \in 1 .. N PROVE steps[n] = Step(steps[n - 1], objects[n])
  <2>1. 1 .. n \in SUBSET (1 .. N) /\ 1 .. n # {} /\ n \in Nat
    BY <1>1
  <2>2. Max(1 .. n) = n
    <3>1. 1 .. n \in SUBSET (1 .. n)
      OBVIOUS
    <3>2. Max(1 .. n) \in 1 .. n /\ \A x \in 1 .. n : Max(1 .. n) >= x
      BY <2>1, <3>1, MaxOf
    <3> QED  BY <2>1, <3>2
  <2>3. (1 .. n) \ {n} = 1 .. n - 1
    BY <2>1
  <2>4. iter[1 .. n] = Step(iter[1 .. n - 1], objects[n])
    BY <1>6, <2>1, <2>2, <2>3
  <2>5. n \in 0 .. N /\ n - 1 \in 0 .. N
    BY <1>1
  <2> QED  BY <2>4, <2>5
<1>9. steps[N] = iter[1 .. N]
  BY <1>1
<1> HIDE DEF steps
<1> QED  BY <1>2, <1>7, <1>8, <1>9 DEF N, Step

\* Loading a file leaves the cache as the script files say, and every object of the map
\* is one of the file.
LEMMA LoadOK ==
  ASSUME CacheOK(spawner_script_cache), \A kind \in global_npcs : KindOK(kind),
         NEW file \in MapFiles
  PROVE  LET s == load_map_from_file(file)
         IN  CacheOK(s.cache) /\ ObjectsOK(s.objects, file)
<1> DEFINE start == [cache |-> spawner_script_cache, counter |-> spawner_id_counter, objects |-> {}]
           N == Len(file.objects)
<1>1. file.objects \in Seq(Range(file.objects))
  BY NpcsAssumption
<1>2. N \in Nat /\ \A n \in 1 .. N : file.objects[n] \in Range(file.objects)
  BY <1>1
<1>3. PICK steps : /\ steps[0] = start
                   /\ \A n \in 1 .. N : steps[n] = PutObject(steps[n - 1], file.objects[n], global_npcs)
                   /\ load_map_from_file(file) = steps[N]
  BY Loading
<1> DEFINE Good(n) == CacheOK(steps[n].cache) /\ ObjectsOK(steps[n].objects, file)
<1>4. Good(0)
  <2>1. IsFiniteSet({})
    BY FS_EmptySet
  <2> QED  BY <1>3, <2>1 DEF ObjectsOK
<1> HIDE DEF N
<1>5. ASSUME NEW n \in 1 .. N, Good(n - 1) PROVE Good(n)
  <2>1. LET put == PutObject(steps[n - 1], file.objects[n], global_npcs)
        IN  CacheOK(put.cache) /\ ObjectsOK(put.objects, file)
    BY <1>2, <1>5, PutOK
  <2> QED  BY <1>3, <2>1
<1> HIDE DEF Good
<1>6. Good(N)
  <2> DEFINE T == {k \in 0 .. N : ~Good(k)}
  <2>1. SUFFICES ASSUME T # {} PROVE FALSE
    BY <1>2
  <2>2. PICK k \in T : \A j \in T : k <= j
    <3>1. T \subseteq Nat
      BY <1>2
    <3> HIDE DEF T
    <3> QED  BY <2>1, <3>1, LeastNatural
  <2>3. k \in 1 .. N /\ k - 1 \in 0 .. N
    BY <1>2, <1>4, <2>2
  <2>4. Good(k - 1)
    BY <2>2, <2>3
  <2> QED  BY <1>5, <2>2, <2>3, <2>4
<1> QED  BY <1>3, <1>6 DEF Good

-----------------------------------------------------------------------------
(* The count of fill_spawners. *)

\* It counts no NPC.
LEMMA NothingCounted ==
  ASSUME NEW some, IsFiniteSet(some) PROVE spawner_npc_counter(some) = <<>>
<1> DEFINE Body(g, s) == IF s = {} THEN <<>>
                         ELSE CountNpc(g[s \ {CHOOSE x \in s : TRUE}], CHOOSE x \in s : TRUE)
           iter == CHOOSE g : g = [s \in SUBSET some |-> Body(g, s)]
<1>1. spawner_npc_counter(some) = iter[some]
  BY DEF spawner_npc_counter, FoldSet, MapThenFoldSet
<1>2. \A npc : CountNpc(<<>>, npc) = <<>>
  <2>1. DOMAIN <<>> = {}
    OBVIOUS
  <2> QED  BY <2>1 DEF CountNpc
<1>3. iter = [s \in SUBSET some |-> Body(iter, s)]
  <2> DEFINE g == [s \in SUBSET some |-> <<>>]
  <2>1. g = [s \in SUBSET some |-> Body(g, s)]
    <3>1. \A s \in SUBSET some : s \ {CHOOSE x \in s : TRUE} \in SUBSET some
      OBVIOUS
    <3>2. \A s \in SUBSET some : g[s \ {CHOOSE x \in s : TRUE}] = <<>>
      BY <3>1
    <3>3. \A s \in SUBSET some : Body(g, s) = <<>>
      <4> HIDE DEF g
      <4> QED  BY <1>2, <3>2
    <3> HIDE DEF Body
    <3> QED  BY <3>3
  <2> HIDE DEF g
  <2> QED  BY <2>1
<1> HIDE DEF iter
<1>4. \A s \in SUBSET some : iter[s] = Body(iter, s)
  <2> HIDE DEF Body
  <2> QED  BY <1>3
<1> DEFINE T == {Cardinality(s) : s \in {t \in SUBSET some : iter[t] # <<>>}}
<1>5. ASSUME iter[some] # <<>> PROVE FALSE
  <2>1. \A t \in SUBSET some : IsFiniteSet(t) /\ Cardinality(t) \in Nat
    BY FS_Subset, FS_CardinalityType
  <2>2. T \subseteq Nat /\ T # {}
    BY <1>5, <2>1
  <2>3. PICK n \in T : \A m \in T : n <= m
    <3> HIDE DEF T
    <3> QED  BY <2>2, LeastNatural
  <2>4. PICK s \in SUBSET some : iter[s] # <<>> /\ n = Cardinality(s)
    BY <2>3
  <2>5. s # {}
    BY <1>4, <2>4
  <2> DEFINE x == CHOOSE y \in s : TRUE
  <2>6. x \in s
    BY <2>5
  <2>7. iter[s] = CountNpc(iter[s \ {x}], x)
    BY <1>4, <2>5
  <2> HIDE DEF x
  <2>8. Cardinality(s \ {x}) = Cardinality(s) - 1 /\ s \ {x} \in SUBSET some
    BY <2>1, <2>6, FS_RemoveElement
  <2>9. iter[s \ {x}] = <<>>
    <3> SUFFICES ASSUME iter[s \ {x}] # <<>> PROVE FALSE
      OBVIOUS
    <3>1. Cardinality(s \ {x}) \in T
      BY <2>8
    <3>2. n <= Cardinality(s \ {x})
      BY <2>3, <3>1
    <3>3. Cardinality(s) \in Nat
      BY <2>1
    <3> QED  BY <2>4, <2>8, <3>2, <3>3
  <2> QED  BY <1>2, <2>4, <2>7, <2>9
<1> QED  BY <1>1, <1>5

\* So no spawner is filled.
LEMMA NothingMissing ==
  ASSUME NEW i, NEW some, IsFiniteSet(some) PROVE Missing(i, some) = {}
<1>1. IsFiniteSet(remove_dead_npcs(some))
  BY FS_Subset DEF remove_dead_npcs
<1>2. spawner_npc_counter(remove_dead_npcs(some)) = <<>>
  BY <1>1, NothingCounted
<1>3. DOMAIN <<>> = {}
  OBVIOUS
<1> QED  BY <1>2, <1>3 DEF Missing

-----------------------------------------------------------------------------
(* The objects and the NPCs of the maps that are loaded. *)

\* The part of NearHome about one NPC.
Near(npc) ==
  LET script == npc.object.script
  IN  /\ npc.loc \in maps[npc.map].walkable \cup {Home(npc)}
      /\ ~npc.driven => npc.loc \in Square(Home(npc), script.spawn_radius)
      /\ npc.driven => distance_between(npc.loc, Home(npc)) <=
                         IF npc.targets THEN script.leash_radius
                                        ELSE script.random_walk_radius

\* A spawner of a map stands on its object, and may spawn what can move.
LEMMA SpawnerOK ==
  ASSUME LoadedOK, NEW i \in DOMAIN maps, NEW object \in maps[i].objects, Spawns(object)
  PROVE  /\ ScriptOK(object.script)
         /\ object.script.loc = object.at
         /\ object.at \in Tiles
         /\ maps[i].walkable \subseteq Tiles
         /\ object.script.npc_ids # <<>>
         /\ \A kind \in Range(object.script.npc_ids) : kind.move \in Nat
<1>1. MapOK(maps[i])
  BY DEF LoadedOK
<1>2. PICK file \in MapFiles : maps[i].walkable = file.walkable /\ ObjectsOK(maps[i].objects, file)
  BY <1>1 DEF MapOK
<1>3. PICK f \in Range(file.objects) : ObjectOf(object, f)
  BY <1>2 DEF ObjectsOK
<1>4. object.script # nullopt /\ object.script.npc_ids # <<>>
  BY DEF Spawns
<1>5. object.at = f.at
  <2> DEFINE o == [layer |-> f.layer, at |-> f.at, gid |-> f.gid, name |-> f.name,
                   script |-> object.script]
  <2>1. object = o
    BY <1>3 DEF ObjectOf
  <2>2. o.at = f.at
    OBVIOUS
  <2> QED  BY <2>1, <2>2
<1>6. ScriptOK(object.script) /\ object.script.loc = f.at
  BY <1>3, <1>4 DEF ObjectOf
<1>7. f.at \in Tiles /\ file.walkable \subseteq Tiles
  BY NpcsAssumption
<1>8. \A kind \in Range(object.script.npc_ids) : KindOK(kind)
  BY <1>6 DEF ScriptOK
<1>9. \A kind : KindOK(kind) => kind.move \in Nat
  <2> TAKE kind
  <2>1. kind \in GlobalNpcs => kind.move \in Nat
    BY NpcsAssumption
  <2>2. TownNpc(kind.npc_id).move = 10
    BY DEF TownNpc, stat_default
  <2> QED  BY <2>1, <2>2 DEF KindOK
<1> QED  BY <1>2, <1>4, <1>5, <1>6, <1>7, <1>8, <1>9

\* Where create_npc puts an NPC is near its object.
LEMMA SpawnTile ==
  ASSUME LoadedOK, NEW i \in DOMAIN maps, NEW object \in maps[i].objects, Spawns(object),
         NEW at \in SpawnTiles(maps[i], object.script)
  PROVE  /\ at \in Tiles
         /\ at \in maps[i].walkable \cup {object.at}
         /\ at \in Square(object.at, object.script.spawn_radius)
<1> DEFINE script == object.script
<1>1. script.loc = object.at /\ object.at \in Tiles /\ maps[i].walkable \subseteq Tiles
      /\ script.spawn_radius \in Nat
  BY SpawnerOK DEF ScriptOK
<1>2. CASE script.spawn_radius > 0
  BY <1>1, <1>2 DEF SpawnTiles
<1>3. CASE ~(script.spawn_radius > 0)
  <2>1. script.spawn_radius = 0 /\ at = object.at
    BY <1>1, <1>3 DEF SpawnTiles
  <2>2. object.at \in Square(object.at, 0)
    BY <1>1 DEF Square, Tiles
  <2> QED  BY <1>1, <2>1, <2>2
<1> QED  BY <1>2, <1>3

\* Where the maps have room, create_npc finds a place, and an NPC can leave its
\* object's tile.
LEMMA Room ==
  ASSUME Roomy, LoadedOK, NEW i \in DOMAIN maps, NEW object \in maps[i].objects, Spawns(object)
  PROVE  /\ SpawnTiles(maps[i], object.script) # {}
         /\ StepsFrom(maps[i], object.at) # {}
         /\ \A kind \in Range(object.script.npc_ids) : kind.move # 0
<1>1. MapOK(maps[i])
  BY DEF LoadedOK
<1>2. PICK file \in MapFiles : maps[i].walkable = file.walkable /\ ObjectsOK(maps[i].objects, file)
  BY <1>1 DEF MapOK
<1>3. PICK f \in Range(file.objects) : ObjectOf(object, f)
  BY <1>2 DEF ObjectsOK
<1>4. object.at = f.at
  <2> DEFINE o == [layer |-> f.layer, at |-> f.at, gid |-> f.gid, name |-> f.name,
                   script |-> object.script]
  <2>1. object = o
    BY <1>3 DEF ObjectOf
  <2>2. o.at = f.at
    OBVIOUS
  <2> QED  BY <2>1, <2>2
<1>5. StepsFrom(maps[i], object.at) # {}
  BY <1>2, <1>4 DEF Roomy, StepsFrom
<1>6. ScriptOK(object.script) /\ object.script.loc = object.at /\ object.at \in Tiles
      /\ object.script.spawn_radius \in Nat
  BY SpawnerOK DEF ScriptOK
<1>7. SpawnTiles(maps[i], object.script) # {}
  <2>1. CASE object.script.spawn_radius > 0
    <3>1. Square(object.at, 1) \subseteq Square(object.at, object.script.spawn_radius)
      <4>1. object.at[1] \in Int /\ object.at[2] \in Int
        BY <1>6 DEF Tiles
      <4> DEFINE radius == object.script.spawn_radius
      <4>2. radius \in Nat /\ radius >= 1
        BY <1>6, <2>1
      <4> HIDE DEF radius
      <4>3. object.at[1] - 1 .. object.at[1] + 1 \subseteq object.at[1] - radius .. object.at[1] + radius
        BY <4>1, <4>2
      <4>4. object.at[2] - 1 .. object.at[2] + 1 \subseteq object.at[2] - radius .. object.at[2] + radius
        BY <4>1, <4>2
      <4> QED  BY <4>3, <4>4 DEF Square, radius
    <3> QED  BY <1>5, <1>6, <2>1, <3>1 DEF SpawnTiles, StepsFrom
  <2>2. CASE ~(object.script.spawn_radius > 0)
    BY <2>2 DEF SpawnTiles
  <2> QED  BY <2>1, <2>2
<1>8. \A kind \in Range(object.script.npc_ids) : kind.move # 0
  <2> TAKE kind \in Range(object.script.npc_ids)
  <2>1. KindOK(kind)
    BY <1>6 DEF ScriptOK
  <2>2. kind \in GlobalNpcs => kind.move # 0
    BY DEF Roomy
  <2>3. TownNpc(kind.npc_id).move = 10
    BY DEF TownNpc, stat_default
  <2> QED  BY <2>1, <2>2, <2>3 DEF KindOK
<1> QED  BY <1>5, <1>7, <1>8

-----------------------------------------------------------------------------
(* The steps of the loader. *)

\* The invariant holds when the program starts.
LEMMA NpcsInit == Init => NpcsInv
<1> SUFFICES ASSUME Init PROVE NpcsInv
  OBVIOUS
<1>1. files \in Seq(MapFiles)
  <2>1. files \in MapFileLists
    BY DEF Init
  <2>2. files \in Seq(Range(files)) /\ Range(files) \subseteq MapFiles
    BY <2>1, NpcsAssumption DEF MapFiles
  <2> QED  BY <2>2
<1>2. LoadedOK
  <2>1. \A kind \in GlobalNpcs : KindOK(kind)
    BY DEF KindOK
  <2>2. DOMAIN <<>> = {} /\ <<>> \in Seq(Range(<<>>))
    BY DEF Range
  <2>3. CacheOK(<<>>)
    BY <2>2 DEF CacheOK
  <2> QED  BY <1>1, <2>1, <2>2, <2>3 DEF Init, LoadedOK
<1>3. NpcsOK
  BY FS_EmptySet DEF Init, NpcsOK
<1>4. PhaseOK
  BY DEF Init, PhaseOK, Spawning
<1>5. NearHome
  BY DEF Init, NearHome
<1> QED  BY <1>2, <1>3, <1>4, <1>5 DEF NpcsInv

\* A map is put among the others.
LEMMA InsertOK ==
  ASSUME NEW S, NEW s \in Seq(S), NEW i \in 1 .. Len(s) + 1, NEW e \in S
  PROVE  InsertAt(s, i, e) \in Seq(S) /\ Len(InsertAt(s, i, e)) = Len(s) + 1
<1>1. Len(s) \in Nat /\ i \in Int
  OBVIOUS
<1> DEFINE before == SubSeq(s, 1, i - 1)
           after == SubSeq(s, i, Len(s))
<1>2. before \in Seq(S) /\ Len(before) = i - 1
  <2>1. i - 1 \in Int /\ \A j \in 1 .. i - 1 : s[j] \in S
    BY <1>1
  <2>2. before \in Seq(S) /\ Len(before) = IF 1 <= i - 1 THEN i - 1 - 1 + 1 ELSE 0
    BY <2>1, SubSeqProperties
  <2> HIDE DEF before
  <2> QED  BY <1>1, <2>2
<1>3. after \in Seq(S) /\ Len(after) = Len(s) - i + 1
  <2>1. \A j \in i .. Len(s) : s[j] \in S
    BY <1>1
  <2>2. after \in Seq(S) /\ Len(after) = IF i <= Len(s) THEN Len(s) - i + 1 ELSE 0
    BY <1>1, <2>1, SubSeqProperties
  <2> HIDE DEF after
  <2> QED  BY <1>1, <2>2
<1>4. InsertAt(s, i, e) = before \o <<e>> \o after
  BY DEF InsertAt
<1> HIDE DEF before, after
<1>5. before \o <<e>> \in Seq(S) /\ Len(before \o <<e>>) = i
  BY <1>1, <1>2
<1>6. before \o <<e>> \o after \in Seq(S) /\ Len(before \o <<e>> \o after) = i + (Len(s) - i + 1)
  BY <1>3, <1>5
<1> QED  BY <1>1, <1>4, <1>6

\* The next file.
LEMMA LoadMapStep == NpcsInv /\ LoadMap => NpcsInv'
<1> SUFFICES ASSUME NpcsInv, LoadMap PROVE NpcsInv'
  OBVIOUS
<1>1. LoadedOK /\ NpcsOK /\ PhaseOK /\ npcs = {} /\ npcs' = {}
  BY DEF NpcsInv, LoadMap, PhaseOK
<1>2. Head(files) \in MapFiles /\ Tail(files) \in Seq(MapFiles)
  BY <1>1 DEF LoadMap, LoadedOK
<1>3. LoadedOK' /\ DOMAIN maps \subseteq DOMAIN maps'
  <2>1. CASE quit
    BY <1>1, <1>2, <2>1 DEF LoadMap, LoadedOK
  <2>2. CASE ~quit
    <3>1. PICK s : s = load_map_from_file(Head(files))
      OBVIOUS
    <3>2. CacheOK(s.cache) /\ ObjectsOK(s.objects, Head(files))
      BY <1>1, <1>2, <3>1, LoadOK DEF LoadedOK
    <3>3. PICK map : map = [walkable |-> Head(files).walkable, layers |-> Head(files).layers,
                            objects |-> s.objects]
      OBVIOUS
    <3>4. MapOK(map)
      BY <1>2, <3>2, <3>3 DEF MapOK
    <3>5. /\ spawner_script_cache' = s.cache
          /\ global_npcs' = global_npcs \cup {TownNpc(o.name) : o \in Of(map, "NPCs")}
          /\ \E i \in 1 .. Len(maps) + 1 : maps' = InsertAt(maps, i, map)
      BY <2>2, <3>1, <3>3 DEF LoadMap
    <3>6. \A kind \in global_npcs' : KindOK(kind)
      <4>1. \A name : KindOK(TownNpc(name))
        BY DEF KindOK, TownNpc
      <4> QED  BY <1>1, <3>5, <4>1 DEF LoadedOK
    <3>7. /\ maps' \in Seq(Range(maps)')
          /\ \A i \in DOMAIN maps' : MapOK(maps'[i])
          /\ DOMAIN maps \subseteq DOMAIN maps'
      <4>1. PICK i \in 1 .. Len(maps) + 1 : maps' = InsertAt(maps, i, map)
        BY <3>5
      <4>2. PICK S : S = {m \in Range(maps) \cup {map} : MapOK(m)}
        OBVIOUS
      <4>3. maps \in Seq(S) /\ map \in S
        BY <1>1, <3>4, <4>2 DEF LoadedOK, Range
      <4>4. maps' \in Seq(S) /\ Len(maps') = Len(maps) + 1
        BY <4>1, <4>3, InsertOK
      <4>5. DOMAIN maps' = 1 .. Len(maps) + 1 /\ DOMAIN maps = 1 .. Len(maps) /\ Len(maps) \in Nat
        BY <4>3, <4>4
      <4>6. \A j \in 1 .. Len(maps') : maps'[j] \in Range(maps)'
        BY <4>4, <4>5 DEF Range
      <4>7. maps' \in Seq(Range(maps)')
        BY <4>4, <4>6
      <4>8. \A j \in DOMAIN maps' : maps'[j] \in S
        BY <4>4
      <4> QED  BY <4>2, <4>5, <4>7, <4>8
    <3> QED  BY <1>2, <3>2, <3>5, <3>6, <3>7 DEF LoadMap, LoadedOK
  <2> QED  BY <2>1, <2>2
<1>4. NpcsOK' /\ NearHome'
  <2>1. npc_id_counter' = npc_id_counter
    BY DEF LoadMap
  <2> QED  BY <1>1, <2>1, FS_EmptySet DEF NpcsOK, NearHome
<1>5. PhaseOK'
  <2>1. phase = "loading" /\ phase' = "loading" /\ todo' = todo /\ unvisited' = unvisited
    BY DEF LoadMap
  <2>2. unvisited' \in Seq(DOMAIN maps')
    BY <1>1, <1>3, <2>1 DEF PhaseOK
  <2> QED  BY <1>1, <2>1, <2>2 DEF PhaseOK, Spawning
<1> QED  BY <1>3, <1>4, <1>5 DEF NpcsInv

\* What is left alone keeps what is said of it.
LEMMA NpcsStay ==
  ASSUME LoadedOK, NpcsOK, NearHome, UNCHANGED <<loadVars, npc_id_counter>>,
         npcs' \subseteq npcs
  PROVE  LoadedOK' /\ NpcsOK' /\ NearHome'
<1>1. LoadedOK'
  BY DEF LoadedOK, loadVars
<1>2. npcs' \in SUBSET npcs /\ IsFiniteSet(npcs) /\ maps' = maps
  BY DEF NpcsOK, loadVars
<1>3. IsFiniteSet(npcs')
  <2> PICK t : t = npcs'
    OBVIOUS
  <2> QED  BY <1>2, FS_Subset
<1>4. NpcsOK'
  <2>1. \A npc \in npcs' : NpcOK(npc)'
    BY <1>2 DEF NpcsOK, NpcOK
  <2> QED  BY <1>2, <1>3, <2>1 DEF NpcsOK
<1>5. NearHome'
  BY <1>2 DEF NearHome
<1> QED  BY <1>1, <1>4, <1>5

\* The steps of the main thread between two files, maps or ticks.
LEMMA TurnStep ==
  ASSUME NpcsInv,
         \/ AllLoaded \/ VisitMap \/ AllVisited \/ Interrupt \/ StartAi \/ EndTick
         \/ \E i \in DOMAIN maps : BeginTick(i)
  PROVE  NpcsInv'
<1>1. LoadedOK /\ NpcsOK /\ PhaseOK /\ NearHome /\ maps \in Seq(Range(maps))
  BY DEF NpcsInv, LoadedOK
<1>2. UNCHANGED <<loadVars, npc_id_counter>> /\ maps' = maps /\ npcs' \subseteq npcs
  BY DEF AllLoaded, VisitMap, AllVisited, Interrupt, StartAi, EndTick, BeginTick, loadVars
<1>3. LoadedOK' /\ NpcsOK' /\ NearHome'
  BY <1>1, <1>2, NpcsStay
<1>4. [i \in DOMAIN maps |-> i] \in Seq(DOMAIN maps)
  BY <1>1
<1>5. PhaseOK'
  <2>1. CASE AllLoaded
    BY <1>1, <1>2, <1>4, <2>1 DEF AllLoaded, PhaseOK, Spawning
  <2>2. CASE VisitMap
    <3>1. Head(unvisited) \in DOMAIN maps /\ Tail(unvisited) \in Seq(DOMAIN maps)
      BY <1>1, <2>2 DEF VisitMap, PhaseOK
    <3>2. CASE quit \/ phase \notin maps[Head(unvisited)].layers
      BY <1>1, <1>2, <2>2, <3>2 DEF VisitMap, PhaseOK, Spawning
    <3>3. CASE ~(quit \/ phase \notin maps[Head(unvisited)].layers)
      <4>1. PICK h : h = Head(unvisited)
        OBVIOUS
      <4>2. todo' = UNION {[map : {h}, object : {o}, round : Times(phase, o.script)] :
                              o \in Of(maps[h], phase)}
        BY <2>2, <3>3, <4>1 DEF VisitMap
      <4>3. \A r \in todo' : r.map = h /\ r.object \in Of(maps[h], phase)
        <5> TAKE r \in todo'
        <5>1. PICK o \in Of(maps[h], phase) :
                r \in [map : {h}, object : {o}, round : Times(phase, o.script)]
          BY <4>2
        <5> QED  BY <5>1
      <4>4. phase' = phase /\ unvisited' = Tail(unvisited) /\ phase \in {"Spawners", "NPCs"}
        BY <2>2, <3>3 DEF VisitMap, Spawning
      <4> QED  BY <1>1, <1>2, <3>1, <4>1, <4>3, <4>4 DEF PhaseOK, Spawning
    <3> QED  BY <3>2, <3>3
  <2>3. CASE AllVisited
    BY <1>1, <1>2, <1>4, <2>3 DEF AllVisited, PhaseOK, Spawning
  <2>4. CASE Interrupt
    BY <1>1, <1>2, <2>4 DEF Interrupt, PhaseOK, Spawning, tickVars
  <2>5. CASE StartAi
    <3>1. \A id \in todo' : \E npc \in npcs' : npc.id = id /\ npc.map = here'
      BY <2>5 DEF StartAi, On, tickVars
    <3>2. phase' = "ai" /\ here' = here /\ unvisited' = unvisited /\ phase = "filling"
      BY <2>5 DEF StartAi, tickVars
    <3> QED  BY <1>1, <1>2, <3>1, <3>2 DEF PhaseOK, Spawning
  <2>6. CASE EndTick
    BY <1>1, <1>2, <2>6 DEF EndTick, PhaseOK, Spawning
  <2>7. CASE \E i \in DOMAIN maps : BeginTick(i)
    <3>1. PICK i \in DOMAIN maps : BeginTick(i)
      BY <2>7
    <3>2. IsFiniteSet(On(i))
      <4>1. IsFiniteSet(npcs) /\ On(i) \in SUBSET npcs
        BY <1>1 DEF NpcsOK, On
      <4> QED  BY <4>1, FS_Subset
    <3>3. todo' = {}
      <4>1. Missing(i, On(i)) = {}
        BY <3>2, NothingMissing
      <4> QED  BY <3>1, <4>1 DEF BeginTick
    <3>4. phase' = "filling" /\ here' = i /\ unvisited' = unvisited
      BY <3>1 DEF BeginTick
    <3> QED  BY <1>1, <1>2, <3>1, <3>3, <3>4 DEF PhaseOK, Spawning
  <2> QED  BY <2>1, <2>2, <2>3, <2>4, <2>5, <2>6, <2>7
<1> QED  BY <1>3, <1>5 DEF NpcsInv

-----------------------------------------------------------------------------
(* The steps that make and move NPCs. *)

\* What is said of an NPC stays so when the maps do and the counter does not fall.
LEMMA OneStays ==
  ASSUME NpcsOK, maps' = maps, npc_id_counter' \in Nat, npc_id_counter' >= npc_id_counter,
         NEW npc, NpcOK(npc), Near(npc)
  PROVE  NpcOK(npc)' /\ Near(npc)'
<1>1. npc.id \in 0 .. npc_id_counter' - 1
  BY DEF NpcsOK, NpcOK
<1> QED  BY <1>1 DEF NpcOK, Near, Home

\* The NPC that create_npc makes is one of its object's.
LEMMA BornOK ==
  ASSUME LoadedOK, NpcsOK, maps' = maps, npc_id_counter' = npc_id_counter + 1, Spawning,
         NEW r, r.map \in DOMAIN maps, r.object \in Of(maps[r.map], phase),
         NEW kind \in Range(r.object.script.npc_ids),
         NEW at \in SpawnTiles(maps[r.map], r.object.script),
         NEW npc, npc = Npc(r, kind, at)
  PROVE  npc.id = npc_id_counter /\ NpcOK(npc)' /\ Near(npc)'
<1>1. npc = [id |-> npc_id_counter, map |-> r.map, npc_id |-> kind.npc_id,
             hostility |-> kind.hostility, hp |-> kind.hp, max_hp |-> kind.max_hp,
             move |-> kind.move, loc |-> at, object |-> r.object, driven |-> FALSE,
             targets |-> FALSE]
  BY DEF Npc
<1>2. npc = [k \in NpcFields |-> npc[k]]
  BY <1>1 DEF NpcFields
<1>3. /\ npc.id = npc_id_counter /\ npc.map = r.map /\ npc.npc_id = kind.npc_id
      /\ npc.move = kind.move /\ npc.loc = at /\ npc.object = r.object /\ npc.driven = FALSE
  BY <1>1
<1>4. /\ r.object \in maps[r.map].objects /\ Spawns(r.object)
      /\ r.object.layer \in {"Spawners", "NPCs"}
  BY DEF Of, Spawning
<1>5. /\ at \in Tiles
      /\ at \in maps[r.map].walkable \cup {r.object.at}
      /\ at \in Square(r.object.at, r.object.script.spawn_radius)
  BY <1>4, SpawnTile
<1>6. npc.id \in 0 .. npc_id_counter' - 1
  BY <1>3 DEF NpcsOK
<1>7. NpcOK(npc)'
  BY <1>2, <1>3, <1>4, <1>5, <1>6 DEF NpcOK
<1>8. Near(npc)'
  BY <1>3, <1>5 DEF Near, Home
<1> QED  BY <1>3, <1>7, <1>8

\* Every NPC of npcs is near its object, and the other way round.
LEMMA NearAll == NearHome <=> \A npc \in npcs : Near(npc)
BY DEF NearHome, Near

\* What creating an NPC comes to.
Made(r, kind) ==
  \/ /\ npcs' = npcs
     /\ phase' \in {phase, "stuck"}
     /\ phase' = "stuck" \/ kind.lacks \in {"sprite", "stat"}
  \/ /\ phase' = phase
     /\ \E npc : /\ npc \notin npcs
                 /\ npc.map = r.map /\ npc.object = r.object
                 /\ npcs' = npcs \cup {npc}

\* One NPC more, or none.
LEMMA CreateNpcStep ==
  ASSUME NpcsInv, CreateNpc
  PROVE  /\ NpcsInv'
         /\ Roomy => phase' = phase
         /\ \E r \in todo : \E kind \in Range(r.object.script.npc_ids) :
              /\ todo' = todo \ {r}
              /\ Made(r, kind)
<1>1. LoadedOK /\ NpcsOK /\ PhaseOK /\ NearHome /\ npc_id_counter \in Nat
  BY DEF NpcsInv, NpcsOK
<1>2. Spawning /\ todo # {}
  BY <1>1 DEF CreateNpc, Creating, PhaseOK
<1>3. PICK r \in todo : r = CHOOSE q \in todo : TRUE
  BY <1>2
<1>4. r.map \in DOMAIN maps /\ r.object \in Of(maps[r.map], phase)
  BY <1>1, <1>2 DEF PhaseOK
<1>5. r.object \in maps[r.map].objects /\ Spawns(r.object)
  BY <1>4 DEF Of
<1> DEFINE tiles == SpawnTiles(maps[r.map], r.object.script)
<1> DEFINE request == CHOOSE q \in todo : TRUE
<1>6. PICK kind \in Drawn(r) :
        IF kind.lacks = "sprite"
          THEN UNCHANGED <<npcs, npc_id_counter, phase>>
        ELSE IF tiles = {}
          THEN phase' = "stuck" /\ UNCHANGED <<npcs, npc_id_counter>>
        ELSE /\ npc_id_counter' = npc_id_counter + 1
             /\ IF kind.lacks = "stat"
                  THEN UNCHANGED npcs
                  ELSE \E at \in tiles : npcs' = npcs \cup {Npc(r, kind, at)}
             /\ UNCHANGED phase
  <2>1. r = request
    BY <1>3
  <2>2. \E kind \in Drawn(request) :
          IF kind.lacks = "sprite"
            THEN UNCHANGED <<npcs, npc_id_counter, phase>>
          ELSE IF SpawnTiles(maps[request.map], request.object.script) = {}
            THEN phase' = "stuck" /\ UNCHANGED <<npcs, npc_id_counter>>
          ELSE /\ npc_id_counter' = npc_id_counter + 1
               /\ IF kind.lacks = "stat"
                    THEN UNCHANGED npcs
                    ELSE \E at \in SpawnTiles(maps[request.map], request.object.script) :
                           npcs' = npcs \cup {Npc(request, kind, at)}
               /\ UNCHANGED phase
    BY DEF CreateNpc
  <2> HIDE DEF request
  <2> QED  BY <2>1, <2>2
<1> HIDE DEF request
<1>7. /\ UNCHANGED <<loadVars, quit, unvisited, tickVars>> /\ maps' = maps
      /\ todo' = todo \ {r}
  BY <1>3 DEF CreateNpc, loadVars
<1>8. kind \in Range(r.object.script.npc_ids)
  <2> PICK list : list = r.object.script.npc_ids
    OBVIOUS
  <2>1. list \in Seq(Range(list)) /\ list # <<>>
    BY <1>1, <1>4, <1>5, SpawnerOK DEF ScriptOK
  <2>2. Head(list) \in Range(list)
    BY <2>1
  <2> QED  BY <2>2 DEF Drawn
<1>9. Roomy => tiles # {}
  BY <1>1, <1>4, <1>5, Room
<1>10. phase' = phase \/ phase' = "stuck"
  BY <1>6
<1>11. Roomy => phase' = phase
  BY <1>6, <1>9
<1>12. PhaseOK'
  BY <1>1, <1>2, <1>7, <1>10 DEF PhaseOK, Spawning
<1>13. LoadedOK'
  BY <1>1, <1>7 DEF LoadedOK, loadVars
<1>14. npc_id_counter' \in Nat /\ npc_id_counter' >= npc_id_counter
  BY <1>1, <1>6
<1>15. \A npc \in npcs : NpcOK(npc)' /\ Near(npc)'
  <2>1. \A npc \in npcs : NpcOK(npc) /\ Near(npc)
    BY <1>1, NearAll DEF NpcsOK
  <2> QED  BY <1>1, <1>7, <1>14, <2>1, OneStays
<1>16. NpcsOK' /\ \A npc \in npcs' : Near(npc)'
  <2>1. CASE npcs' = npcs
    BY <1>1, <1>14, <1>15, <2>1 DEF NpcsOK
  <2>2. CASE npcs' # npcs
    <3>1. npc_id_counter' = npc_id_counter + 1
      BY <1>6, <2>2
    <3>2. PICK at \in tiles : npcs' = npcs \cup {Npc(r, kind, at)}
      BY <1>6, <2>2
    <3>3. PICK npc : npc = Npc(r, kind, at)
      OBVIOUS
    <3>4. npc.id = npc_id_counter /\ NpcOK(npc)' /\ Near(npc)'
      BY <1>1, <1>2, <1>4, <1>7, <1>8, <3>1, <3>2, <3>3, BornOK
    <3>5. npcs' = npcs \cup {npc}
      BY <3>2, <3>3
    <3>6. \A other \in npcs : other.id # npc.id
      <4> TAKE other \in npcs
      <4>1. other.id \in 0 .. npc_id_counter - 1
        BY <1>1 DEF NpcsOK, NpcOK
      <4> QED  BY <1>1, <3>4, <4>1
    <3>7. IsFiniteSet(npcs')
      <4>1. IsFiniteSet(npcs)
        BY <1>1 DEF NpcsOK
      <4>2. IsFiniteSet(npcs \cup {npc})
        BY <4>1, FS_AddElement
      <4> QED  BY <3>5, <4>2
    <3> QED  BY <1>1, <1>14, <1>15, <3>4, <3>5, <3>6, <3>7 DEF NpcsOK
  <2> QED  BY <2>1, <2>2
<1>17. NearHome'
  BY <1>16 DEF NearHome, Near
<1>18. NpcsInv'
  BY <1>12, <1>13, <1>16, <1>17 DEF NpcsInv
<1>19. Made(r, kind)
  <2>1. CASE npcs' = npcs /\ (phase' = "stuck" \/ kind.lacks \in {"sprite", "stat"})
    BY <1>10, <2>1 DEF Made
  <2>2. CASE ~(npcs' = npcs /\ (phase' = "stuck" \/ kind.lacks \in {"sprite", "stat"}))
    <3>1. phase' = phase /\ \E at \in tiles : npcs' = npcs \cup {Npc(r, kind, at)}
      BY <1>6, <2>2
    <3>2. PICK at \in tiles : npcs' = npcs \cup {Npc(r, kind, at)}
      BY <3>1
    <3>3. PICK npc : npc = Npc(r, kind, at)
      OBVIOUS
    <3>4. npc.id = npc_id_counter /\ npc.map = r.map /\ npc.object = r.object
      BY <3>3 DEF Npc
    <3>5. npc \notin npcs
      <4> SUFFICES ASSUME npc \in npcs PROVE FALSE
        OBVIOUS
      <4>1. npc.id \in 0 .. npc_id_counter - 1
        BY <1>1 DEF NpcsOK, NpcOK
      <4> QED  BY <1>1, <3>4, <4>1
    <3> QED  BY <3>1, <3>2, <3>3, <3>4, <3>5 DEF Made
  <2> QED  BY <2>1, <2>2
<1> QED  BY <1>7, <1>8, <1>11, <1>18, <1>19

-----------------------------------------------------------------------------

\* An NPC that has moved, or was sent back, is still one of its object's and near it.
LEMMA LeashOK ==
  ASSUME LoadedOK, NEW npc, NpcOK(npc), Near(npc),
         NEW at \in maps[npc.map].walkable \cup {npc.loc}, NEW target \in BOOLEAN,
         NEW new, new = Leashed(npc, at, target)
  PROVE  /\ new.id = npc.id /\ new.map = npc.map /\ new.object = npc.object
         /\ NpcOK(new) /\ Near(new)
<1> DEFINE script == npc.object.script
           there == [npc EXCEPT !.loc = at, !.driven = TRUE, !.targets = target]
           home == [there EXCEPT !.loc = script.loc]
           cured == [home EXCEPT !.hp = npc.max_hp]
           distance == distance_between(at, script.loc)
<1>1. /\ npc.map \in DOMAIN maps /\ npc.object \in maps[npc.map].objects /\ Spawns(npc.object)
      /\ npc.loc \in Tiles
  BY DEF NpcOK
<1>2. /\ ScriptOK(script) /\ script.loc = npc.object.at /\ npc.object.at \in Tiles
      /\ maps[npc.map].walkable \subseteq Tiles
  BY <1>1, SpawnerOK
<1>3. script.random_walk_radius \in Nat /\ script.leash_radius \in Nat
  BY <1>2 DEF ScriptOK
<1>4. at \in Tiles /\ at \in maps[npc.map].walkable \cup {npc.object.at}
  BY <1>1, <1>2 DEF Near, Home
<1>5. distance \in Nat /\ distance_between(script.loc, script.loc) = 0
  BY <1>2, <1>4, Distance
<1>6. npc = [k \in NpcFields |-> npc[k]]
  BY DEF NpcOK
<1> DEFINE Moved(n, loc) ==
      /\ n = [k \in NpcFields |-> n[k]]
      /\ n.id = npc.id /\ n.map = npc.map /\ n.npc_id = npc.npc_id /\ n.move = npc.move
      /\ n.object = npc.object /\ n.loc = loc /\ n.driven = TRUE /\ n.targets = target
<1>7. Moved(there, at)
  BY <1>6 DEF NpcFields
<1>8. Moved(home, script.loc)
  BY <1>6 DEF NpcFields
<1>9. Moved(cured, script.loc)
  BY <1>6 DEF NpcFields
<1>10. \/ Moved(new, at) /\ ~TooFar(npc, distance, target)
       \/ Moved(new, script.loc)
  <2>1. \/ new = there /\ ~TooFar(npc, distance, target)
        \/ new = home
        \/ new = cured
    BY DEF Leashed
  <2> HIDE DEF there, home, cured, Moved, distance
  <2> QED  BY <1>7, <1>8, <1>9, <2>1
<1>11. PICK loc \in {at, script.loc} :
         /\ Moved(new, loc)
         /\ loc # script.loc => ~TooFar(npc, distance, target)
         /\ loc # script.loc => loc = at
  <2> HIDE DEF there, home, cured, Moved, distance
  <2> QED  BY <1>10
<1> HIDE DEF there, home, cured
<1>12. NpcOK(new)
  <2>1. loc \in Tiles
    BY <1>2, <1>4
  <2> QED  BY <1>11, <2>1 DEF NpcOK
<1>13. Near(new)
  <2>1. new.loc \in maps[new.map].walkable \cup {Home(new)}
    BY <1>2, <1>4, <1>11 DEF Home
  <2>2. distance_between(new.loc, Home(new)) <= IF target THEN script.leash_radius
                                                          ELSE script.random_walk_radius
    <3>1. new.loc = loc /\ Home(new) = script.loc
      BY <1>2, <1>11 DEF Home
    <3>2. CASE loc = script.loc
      BY <1>3, <1>5, <3>1, <3>2
    <3>3. CASE loc # script.loc
      <4>1. loc = at /\ ~TooFar(npc, distance, target)
        BY <1>11, <3>3
      <4>2. distance_between(new.loc, Home(new)) = distance
        BY <3>1, <4>1
      <4> HIDE DEF distance
      <4> QED  BY <1>3, <1>5, <4>1, <4>2 DEF TooFar
    <3> QED  BY <3>2, <3>3
  <2> QED  BY <1>11, <2>1, <2>2 DEF Near
<1> QED  BY <1>11, <1>12, <1>13

\* The AI of one NPC.
LEMMA RunAiStep ==
  ASSUME NpcsInv, RunAi
  PROVE  /\ NpcsInv'
         /\ Roomy => phase' = phase
         /\ \E npc \in npcs : \E new :
              /\ new.id = npc.id /\ new.map = npc.map /\ new.object = npc.object
              /\ npcs' = npcs \/ npcs' = (npcs \ {npc}) \cup {new}
<1>1. LoadedOK /\ NpcsOK /\ PhaseOK /\ NearHome /\ npc_id_counter \in Nat
  BY DEF NpcsInv, NpcsOK
<1>2. phase = "ai" /\ todo # {} /\ here \in DOMAIN maps
  BY <1>1 DEF RunAi, PhaseOK
<1>3. \A n \in npcs : NpcOK(n) /\ Near(n) /\ n.id \in Nat
  <2>1. \A n \in npcs : NpcOK(n) /\ Near(n)
    BY <1>1, NearAll DEF NpcsOK
  <2>2. \A n \in npcs : n.id \in 0 .. npc_id_counter - 1
    BY <2>1 DEF NpcOK
  <2> QED  BY <1>1, <2>1, <2>2
<1>4. Min(todo) \in todo
  <2>1. todo \subseteq Nat
    BY <1>1, <1>2, <1>3 DEF PhaseOK
  <2>2. \E x \in todo : \A y \in todo : x <= y
    BY <1>2, <2>1, LeastNatural
  <2> QED  BY <2>2 DEF Min
<1> DEFINE first == CHOOSE n \in npcs : n.id = Min(todo)
<1>5. \E n \in npcs : n.id = Min(todo)
  BY <1>1, <1>2, <1>4 DEF PhaseOK
<1>6. first \in npcs /\ first.id = Min(todo)
  BY <1>5
<1>7. PICK npc \in npcs : npc = first
  BY <1>6
<1>8. /\ todo' = todo \ {npc.id}
      /\ IF npc.hostility = hostility_never THEN UNCHANGED <<npcs, phase>>
         ELSE IF HasTarget(npc) /\ npc.move > 0
                THEN Becomes(npc, Leashed(npc, npc.loc, TRUE))
                ELSE Wander(npc)
  <2>1. /\ todo' = todo \ {first.id}
        /\ IF first.hostility = hostility_never THEN UNCHANGED <<npcs, phase>>
           ELSE IF HasTarget(first) /\ first.move > 0
                  THEN Becomes(first, Leashed(first, first.loc, TRUE))
                  ELSE Wander(first)
    BY DEF RunAi
  <2> HIDE DEF first
  <2> QED  BY <1>7, <2>1
<1>9. npc.id \in todo /\ npc.map = here
  <2>1. npc.id \in todo
    BY <1>4, <1>6, <1>7
  <2>2. PICK other \in npcs : other.id = npc.id /\ other.map = here
    BY <1>1, <1>2, <2>1 DEF PhaseOK
  <2> QED  BY <1>1, <2>1, <2>2 DEF NpcsOK
<1> HIDE DEF first
<1>10. UNCHANGED <<loadVars, npc_id_counter, quit, unvisited, tickVars>> /\ maps' = maps
  BY DEF RunAi, loadVars
<1>11. NpcOK(npc) /\ Near(npc) /\ npc.move \in Nat
  <2>1. /\ npc.map \in DOMAIN maps /\ npc.object \in maps[npc.map].objects /\ Spawns(npc.object)
        /\ \E kind \in Range(npc.object.script.npc_ids) : npc.move = kind.move
    BY <1>3 DEF NpcOK
  <2>2. \A kind \in Range(npc.object.script.npc_ids) : kind.move \in Nat
    BY <1>1, <2>1, SpawnerOK
  <2> QED  BY <1>3, <2>1, <2>2
<1> DEFINE Ways == {Reach(maps[here], npc.loc, num_steps) : num_steps \in 0 .. npc.move - 1}
<1>12. \A tiles \in Ways : tiles \subseteq maps[npc.map].walkable \cup {npc.loc}
  <2> TAKE tiles \in Ways
  <2>1. PICK num_steps \in 0 .. npc.move - 1 : tiles = Reach(maps[here], npc.loc, num_steps)
    OBVIOUS
  <2>2. num_steps \in Nat
    BY <1>11
  <2>3. Reach(maps[here], npc.loc, num_steps) \subseteq maps[here].walkable \cup {npc.loc}
    BY <2>2, Reached
  <2> QED  BY <1>9, <2>1, <2>3
<1>13. Roomy => npc.move # 0 /\ \A tiles \in Ways : tiles # {}
  <2> SUFFICES ASSUME Roomy PROVE npc.move # 0 /\ \A tiles \in Ways : tiles # {}
    OBVIOUS
  <2>1. /\ npc.object \in maps[here].objects /\ Spawns(npc.object) /\ npc.loc \in Tiles
        /\ \E kind \in Range(npc.object.script.npc_ids) : npc.move = kind.move
    BY <1>9, <1>11 DEF NpcOK
  <2>2. npc.move # 0 /\ StepsFrom(maps[here], npc.object.at) # {}
    BY <1>1, <1>2, <2>1, Room
  <2>3. maps[here].walkable \subseteq Tiles
    BY <1>1, <1>2, <2>1, SpawnerOK
  <2>4. StepsFrom(maps[here], npc.loc) # {}
    <3>1. npc.loc \in maps[here].walkable \/ npc.loc = npc.object.at
      BY <1>9, <1>11 DEF Near, Home
    <3>2. npc.loc \in Square(npc.loc, 1)
      BY <2>1 DEF Square, Tiles
    <3> QED  BY <2>2, <3>1, <3>2 DEF StepsFrom
  <2>5. ASSUME NEW tiles \in Ways PROVE tiles # {}
    <3>1. PICK num_steps \in 0 .. npc.move - 1 : tiles = Reach(maps[here], npc.loc, num_steps)
      OBVIOUS
    <3>2. num_steps \in Nat
      BY <1>11
    <3> QED  BY <2>1, <2>3, <2>4, <3>1, <3>2, Reached
  <2> QED  BY <2>2, <2>5
<1>14. \/ npcs' = npcs
       \/ \E at \in maps[npc.map].walkable \cup {npc.loc}, target \in BOOLEAN :
            npcs' = (npcs \ {npc}) \cup {Leashed(npc, at, target)}
  <2>1. Wander(npc) => \/ npcs' = npcs
                       \/ \E tiles \in Ways : \E at \in tiles :
                            npcs' = (npcs \ {npc}) \cup {Leashed(npc, at, FALSE)}
    BY DEF Wander, Becomes
  <2> HIDE DEF Ways
  <2> QED  BY <1>8, <1>12, <2>1 DEF Becomes
<1>15. phase' \in {"ai", "stuck", "crashed"} /\ (Roomy => phase' = phase)
  <2>1. Wander(npc) => \/ npc.move = 0 /\ phase' = "crashed"
                       \/ \E tiles \in Ways : tiles = {} /\ phase' = "stuck"
                       \/ phase' = phase
    BY DEF Wander, Becomes
  <2> HIDE DEF Ways
  <2> QED  BY <1>2, <1>8, <1>13, <2>1 DEF Becomes
<1> HIDE DEF Ways
<1>16. \A n : NpcOK(n) /\ Near(n) => NpcOK(n)' /\ Near(n)'
  <2>1. npc_id_counter' \in Nat /\ npc_id_counter' >= npc_id_counter
    BY <1>1, <1>10
  <2> QED  BY <1>1, <1>10, <2>1, OneStays
<1>17. PICK new : /\ new.id = npc.id /\ new.map = npc.map /\ new.object = npc.object
                  /\ NpcOK(new)' /\ Near(new)'
                  /\ npcs' = npcs \/ npcs' = (npcs \ {npc}) \cup {new}
  <2>1. CASE npcs' = npcs
    BY <1>11, <1>16, <2>1
  <2>2. CASE npcs' # npcs
    <3>1. PICK at \in maps[npc.map].walkable \cup {npc.loc}, target \in BOOLEAN :
            npcs' = (npcs \ {npc}) \cup {Leashed(npc, at, target)}
      BY <1>14, <2>2
    <3>2. PICK new : new = Leashed(npc, at, target)
      OBVIOUS
    <3>3. /\ new.id = npc.id /\ new.map = npc.map /\ new.object = npc.object
          /\ NpcOK(new) /\ Near(new)
      BY <1>1, <1>11, <3>2, LeashOK
    <3> QED  BY <1>16, <3>1, <3>2, <3>3
  <2> QED  BY <2>1, <2>2
<1>18. NpcsOK' /\ \A n \in npcs' : Near(n)'
  <2>1. \A n \in npcs' : NpcOK(n)' /\ Near(n)'
    BY <1>3, <1>16, <1>17
  <2>2. IsFiniteSet(npcs')
    <3>1. IsFiniteSet(npcs)
      BY <1>1 DEF NpcsOK
    <3>2. IsFiniteSet(npcs \ {npc})
      BY <3>1, FS_RemoveElement
    <3>3. IsFiniteSet((npcs \ {npc}) \cup {new})
      BY <3>2, FS_AddElement
    <3> QED  BY <1>17, <3>1, <3>3
  <2>3. \A n, other \in npcs' : n.id = other.id => n = other
    BY <1>1, <1>17 DEF NpcsOK
  <2> QED  BY <1>1, <1>10, <2>1, <2>2, <2>3 DEF NpcsOK
<1>19. PhaseOK'
  <2>1. \A id \in todo' : \E n \in npcs' : n.id = id /\ n.map = here'
    <3> TAKE id \in todo'
    <3>1. id \in todo /\ id # npc.id
      BY <1>8
    <3>2. PICK n \in npcs : n.id = id /\ n.map = here
      BY <1>1, <1>2, <3>1 DEF PhaseOK
    <3> QED  BY <1>10, <1>17, <3>1, <3>2 DEF tickVars
  <2> QED  BY <1>1, <1>2, <1>10, <1>15, <2>1 DEF PhaseOK, Spawning, tickVars
<1>20. LoadedOK' /\ NearHome'
  BY <1>1, <1>10, <1>18 DEF LoadedOK, loadVars, NearHome, Near
<1>21. NpcsInv'
  BY <1>18, <1>19, <1>20 DEF NpcsInv
<1> QED  BY <1>15, <1>17, <1>21

-----------------------------------------------------------------------------
(* What every run keeps. *)

\* A step that changes nothing changes nothing of the invariant.
LEMMA NpcsStutter == NpcsInv /\ UNCHANGED vars => NpcsInv'
<1> SUFFICES ASSUME NpcsInv, UNCHANGED vars PROVE NpcsInv'
  OBVIOUS
<1>1. UNCHANGED <<loadVars, npc_id_counter>> /\ npcs' \subseteq npcs /\ maps' = maps
  BY DEF vars, loadVars
<1>2. LoadedOK' /\ NpcsOK' /\ NearHome'
  BY <1>1, NpcsStay DEF NpcsInv
<1>3. PhaseOK'
  BY <1>1 DEF NpcsInv, PhaseOK, Spawning, vars
<1> QED  BY <1>2, <1>3 DEF NpcsInv

\* Every step keeps the invariant.
LEMMA NpcsStep == NpcsInv /\ [Next]_vars => NpcsInv'
BY LoadMapStep, TurnStep, CreateNpcStep, RunAiStep, NpcsStutter DEF Next

\* Maps, scripts and NPCs stay sound, and every NPC near its object.
THEOREM NpcsInvariant == Spec => []NpcsInv
BY NpcsInit, NpcsStep, PTL DEF Spec

\* NearHome of run npcs, for any maps, scripts, radii and players: an NPC keeps to its
\* own object, whatever create_npc draws and run_ai_on does.
THEOREM NpcsStayHome == Spec => []NearHome
<1>1. NpcsInv => NearHome
  BY DEF NpcsInv
<1> QED  BY <1>1, NpcsInvariant, PTL

\* SpawnsItsOwn of run npcs, for any maps and scripts: an NPC is one that the script
\* file or the resourceName of its own object names.
THEOREM OwnNpcsOnly == Spec => []SpawnsItsOwn
<1>1. NpcsInv => SpawnsItsOwn
  <2> SUFFICES ASSUME NpcsInv, NEW npc \in npcs, npc.object.layer = "Spawners"
               PROVE  \E list \in MapFileLists : \E file \in Range(list) :
                        \E o \in Range(file.objects) :
                          /\ file.walkable = maps[npc.map].walkable
                          /\ o.layer = "Spawners" /\ o.at = Home(npc) /\ o.name = npc.object.name
                          /\ npc.npc_id \in Named(npc.object, o)
    BY DEF SpawnsItsOwn
  <2>1. NpcOK(npc) /\ npc.map \in DOMAIN maps
    BY DEF NpcsInv, NpcsOK, NpcOK
  <2>2. MapOK(maps[npc.map])
    BY <2>1 DEF NpcsInv, LoadedOK
  <2>3. PICK file \in MapFiles : /\ maps[npc.map].walkable = file.walkable
                                 /\ ObjectsOK(maps[npc.map].objects, file)
    BY <2>2 DEF MapOK
  <2>4. PICK object : object = npc.object
    OBVIOUS
  <2>5. object \in maps[npc.map].objects /\ object.script # nullopt
        /\ \E kind \in Range(object.script.npc_ids) : npc.npc_id = kind.npc_id
    BY <2>1, <2>4 DEF NpcOK, Spawns
  <2>6. PICK o \in Range(file.objects) : ObjectOf(object, o)
    BY <2>3, <2>5 DEF ObjectsOK
  <2>7. o.layer = object.layer /\ o.at = object.at /\ o.name = object.name
    <3> DEFINE copy == [layer |-> o.layer, at |-> o.at, gid |-> o.gid, name |-> o.name,
                        script |-> object.script]
    <3>1. object = copy
      BY <2>6 DEF ObjectOf
    <3>2. copy.layer = o.layer /\ copy.at = o.at /\ copy.name = o.name
      OBVIOUS
    <3> HIDE DEF copy
    <3> QED  BY <3>1, <3>2
  <2>8. npc.npc_id \in Named(object, o)
    <3>1. KindsOf(object.script) \subseteq Named(object, o)
      BY <2>4, <2>5, <2>6, <2>7 DEF ObjectOf
    <3>2. npc.npc_id \in KindsOf(object.script)
      BY <2>5 DEF KindsOf
    <3> QED  BY <3>1, <3>2
  <2>9. PICK list \in MapFileLists : file \in Range(list)
    BY DEF MapFiles
  <2> QED  BY <2>3, <2>4, <2>6, <2>7, <2>8, <2>9 DEF Home
<1> QED  BY <1>1, NpcsInvariant, PTL

\* KeepsTicking of run npcs, for any maps where every object has a free tile next to it
\* and any NPCs that can move: the searches of create_npc and of the AI end, and no draw
\* divides by zero.
THEOREM TheLoopKeepsTicking == Roomy /\ Spec => []KeepsTicking
<1> SUFFICES ASSUME Roomy PROVE Spec => []KeepsTicking
  OBVIOUS
<1>1. Init => KeepsTicking
  BY DEF Init, KeepsTicking
<1>2. NpcsInv /\ KeepsTicking /\ [Next]_vars => KeepsTicking'
  <2> SUFFICES ASSUME NpcsInv, KeepsTicking, [Next]_vars PROVE KeepsTicking'
    OBVIOUS
  <2>1. CASE CreateNpc
    BY <2>1, CreateNpcStep DEF KeepsTicking
  <2>2. CASE RunAi
    BY <2>2, RunAiStep DEF KeepsTicking
  <2>3. CASE AllVisited \/ VisitMap \/ LoadMap \/ AllLoaded \/ Interrupt
    BY <2>3 DEF KeepsTicking, AllVisited, VisitMap, LoadMap, AllLoaded, Interrupt
  <2>4. CASE StartAi \/ EndTick \/ (\E i \in DOMAIN maps : BeginTick(i)) \/ UNCHANGED vars
    BY <2>4 DEF KeepsTicking, StartAi, EndTick, BeginTick, vars
  <2> QED  BY <2>1, <2>2, <2>3, <2>4 DEF Next
<1> QED  BY <1>1, <1>2, NpcsInvariant, PTL DEF Spec

-----------------------------------------------------------------------------
(* How many NPCs an object has. *)

Children(i, object) == {npc \in npcs : npc.map = i /\ npc.object = object}

\* The NPCs of the object that are still to be created.
Waiting(i, object) == IF Spawning THEN {r \in todo : r.map = i /\ r.object = object} ELSE {}

NumberOf(i, object) == Cardinality(Children(i, object)) + Cardinality(Waiting(i, object))

Start(layer, object) == IF layer = "NPCs" THEN 1 ELSE object.script.initial_spawn

\* Nothing has been created yet for this layer of the map.
Untouched(i, layer) ==
  \/ phase = "loading"
  \/ phase = "Spawners" /\ (layer = "NPCs" \/ i \in Range(unvisited))
  \/ phase = "NPCs" /\ layer = "NPCs" /\ i \in Range(unvisited)

\* Nothing cuts the creation of the first NPCs short.
Uncut == ~quit /\ \A i \in DOMAIN maps : {"Spawners", "NPCs"} \subseteq maps[i].layers

\* The object has as many as it starts with, and no less if all can be created and none
\* has died yet.
Counted(i, layer, object) ==
  /\ IsFiniteSet(Waiting(i, object))
  /\ IF Untouched(i, layer)
       THEN NumberOf(i, object) = 0
       ELSE /\ NumberOf(i, object) <= Start(layer, object)
            /\ /\ Spawning \/ (phase = "loaded" /\ Uncut)
               /\ \A kind \in Range(object.script.npc_ids) : kind.lacks = nullopt
               => NumberOf(i, object) = Start(layer, object)

CountOK ==
  /\ Spawning => \A j, k \in DOMAIN unvisited : unvisited[j] = unvisited[k] => j = k
  /\ \A i \in DOMAIN maps : \A layer \in {"Spawners", "NPCs"} : \A object \in Of(maps[i], layer) :
       Counted(i, layer, object)

\* The sets that are counted are finite.
LEMMA Countable ==
  ASSUME NpcsOK, NEW i, NEW object, IsFiniteSet(Waiting(i, object))
  PROVE  /\ IsFiniteSet(Children(i, object))
         /\ Cardinality(Children(i, object)) \in Nat
         /\ Cardinality(Waiting(i, object)) \in Nat
<1>1. IsFiniteSet(npcs) /\ Children(i, object) \in SUBSET npcs
  BY DEF NpcsOK, Children
<1>2. IsFiniteSet(Children(i, object))
  BY <1>1, FS_Subset
<1> QED  BY <1>2, FS_CardinalityType

\* The requests for one object are as many as its rounds.
LEMMA Rounds ==
  ASSUME NEW h, NEW object, NEW n \in Nat
  PROVE  LET requests == [map : {h}, object : {object}, round : 0 .. n - 1]
         IN  IsFiniteSet(requests) /\ Cardinality(requests) = n
<1> DEFINE requests == [map : {h}, object : {object}, round : 0 .. n - 1]
           S == 0 .. n - 1
           f == [k \in S |-> [map |-> h, object |-> object, round |-> k]]
<1>1. IsFiniteSet(S) /\ Cardinality(S) = n
  <2>1. n - 1 \in Int /\ 0 \in Int
    OBVIOUS
  <2>2. IsFiniteSet(S) /\ Cardinality(S) = IF 0 > n - 1 THEN 0 ELSE n - 1 - 0 + 1
    BY <2>1, FS_Interval
  <2> HIDE DEF S
  <2> QED  BY <2>2
<1>2. f \in [S -> requests]
  OBVIOUS
<1>3. \A a, b \in S : f[a] = f[b] => a = b
  <2> TAKE a, b \in S
  <2>1. f[a].round = a /\ f[b].round = b
    OBVIOUS
  <2> HIDE DEF f
  <2> QED  BY <2>1
<1>4. \A r \in requests : \E k \in S : f[k] = r
  OBVIOUS
<1>5. f \in Bijection(S, requests)
  <2> HIDE DEF S, f, requests
  <2> QED  BY <1>2, <1>3, <1>4 DEF Bijection, Injection, Surjection, IsInjective
<1>6. ExistsBijection(S, requests)
  <2> HIDE DEF S, f, requests
  <2> QED  BY <1>5 DEF ExistsBijection
<1> HIDE DEF S, f, requests
<1>7. IsFiniteSet(requests) /\ Cardinality(requests) = n
  BY <1>1, <1>6, FS_Bijection
<1> QED  BY <1>7 DEF requests

\* The two layers whose objects create NPCs.
Layers == {"Spawners", "NPCs"}

\* While no NPC is being created, fewer NPCs of the same maps count as well.
LEMMA FewerCount ==
  ASSUME NpcsOK, NpcsOK', CountOK, maps' = maps, npcs' \subseteq npcs,
         NEW i \in DOMAIN maps, NEW layer \in Layers, NEW object \in Of(maps[i], layer),
         Waiting(i, object)' = {}
  PROVE  /\ IsFiniteSet(Waiting(i, object)')
         /\ NumberOf(i, object)' = Cardinality(Children(i, object)')
         /\ NumberOf(i, object)' \in Nat
         /\ NumberOf(i, object)' <= NumberOf(i, object)
         /\ npcs' = npcs /\ Waiting(i, object) = {} => NumberOf(i, object)' = NumberOf(i, object)
<1>1. Counted(i, layer, object)
  BY DEF CountOK, Layers
<1> DEFINE was == Children(i, object)
<1>2. IsFiniteSet(was) /\ Cardinality(was) \in Nat /\ Cardinality(Waiting(i, object)) \in Nat
  BY <1>1, Countable DEF Counted
<1>3. PICK is : is = Children(i, object)'
  OBVIOUS
<1>4. is \in SUBSET was /\ (npcs' = npcs => is = was)
  BY <1>3 DEF Children
<1>5. IsFiniteSet(is) /\ Cardinality(is) <= Cardinality(was) /\ Cardinality(is) \in Nat
  <2> HIDE DEF was
  <2> QED  BY <1>2, <1>4, FS_Subset, FS_CardinalityType
<1>6. IsFiniteSet({}) /\ Cardinality({}) = 0
  BY FS_EmptySet
<1>7. NumberOf(i, object)' = Cardinality(is) + Cardinality({})
  BY <1>3 DEF NumberOf
<1>8. NumberOf(i, object) = Cardinality(was) + Cardinality(Waiting(i, object))
  BY DEF NumberOf
<1> HIDE DEF was
<1> QED  BY <1>2, <1>3, <1>4, <1>5, <1>6, <1>7, <1>8

\* Every object that spawns starts with a natural number of NPCs.
LEMMA StartOK ==
  ASSUME LoadedOK, NEW i \in DOMAIN maps, NEW layer \in Layers, NEW object \in Of(maps[i], layer)
  PROVE  Start(layer, object) \in Nat /\ object.layer = layer
<1>1. object \in maps[i].objects /\ Spawns(object) /\ object.layer = layer
  BY DEF Of
<1>2. object.script.initial_spawn \in Nat
  BY <1>1, SpawnerOK DEF ScriptOK
<1> QED  BY <1>1, <1>2 DEF Start

\* The count while files are loaded, and when they all are.
LEMMA CountLoading ==
  ASSUME NpcsInv, NpcsInv', CountOK, LoadMap \/ AllLoaded
  PROVE  CountOK'
<1>1. npcs' = {} /\ todo' = {} /\ phase' \in {"loading", "Spawners"}
  BY DEF LoadMap, AllLoaded, NpcsInv, PhaseOK
<1>2. maps' \in Seq(Range(maps')) /\ Spawning' = (phase' = "Spawners")
  BY <1>1 DEF NpcsInv, LoadedOK, Spawning
<1>3. phase' = "Spawners" => unvisited' = [i \in DOMAIN maps' |-> i]
  BY DEF LoadMap, AllLoaded, loadVars
<1>4. Spawning' => \A j, k \in DOMAIN unvisited' : unvisited'[j] = unvisited'[k] => j = k
  BY <1>2, <1>3
<1>5. ASSUME NEW i \in DOMAIN maps', NEW layer \in Layers, NEW object \in Of(maps'[i], layer)
      PROVE  Counted(i, layer, object)'
  <2>1. Untouched(i, layer)'
    BY <1>1, <1>3 DEF Untouched, Range
  <2>2. Waiting(i, object)' = {} /\ Children(i, object)' = {}
    BY <1>1 DEF Waiting, Children
  <2>3. IsFiniteSet({}) /\ Cardinality({}) = 0
    BY FS_EmptySet
  <2>4. NumberOf(i, object)' = 0
    BY <2>2, <2>3 DEF NumberOf
  <2> QED  BY <2>1, <2>2, <2>3, <2>4 DEF Counted
<1> QED  BY <1>4, <1>5 DEF CountOK, Layers, Of

\* The count when the last map of a layer has been visited.
LEMMA CountAllVisited ==
  ASSUME NpcsInv, NpcsInv', CountOK, AllVisited
  PROVE  CountOK'
<1>1. /\ maps' = maps /\ npcs' = npcs /\ todo' = {} /\ todo = {} /\ quit' = quit
      /\ unvisited = <<>>
      /\ \/ phase = "Spawners" /\ phase' = "NPCs" /\ unvisited' = [i \in DOMAIN maps |-> i]
         \/ phase = "NPCs" /\ phase' = "loaded" /\ unvisited' = unvisited
  BY DEF AllVisited, loadVars, Spawning
<1>2. Spawning' => \A j, k \in DOMAIN unvisited' : unvisited'[j] = unvisited'[k] => j = k
  BY <1>1 DEF Spawning
<1>3. ASSUME NEW i \in DOMAIN maps, NEW layer \in Layers, NEW object \in Of(maps[i], layer)
      PROVE  Counted(i, layer, object)'
  <2>1. Counted(i, layer, object)
    BY <1>3 DEF CountOK, Layers
  <2>2. Waiting(i, object)' = {} /\ Waiting(i, object) = {}
    BY <1>1 DEF Waiting
  <2>3. NumberOf(i, object)' = NumberOf(i, object) /\ IsFiniteSet(Waiting(i, object)')
    BY <1>1, <1>3, <2>2, FewerCount DEF NpcsInv
  <2>4. Range(unvisited) = {} /\ (phase = "Spawners" => i \in Range(unvisited'))
    BY <1>1 DEF Range
  <2>5. /\ phase = "Spawners" => (Untouched(i, layer)' <=> layer = "NPCs")
        /\ phase = "Spawners" => (Untouched(i, layer) <=> layer = "NPCs")
        /\ phase = "NPCs" => ~Untouched(i, layer)' /\ ~Untouched(i, layer)
    BY <1>1, <2>4 DEF Untouched
  <2>6. Spawning
    BY <1>1 DEF Spawning
  <2> QED  BY <1>1, <2>1, <2>3, <2>5, <2>6 DEF Counted, Start
<1> QED  BY <1>1, <1>2, <1>3 DEF CountOK, Layers, Of

\* The count in the steps between the ticks of the game loop, and after an interrupt.
LEMMA CountTicking ==
  ASSUME NpcsInv, NpcsInv', CountOK,
         Interrupt \/ StartAi \/ EndTick \/ \E i \in DOMAIN maps : BeginTick(i)
  PROVE  CountOK'
<1>1. maps' = maps /\ npcs' \subseteq npcs /\ unvisited' = unvisited
  BY DEF Interrupt, StartAi, EndTick, BeginTick, loadVars
<1>2. CASE Interrupt
  <2>1. /\ npcs' = npcs /\ todo' = todo /\ phase' = phase /\ ~Uncut'
    BY <1>2 DEF Interrupt, Uncut
  <2>2. Spawning' = Spawning
    BY <2>1 DEF Spawning
  <2>3. ASSUME NEW i \in DOMAIN maps, NEW layer \in Layers, NEW object \in Of(maps[i], layer)
        PROVE  Counted(i, layer, object)'
    <3>1. Counted(i, layer, object)
      BY <2>3 DEF CountOK, Layers
    <3>2. Waiting(i, object)' = Waiting(i, object) /\ Children(i, object)' = Children(i, object)
          /\ Untouched(i, layer)' = Untouched(i, layer)
      BY <1>1, <2>1, <2>2 DEF Waiting, Children, Untouched
    <3>3. NumberOf(i, object)' = NumberOf(i, object)
      BY <3>2 DEF NumberOf
    <3> QED  BY <2>1, <2>2, <3>1, <3>2, <3>3 DEF Counted, Start
  <2> QED  BY <1>1, <2>2, <2>3 DEF CountOK, Layers, Of
<1>3. CASE ~Interrupt
  <2>1. /\ phase \in {"loaded", "filling", "ai", "idle"}
        /\ phase' \in {"filling", "ai", "idle"}
    BY <1>3 DEF StartAi, EndTick, BeginTick
  <2>2. ~Spawning' /\ ~Spawning
    BY <2>1 DEF Spawning
  <2>3. ASSUME NEW i \in DOMAIN maps, NEW layer \in Layers, NEW object \in Of(maps[i], layer)
        PROVE  Counted(i, layer, object)'
    <3>1. Counted(i, layer, object)
      BY <2>3 DEF CountOK, Layers
    <3>2. Waiting(i, object)' = {} /\ ~Untouched(i, layer)' /\ ~Untouched(i, layer)
      BY <2>1, <2>2 DEF Waiting, Untouched
    <3>3. /\ NumberOf(i, object)' \in Nat
          /\ NumberOf(i, object)' <= NumberOf(i, object) /\ IsFiniteSet(Waiting(i, object)')
      BY <1>1, <2>3, <3>2, FewerCount DEF NpcsInv
    <3>4. NumberOf(i, object) \in Nat
      <4>1. Cardinality(Children(i, object)) \in Nat /\ Cardinality(Waiting(i, object)) \in Nat
        BY <3>1, Countable DEF Counted, NpcsInv
      <4> QED  BY <4>1 DEF NumberOf
    <3>5. Start(layer, object) \in Nat
      BY <2>3, StartOK DEF NpcsInv
    <3>6. NumberOf(i, object)' <= Start(layer, object)
      BY <3>1, <3>2, <3>3, <3>4, <3>5 DEF Counted
    <3>7. phase' # "loaded"
      BY <2>1
    <3> QED  BY <2>2, <3>2, <3>3, <3>6, <3>7 DEF Counted, Start
  <2> QED  BY <1>1, <2>2, <2>3 DEF CountOK, Layers, Of
<1> QED  BY <1>2, <1>3

\* The count when the next map of a layer is visited: its objects are to have all they
\* start with.
LEMMA CountVisitMap ==
  ASSUME NpcsInv, NpcsInv', CountOK, VisitMap
  PROVE  CountOK'
<1>1. /\ maps' = maps /\ npcs' = npcs /\ todo = {} /\ quit' = quit /\ unvisited # <<>>
      /\ Spawning /\ phase \in Layers
  BY DEF VisitMap, loadVars, Spawning, Layers
<1>2. unvisited \in Seq(DOMAIN maps)
  BY DEF NpcsInv, PhaseOK
<1>3. PICK h : h = Head(unvisited)
  OBVIOUS
<1>4. h \in DOMAIN maps
  BY <1>1, <1>2, <1>3
<1>5. CASE quit \/ phase \notin maps[h].layers
  <2>1. phase' = "loaded" /\ todo' = {} /\ unvisited' = unvisited
    BY <1>1, <1>3, <1>5 DEF VisitMap
  <2>2. ~Spawning' /\ ~Uncut'
    BY <1>1, <1>4, <1>5, <2>1 DEF Spawning, Uncut, Layers
  <2>3. ASSUME NEW i \in DOMAIN maps, NEW layer \in Layers, NEW object \in Of(maps[i], layer)
        PROVE  Counted(i, layer, object)'
    <3>1. Counted(i, layer, object)
      BY <2>3 DEF CountOK, Layers
    <3>2. Waiting(i, object)' = {} /\ ~Untouched(i, layer)'
      BY <2>1, <2>2 DEF Waiting, Untouched
    <3>3. /\ NumberOf(i, object)' \in Nat
          /\ NumberOf(i, object)' <= NumberOf(i, object) /\ IsFiniteSet(Waiting(i, object)')
      BY <1>1, <2>3, <3>2, FewerCount DEF NpcsInv
    <3>4. NumberOf(i, object) \in Nat
      <4>1. Cardinality(Children(i, object)) \in Nat /\ Cardinality(Waiting(i, object)) \in Nat
        BY <3>1, Countable DEF Counted, NpcsInv
      <4> QED  BY <4>1 DEF NumberOf
    <3>5. Start(layer, object) \in Nat
      BY <2>3, StartOK DEF NpcsInv
    <3>6. NumberOf(i, object)' <= Start(layer, object)
      BY <3>1, <3>3, <3>4, <3>5 DEF Counted
    <3> QED  BY <2>2, <3>2, <3>3, <3>6 DEF Counted, Start
  <2> QED  BY <1>1, <2>2, <2>3 DEF CountOK, Layers, Of
<1>6. CASE ~(quit \/ phase \notin maps[h].layers)
  <2>1. /\ phase' = phase /\ unvisited' = Tail(unvisited)
        /\ todo' = UNION {[map : {h}, object : {o}, round : Times(phase, o.script)] :
                             o \in Of(maps[h], phase)}
    BY <1>3, <1>6 DEF VisitMap
  <2>2. Spawning' /\ Spawning
    BY <1>1, <2>1 DEF Spawning
  <2>3. \A j, k \in DOMAIN unvisited : unvisited[j] = unvisited[k] => j = k
    BY <1>1 DEF CountOK
  <2>4. /\ \A j, k \in DOMAIN unvisited' : unvisited'[j] = unvisited'[k] => j = k
        /\ Range(unvisited)' = Range(unvisited) \ {h}
        /\ h \in Range(unvisited)
    <3>1. /\ Len(unvisited) \in Nat /\ Len(unvisited) >= 1 /\ DOMAIN unvisited = 1 .. Len(unvisited)
          /\ DOMAIN unvisited' = 1 .. Len(unvisited) - 1
          /\ \A j \in 1 .. Len(unvisited) - 1 : unvisited'[j] = unvisited[j + 1]
          /\ h = unvisited[1]
      BY <1>1, <1>2, <1>3, <2>1
    <3>2. \A j, k \in DOMAIN unvisited' : unvisited'[j] = unvisited'[k] => j = k
      <4> TAKE j, k \in DOMAIN unvisited'
      <4>1. j + 1 \in DOMAIN unvisited /\ k + 1 \in DOMAIN unvisited /\ j \in Nat /\ k \in Nat
        BY <3>1
      <4>2. unvisited'[j] = unvisited[j + 1] /\ unvisited'[k] = unvisited[k + 1]
        BY <3>1
      <4>3. unvisited[j + 1] = unvisited[k + 1] => j + 1 = k + 1
        BY <2>3, <4>1
      <4> QED  BY <4>1, <4>2, <4>3
    <3>3. ASSUME NEW x \in Range(unvisited)' PROVE x \in Range(unvisited) \ {h}
      <4>1. PICK j \in DOMAIN unvisited' : x = unvisited'[j]
        BY DEF Range
      <4>2. j + 1 \in DOMAIN unvisited /\ 1 \in DOMAIN unvisited /\ j + 1 # 1 /\ x = unvisited[j + 1]
        BY <3>1, <4>1
      <4> QED  BY <2>3, <3>1, <4>2 DEF Range
    <3>4. ASSUME NEW x \in Range(unvisited) \ {h} PROVE x \in Range(unvisited)'
      <4>1. PICK j \in DOMAIN unvisited : x = unvisited[j]
        BY DEF Range
      <4>2. j # 1 /\ j \in Nat
        BY <3>1, <4>1
      <4>3. j - 1 \in DOMAIN unvisited' /\ unvisited'[j - 1] = unvisited[j - 1 + 1] /\ j - 1 + 1 = j
        BY <3>1, <4>1, <4>2
      <4> QED  BY <4>1, <4>3 DEF Range
    <3>5. h \in Range(unvisited)
      BY <3>1 DEF Range
    <3> QED  BY <3>2, <3>3, <3>4, <3>5
  <2>5. ASSUME NEW i \in DOMAIN maps, NEW layer \in Layers, NEW object \in Of(maps[i], layer)
        PROVE  Counted(i, layer, object)'
    <3>1. Counted(i, layer, object)
      BY <2>5 DEF CountOK, Layers
    <3>2. object.layer = layer /\ Start(layer, object) \in Nat
      BY <2>5, StartOK DEF NpcsInv
    <3>3. Children(i, object)' = Children(i, object) /\ Waiting(i, object) = {}
      BY <1>1 DEF Children, Waiting
    <3>4. IsFiniteSet({}) /\ Cardinality({}) = 0
      BY FS_EmptySet
    <3>5. NumberOf(i, object) = Cardinality(Children(i, object))
          /\ Cardinality(Children(i, object)) \in Nat
      <4>1. Cardinality(Children(i, object)) \in Nat
        BY <3>1, Countable DEF Counted, NpcsInv
      <4> QED  BY <3>3, <3>4, <4>1 DEF NumberOf
    <3>6. PICK children : children = Children(i, object)
      OBVIOUS
    <3>7. Waiting(i, object)' = {r \in todo' : r.map = i /\ r.object = object}
      BY <2>2 DEF Waiting
    <3>8. CASE i = h /\ layer = phase
      <4>1. PICK requests : requests = [map : {h}, object : {object}, round : Times(phase, object.script)]
        OBVIOUS
      <4>2. Waiting(i, object)' = requests
        <5>1. \A r \in requests : r.map = h /\ r.object = object
          BY <4>1
        <5>2. requests \subseteq Waiting(i, object)'
          BY <2>1, <2>5, <3>7, <3>8, <4>1, <5>1
        <5>3. ASSUME NEW r \in Waiting(i, object)' PROVE r \in requests
          <6>1. r \in todo' /\ r.object = object
            BY <3>7
          <6>2. PICK o \in Of(maps[h], phase) :
                  r \in [map : {h}, object : {o}, round : Times(phase, o.script)]
            BY <2>1, <6>1
          <6>3. o = object
            BY <6>1, <6>2
          <6> QED  BY <4>1, <6>2, <6>3
        <5> QED  BY <5>2, <5>3
      <4>3. IsFiniteSet(requests) /\ Cardinality(requests) = Start(layer, object)
        <5>1. CASE layer = "Spawners"
          <6>1. Times(phase, object.script) = 0 .. Start(layer, object) - 1
            BY <3>8, <5>1 DEF Times, Start
          <6>2. PICK n \in Nat : n = Start(layer, object)
            BY <3>2
          <6>3. requests = [map : {h}, object : {object}, round : 0 .. n - 1]
            BY <4>1, <6>1, <6>2
          <6> QED  BY <6>2, <6>3, Rounds
        <5>2. CASE layer = "NPCs"
          <6>1. Times(phase, object.script) = {0} /\ Start(layer, object) = 1 /\ {0} = 0 .. 1 - 1
            BY <3>8, <5>2 DEF Times, Start
          <6>2. requests = [map : {h}, object : {object}, round : 0 .. 1 - 1]
            BY <4>1, <6>1
          <6> QED  BY <6>1, <6>2, Rounds
        <5> QED  BY <5>1, <5>2 DEF Layers
      <4>4. Untouched(i, layer) /\ ~Untouched(i, layer)'
        <5>1. i \in Range(unvisited) /\ i \notin Range(unvisited)'
          BY <2>4, <3>8
        <5> QED  BY <1>1, <2>1, <3>8, <5>1 DEF Untouched, Layers
      <4>5. NumberOf(i, object) = 0
        BY <3>1, <4>4 DEF Counted
      <4>6. NumberOf(i, object)' = Cardinality(children) + Cardinality(requests)
        BY <3>3, <3>6, <4>2 DEF NumberOf
      <4>7. NumberOf(i, object)' = Start(layer, object)
        <5>1. Cardinality(children) = 0
          BY <3>5, <3>6, <4>5
        <5> QED  BY <3>2, <4>3, <4>6, <5>1
      <4>8. IsFiniteSet(Waiting(i, object)')
        BY <4>2, <4>3
      <4> QED  BY <3>2, <4>4, <4>7, <4>8 DEF Counted, Start
    <3>9. CASE ~(i = h /\ layer = phase)
      <4>1. Waiting(i, object)' = {}
        <5> SUFFICES ASSUME NEW r \in Waiting(i, object)' PROVE FALSE
          OBVIOUS
        <5>1. r \in todo' /\ r.object = object /\ r.map = i
          BY <3>7
        <5>2. PICK o \in Of(maps[h], phase) :
                r \in [map : {h}, object : {o}, round : Times(phase, o.script)]
          BY <2>1, <5>1
        <5>3. r.object = o /\ r.map = h /\ o.layer = phase
          BY <5>2 DEF Of
        <5> QED  BY <3>2, <3>9, <5>1, <5>3
      <4>2. Untouched(i, layer)' = Untouched(i, layer)
        <5>1. i # h => (i \in Range(unvisited)' <=> i \in Range(unvisited))
          BY <2>4
        <5> QED  BY <1>1, <2>1, <3>9, <5>1 DEF Untouched, Layers
      <4>3. NumberOf(i, object)' = NumberOf(i, object) /\ IsFiniteSet(Waiting(i, object)')
        BY <1>1, <2>5, <3>3, <4>1, FewerCount DEF NpcsInv
      <4> QED  BY <2>2, <3>1, <4>2, <4>3 DEF Counted, Start
    <3> QED  BY <3>8, <3>9
  <2> QED  BY <1>1, <2>4, <2>5 DEF CountOK, Layers, Of
<1> QED  BY <1>5, <1>6

\* The count when a request is met: one NPC more and one request less, or one request
\* less for an NPC that cannot be created.
LEMMA CountCreateNpc ==
  ASSUME NpcsInv, NpcsInv', CountOK, CreateNpc
  PROVE  CountOK'
<1>0. PICK r \in todo : \E kind \in Range(r.object.script.npc_ids) :
             todo' = todo \ {r} /\ Made(r, kind)
  BY CreateNpcStep
<1>1. PICK kind \in Range(r.object.script.npc_ids) : todo' = todo \ {r} /\ Made(r, kind)
  BY <1>0
<1>2. /\ maps' = maps /\ quit' = quit /\ unvisited' = unvisited /\ todo # {}
      /\ Spawning
  BY DEF CreateNpc, Creating, NpcsInv, PhaseOK, loadVars
<1>3. phase' = phase \/ phase' = "stuck"
  BY <1>1 DEF Made
<1>4. ASSUME NEW i \in DOMAIN maps, NEW layer \in Layers, NEW object \in Of(maps[i], layer)
      PROVE  Counted(i, layer, object)'
  <2>1. Counted(i, layer, object)
    BY <1>4 DEF CountOK, Layers
  <2>2. Start(layer, object) \in Nat
    BY <1>4, StartOK DEF NpcsInv
  <2>3. PICK children : children = Children(i, object)
    OBVIOUS
  <2>4. PICK requests : requests = Waiting(i, object)
    OBVIOUS
  <2>5. /\ IsFiniteSet(children) /\ Cardinality(children) \in Nat
        /\ IsFiniteSet(requests) /\ Cardinality(requests) \in Nat
    BY <2>1, <2>3, <2>4, Countable DEF Counted, NpcsInv
  <2>6. NumberOf(i, object) = Cardinality(children) + Cardinality(requests)
    BY <2>3, <2>4 DEF NumberOf
  <2>7. requests = {q \in todo : q.map = i /\ q.object = object}
    BY <1>2, <2>4 DEF Waiting
  <2>8. IsFiniteSet({}) /\ Cardinality({}) = 0
    BY FS_EmptySet
  <2>9. CASE phase' = "stuck"
    <3>1. ~Spawning' /\ ~Untouched(i, layer)' /\ Waiting(i, object)' = {} /\ phase' # "loaded"
      BY <2>9 DEF Spawning, Untouched, Waiting
    <3>2. npcs' = npcs
      BY <1>1, <1>2, <2>9 DEF Made, Spawning
    <3>3. NumberOf(i, object)' = Cardinality(children) + Cardinality({})
      BY <2>3, <3>1, <3>2 DEF NumberOf, Children
    <3>4. NumberOf(i, object)' <= Start(layer, object)
      <4>1. NumberOf(i, object) <= Start(layer, object)
        BY <2>1, <2>2 DEF Counted
      <4>2. NumberOf(i, object)' = Cardinality(children)
        BY <2>5, <2>8, <3>3
      <4> QED  BY <2>2, <2>5, <2>6, <4>1, <4>2
    <3> QED  BY <2>8, <3>1, <3>4 DEF Counted, Start
  <2>10. CASE phase' = phase /\ phase' # "stuck"
    <3>1. Spawning' /\ Untouched(i, layer)' = Untouched(i, layer)
      BY <1>2, <2>10 DEF Spawning, Untouched
    <3>2. Waiting(i, object)' = requests \ {r}
      BY <1>1, <2>7, <3>1 DEF Waiting
    <3>3. IsFiniteSet(requests \ {r})
          /\ Cardinality(requests \ {r}) = IF r \in requests THEN Cardinality(requests) - 1
                                                             ELSE Cardinality(requests)
      BY <2>5, FS_RemoveElement
    <3>4. PICK born : born = Children(i, object)'
      OBVIOUS
    <3>5. NumberOf(i, object)' = Cardinality(born) + Cardinality(requests \ {r})
      BY <3>2, <3>4 DEF NumberOf
    <3>6. r \in requests => Cardinality(requests) # 0
      BY <2>5, FS_EmptySet
    <3>7. CASE r \notin requests
      <4>1. ~(r.map = i /\ r.object = object)
        BY <1>1, <2>7, <3>7
      <4>2. born = children
        BY <1>1, <2>3, <2>10, <3>4, <4>1 DEF Made, Children
      <4>3. NumberOf(i, object)' = NumberOf(i, object)
        BY <2>6, <3>3, <3>5, <3>7, <4>2
      <4> QED  BY <1>2, <2>1, <3>1, <3>2, <3>3, <4>3 DEF Counted, Start
    <3>8. CASE r \in requests
      <4>1. r.map = i /\ r.object = object
        BY <2>7, <3>8
      <4>2. ~Untouched(i, layer)
        <5>1. NumberOf(i, object) # 0
          BY <2>5, <2>6, <3>6, <3>8
        <5> QED  BY <2>1, <5>1 DEF Counted
      <4>3. CASE npcs' = npcs /\ kind.lacks \in {"sprite", "stat"}
        <5>1. born = children
          BY <2>3, <3>4, <4>3 DEF Children
        <5>2. ~ \A k \in Range(object.script.npc_ids) : k.lacks = nullopt
          BY <1>1, <4>1, <4>3, NpcsAssumption
        <5>3. NumberOf(i, object)' <= Start(layer, object)
          <6>1. NumberOf(i, object) <= Start(layer, object)
            BY <2>1, <4>2 DEF Counted
          <6>2. NumberOf(i, object)' = Cardinality(children) + (Cardinality(requests) - 1)
            BY <3>3, <3>5, <3>8, <5>1
          <6> QED  BY <2>2, <2>5, <2>6, <6>1, <6>2
        <5> QED  BY <3>1, <3>2, <3>3, <4>2, <5>2, <5>3 DEF Counted, Start
      <4>4. CASE \E npc : /\ npc \notin npcs
                          /\ npc.map = r.map /\ npc.object = r.object
                          /\ npcs' = npcs \cup {npc}
        <5>1. PICK npc : /\ npc \notin npcs
                         /\ npc.map = r.map /\ npc.object = r.object
                         /\ npcs' = npcs \cup {npc}
          BY <4>4
        <5>2. born = children \cup {npc} /\ npc \notin children
          BY <2>3, <3>4, <4>1, <5>1 DEF Children
        <5>3. Cardinality(born) = Cardinality(children) + 1
          BY <2>5, <5>2, FS_AddElement
        <5>4. NumberOf(i, object)' = NumberOf(i, object)
          <6>1. NumberOf(i, object)' = (Cardinality(children) + 1) + (Cardinality(requests) - 1)
            BY <3>3, <3>5, <3>8, <5>3
          <6> QED  BY <2>5, <2>6, <6>1
        <5> QED  BY <1>2, <2>1, <3>1, <3>2, <3>3, <5>4 DEF Counted, Start
      <4> QED  BY <1>1, <2>10, <4>3, <4>4 DEF Made
    <3> QED  BY <3>7, <3>8
  <2> QED  BY <1>3, <2>9, <2>10
<1>5. Spawning' => \A j, k \in DOMAIN unvisited' : unvisited'[j] = unvisited'[k] => j = k
  BY <1>2 DEF CountOK
<1> QED  BY <1>2, <1>4, <1>5 DEF CountOK, Layers, Of

\* The count when the AI runs on an NPC: it stays one of its object's.
LEMMA CountRunAi ==
  ASSUME NpcsInv, NpcsInv', CountOK, RunAi
  PROVE  CountOK'
<1>0. PICK npc \in npcs :
        \E new :
          /\ new.id = npc.id /\ new.map = npc.map /\ new.object = npc.object
          /\ npcs' = npcs \/ npcs' = (npcs \ {npc}) \cup {new}
  BY RunAiStep
<1>1. PICK new :
        /\ new.id = npc.id /\ new.map = npc.map /\ new.object = npc.object
        /\ npcs' = npcs \/ npcs' = (npcs \ {npc}) \cup {new}
  BY <1>0
<1>2. maps' = maps /\ phase = "ai" /\ phase' \in {"ai", "stuck", "crashed"}
  BY DEF RunAi, Becomes, Wander, loadVars
<1>3. ASSUME NEW i \in DOMAIN maps, NEW layer \in Layers, NEW object \in Of(maps[i], layer)
      PROVE  Counted(i, layer, object)'
  <2>1. Counted(i, layer, object)
    BY <1>3 DEF CountOK, Layers
  <2>2. PICK children : children = Children(i, object)
    OBVIOUS
  <2>3. PICK born : born = Children(i, object)'
    OBVIOUS
  <2>4. Waiting(i, object) = {} /\ Waiting(i, object)' = {}
        /\ ~Untouched(i, layer) /\ ~Untouched(i, layer)'
    BY <1>2 DEF Waiting, Untouched, Spawning
  <2>5. IsFiniteSet(children) /\ Cardinality(children) \in Nat
    BY <2>1, <2>2, Countable DEF Counted, NpcsInv
  <2>6. Cardinality(born) = Cardinality(children)
    <3>1. CASE npcs' = npcs
      BY <2>2, <2>3, <3>1 DEF Children
    <3>2. CASE npcs' = (npcs \ {npc}) \cup {new}
      <4>1. CASE ~(npc.map = i /\ npc.object = object)
        BY <1>1, <2>2, <2>3, <3>2, <4>1 DEF Children
      <4>2. CASE npc.map = i /\ npc.object = object
        <5>1. born = (children \ {npc}) \cup {new} /\ npc \in children
          BY <1>1, <2>2, <2>3, <3>2, <4>2 DEF Children
        <5>2. new \notin children \ {npc}
          <6>1. \A n \in npcs : n.id = npc.id => n = npc
            BY DEF NpcsInv, NpcsOK
          <6> QED  BY <1>1, <2>2, <6>1 DEF Children
        <5>3. IsFiniteSet(children \ {npc}) /\ Cardinality(children \ {npc}) = Cardinality(children) - 1
          BY <2>5, <5>1, FS_RemoveElement
        <5>4. Cardinality(born) = Cardinality(children \ {npc}) + 1
          BY <5>1, <5>2, <5>3, FS_AddElement
        <5> QED  BY <2>5, <5>3, <5>4
      <4> QED  BY <4>1, <4>2
    <3> QED  BY <1>1, <3>1, <3>2
  <2>7. NumberOf(i, object)' = NumberOf(i, object)
    BY <2>2, <2>3, <2>4, <2>6 DEF NumberOf
  <2>8. ~Spawning' /\ phase' # "loaded"
    BY <1>2 DEF Spawning
  <2> QED  BY <2>1, <2>4, <2>7, <2>8, FS_EmptySet DEF Counted, Start
<1>4. ~Spawning'
  BY <1>2 DEF Spawning
<1> QED  BY <1>2, <1>3, <1>4 DEF CountOK, Layers, Of

\* The count holds all along.
LEMMA CountInvariant == Spec => []CountOK
<1>1. Init => CountOK
  <2> SUFFICES ASSUME Init PROVE CountOK
    OBVIOUS
  <2>1. DOMAIN maps = {} /\ ~Spawning
    BY DEF Init, Spawning
  <2> QED  BY <2>1 DEF CountOK
<1>2. NpcsInv /\ NpcsInv' /\ CountOK /\ [Next]_vars => CountOK'
  <2> SUFFICES ASSUME NpcsInv, NpcsInv', CountOK, [Next]_vars PROVE CountOK'
    OBVIOUS
  <2>1. CASE UNCHANGED vars
    <3>1. /\ maps' = maps /\ npcs' = npcs /\ todo' = todo /\ unvisited' = unvisited
          /\ phase' = phase /\ quit' = quit
      BY <2>1 DEF vars, loadVars
    <3>2. Spawning' = Spawning /\ Uncut' = Uncut
      BY <3>1 DEF Spawning, Uncut
    <3>3. ASSUME NEW i, NEW layer, NEW object, Counted(i, layer, object)
          PROVE  Counted(i, layer, object)'
      <4>1. /\ Waiting(i, object)' = Waiting(i, object)
            /\ Children(i, object)' = Children(i, object)
            /\ Untouched(i, layer)' = Untouched(i, layer)
        BY <3>1, <3>2 DEF Waiting, Children, Untouched
      <4>2. NumberOf(i, object)' = NumberOf(i, object)
        BY <4>1 DEF NumberOf
      <4> QED  BY <3>1, <3>2, <3>3, <4>1, <4>2 DEF Counted, Start
    <3> QED  BY <3>1, <3>2, <3>3 DEF CountOK, Of
  <2>2. CASE Next
    BY <2>2, CountLoading, CountVisitMap, CountAllVisited, CountCreateNpc, CountTicking,
       CountRunAi DEF Next
  <2> QED  BY <2>1, <2>2
<1> QED  BY <1>1, <1>2, NpcsInvariant, PTL DEF Spec

\* Populated of run npcs, for any maps and scripts: no object ever has more NPCs than it
\* starts with, and each has all of them when loading ends, where every map has both
\* layers, nobody interrupted, and its NPCs lack nothing.
THEOREM EveryoneIsThere == Spec => []Populated
<1>1. NpcsInv /\ CountOK => Populated
  <2> SUFFICES ASSUME NpcsInv, CountOK, NEW i \in DOMAIN maps, NEW layer \in {"Spawners", "NPCs"},
                      NEW o \in Of(maps[i], layer)
               PROVE  /\ Born(i, o) <= Start(layer, o)
                      /\ /\ phase = "loaded" /\ ~quit
                         /\ \A j \in DOMAIN maps : {"Spawners", "NPCs"} \subseteq maps[j].layers
                         /\ \A kind \in Range(o.script.npc_ids) : kind.lacks = nullopt
                         => Born(i, o) = Start(layer, o)
    BY DEF Populated, Start
  <2>1. Counted(i, layer, o)
    BY DEF CountOK
  <2>2. Start(layer, o) \in Nat
    BY StartOK DEF NpcsInv, Layers
  <2>3. {npc \in On(i) : npc.object = o} = Children(i, o)
    BY DEF On, Children
  <2>4. Born(i, o) = Cardinality(Children(i, o))
    BY <2>3 DEF Born
  <2>5. Born(i, o) \in Nat /\ Cardinality(Waiting(i, o)) \in Nat
    BY <2>1, <2>4, Countable DEF Counted, NpcsInv
  <2>6. NumberOf(i, o) = Born(i, o) + Cardinality(Waiting(i, o))
    BY <2>4 DEF NumberOf
  <2>7. NumberOf(i, o) <= Start(layer, o)
    BY <2>1, <2>2 DEF Counted
  <2>8. Born(i, o) <= Start(layer, o)
    BY <2>2, <2>5, <2>6, <2>7
  <2>9. ASSUME phase = "loaded", ~quit,
               \A j \in DOMAIN maps : {"Spawners", "NPCs"} \subseteq maps[j].layers,
               \A kind \in Range(o.script.npc_ids) : kind.lacks = nullopt
        PROVE  Born(i, o) = Start(layer, o)
    <3>1. Uncut /\ ~Untouched(i, layer) /\ Waiting(i, o) = {}
      BY <2>9 DEF Uncut, Untouched, Waiting, Spawning
    <3>2. NumberOf(i, o) = Start(layer, o)
      BY <2>1, <2>9, <3>1 DEF Counted
    <3>3. Cardinality(Waiting(i, o)) = 0
      BY <3>1, FS_EmptySet
    <3> QED  BY <2>5, <2>6, <3>2, <3>3
  <2> QED  BY <2>8, <2>9
<1> QED  BY <1>1, NpcsInvariant, CountInvariant, PTL
=============================================================================
