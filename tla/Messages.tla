------------------------------- MODULE Messages -------------------------------
(***************************************************************************)
(* The messages of the websocket protocol (messages/): what serialize      *)
(* writes and deserialize reads.  A document is a function from the keys   *)
(* it has to their values, an array a sequence; a message is the record of *)
(* its class's members, under the names of their keys.                     *)
(*                                                                         *)
(* Documents are those some serialize wrote, or such a one with keys left  *)
(* out.  Strings, booleans and uint64 come back as they went.  A uint32 is *)
(* a number below UintSize, and what is written wider and read narrower    *)
(* keeps its low bits (rapidjson with its assertions off).                 *)
(***************************************************************************)
EXTENDS Integers, Sequences

CONSTANTS UintSize,  \* 2^32
          nullopt,   \* what deserialize answers to a document it refuses
          null       \* JSON's null

ASSUME MessagesAssumption == UintSize \in Nat \ {0, 1}

AsUint(v) == v % UintSize
AsInt(v)  == IF AsUint(v) < UintSize \div 2 THEN AsUint(v) ELSE AsUint(v) - UintSize

\* d[k]: a member that is not there is null.
Member(d, k) == IF k \in DOMAIN d THEN d[k] ELSE null

Has(d, keys) == keys \subseteq DOMAIN d

\* Each element of an array through read; one that is refused spoils them all.
ReadAll(read(_), array) ==
  LET values == [i \in DOMAIN array |-> read(array[i])]
  IN  IF array = null \/ \E i \in DOMAIN array : values[i] = nullopt THEN nullopt
                                                                   ELSE values
WriteAll(write(_), vector) == [i \in DOMAIN vector |-> write(vector[i])]

-----------------------------------------------------------------------------
(* The objects inside of messages. *)

\* A stat_component: the value is written as int64; objects read it with GetUint,
\* character_select_response with GetInt64.
read_stat(v) == IF Has(v, {"name", "value"})
                  THEN [name |-> v.name, value |-> AsUint(v.value)] ELSE nullopt
read_stat_mod(v) == IF Has(v, {"name", "value"})
                      THEN [name |-> v.name, value |-> v.value] ELSE nullopt

account_object == {"is_game_master", "is_tester", "has_done_trial",
                   "trial_ends_unix_timestamp", "subscription_tier", "username"}

read_account_object(v) ==
  IF Has(v, account_object) THEN [k \in account_object |-> v[k]] ELSE nullopt

skill_object == {"name", "value"}

read_skill_object(v) ==
  IF Has(v, skill_object) THEN [k \in skill_object |-> v[k]] ELSE nullopt

item_object == {"tier", "value", "sprite", "name", "description", "item_type", "stats"}

read_item_object(v) ==
  LET stats == ReadAll(read_stat, Member(v, "stats"))
  IN  IF Has(v, item_object) /\ stats # nullopt THEN [v EXCEPT !.stats = stats]
                                                ELSE nullopt

character_object == {"name", "gender", "allegiance", "baseclass", "map_name", "level",
                     "slot", "gold", "x", "y", "stats", "items", "skills"}

\* Mutant of read_character_object: gold and slot are taken for each other.
read_character_object_swapped(v) ==
  LET stats  == ReadAll(read_stat, Member(v, "stats"))
      items  == ReadAll(read_item_object, Member(v, "items"))
      skills == ReadAll(read_skill_object, Member(v, "skills"))
  IN  IF Has(v, character_object) /\ nullopt \notin {stats, items, skills}
        THEN [k \in character_object |-> CASE k = "stats"  -> stats
                                           [] k = "items"  -> items
                                           [] k = "skills" -> skills
                                           [] k = "slot"   -> v.gold
                                           [] k = "gold"   -> v.slot
                                           [] OTHER        -> v[k]]
        ELSE nullopt

read_character_object(v) ==
  LET stats  == ReadAll(read_stat, Member(v, "stats"))
      items  == ReadAll(read_item_object, Member(v, "items"))
      skills == ReadAll(read_skill_object, Member(v, "skills"))
  IN  IF Has(v, character_object) /\ nullopt \notin {stats, items, skills}
        THEN [k \in character_object |-> CASE k = "stats"  -> stats
                                           [] k = "items"  -> items
                                           [] k = "skills" -> skills
                                           [] OTHER        -> v[k]]
        ELSE nullopt

character_allegiance == {"name", "description", "stat_mods", "items", "skills"}

\* Of an item only the name is read.
read_item_name(v) ==
  IF Has(v, {"name"})
    THEN [tier |-> 0, value |-> 0, sprite |-> 0, name |-> v.name, description |-> "",
          item_type |-> "", stats |-> <<>>]
    ELSE nullopt

read_allegiance(v) ==
  LET stat_mods == ReadAll(read_stat_mod, Member(v, "stat_mods"))
      items     == ReadAll(read_item_name, Member(v, "items"))
      skills    == ReadAll(read_skill_object, Member(v, "skills"))
  IN  IF Has(v, character_allegiance) /\ nullopt \notin {stat_mods, items, skills}
        THEN [name |-> v.name, description |-> v.description, stat_mods |-> stat_mods,
              items |-> items, skills |-> skills]
        ELSE nullopt

character_class == {"name", "description", "stat_mods"}

read_class(v) ==
  LET stat_mods == ReadAll(read_stat_mod, Member(v, "stat_mods"))
  IN  IF Has(v, character_class) /\ stat_mods # nullopt
        THEN [v EXCEPT !.stat_mods = stat_mods] ELSE nullopt

\* An NPC of a map update: written with Uint, read with GetInt.
npc_object == {"name", "sprite", "x", "y"}

write_npc(o) == [o EXCEPT !.x = AsUint(@), !.y = AsUint(@)]

read_npc(v) ==
  IF Has(v, npc_object) THEN [name |-> v.name, sprite |-> AsUint(AsInt(v.sprite)),
                              x |-> AsInt(v.x), y |-> AsInt(v.y)]
                        ELSE nullopt

-----------------------------------------------------------------------------
(***************************************************************************)
(* The classes: the type string, the keys next to "type", and those of     *)
(* them that deserialize insists on.  Members without an entry in Reader   *)
(* or Writer below come back as they went.                                 *)
(***************************************************************************)
Class(type, keys) == [type |-> type, keys |-> keys, required |-> keys]

login_request            == Class("Auth:login", {"username", "password"})
register_request         == Class("Auth:register", {"username", "password", "email"})
play_character_request   == Class("Game:play_character", {"slot"})
delete_character_request == Class("Game:delete_character", {"slot"})
character_select_request == Class("Game:character_select", {})
create_character_request ==
  Class("Game:create_character", {"slot", "name", "gender", "allegiance", "baseclass"})
move_request             == Class("Game:move", {"x", "y"})
message_request          == Class("Chat:send", {"content"})
set_motd_request         == Class("Moderator:motd", {"motd"})

user_joined_response       == Class("Auth:join", account_object)
user_left_response         == Class("Auth:leave", {"username"})
user_entered_game_response == Class("Auth:enter_game", {"username"})
user_left_game_response    == Class("Auth:left_game", {"username"})
message_response           == Class("Chat:receive", {"user", "content", "source",
                                                     "unix_timestamp"})
update_motd_response       == Class("Moderator:update_motd", {"motd"})
generic_ok_response        == Class("error_response", {"message"})
generic_error_response     == Class("error_response", {"error", "prettyErrorName",
                                                       "prettyErrorDesc", "clearLoginData"})

\* online_users is read without a look for it.
login_response ==
  [type |-> "Auth:login_response",
   keys |-> {"username", "email", "motd", "players", "online_users"},
   required |-> {"username", "email", "motd", "players"}]

\* The character's keys stand beside the type, and are looked for with it.
create_character_response == Class("Game:create_character_response", character_object)

character_select_response ==
  Class("Game:character_select_response", {"base_stats", "allegiances", "classes"})

map_update_response == Class("Game:map_update", {"npcs"})

Requests == {login_request, register_request, play_character_request,
             delete_character_request, character_select_request, create_character_request,
             move_request, message_request, set_motd_request}
Responses == {user_joined_response, user_left_response, user_entered_game_response,
              user_left_game_response, message_response, update_motd_response,
              generic_ok_response, generic_error_response, login_response,
              create_character_response, character_select_response, map_update_response}

\* m.serialize()
serialize(class, m) ==
  [k \in class.keys \cup {"type"} |->
     CASE k = "type" -> class.type
       [] k = "npcs" -> WriteAll(write_npc, m.npcs)
       [] OTHER      -> m[k]]

\* How the arrays of the classes are read.
ReadMember(d, k) ==
  CASE k = "players"      -> ReadAll(read_character_object, Member(d, k))
    [] k = "online_users" -> ReadAll(read_account_object, Member(d, k))
    [] k = "base_stats"   -> ReadAll(read_stat_mod, Member(d, k))
    [] k = "allegiances"  -> ReadAll(read_allegiance, Member(d, k))
    [] k = "classes"      -> ReadAll(read_class, Member(d, k))
    [] k = "npcs"         -> ReadAll(read_npc, Member(d, k))
    [] OTHER              -> Member(d, k)

\* Mutant of Refused: the keys are not looked for.
RefusedByType(class, d) == "type" \notin DOMAIN d \/ d.type # class.type

\* Mutant of Refused: the type is not compared.
RefusedByKeys(class, d) == ~Has(d, class.required \cup {"type"})

\* deserialize refuses d at once.  move_request leaves the look for "type" to
\* on_message, which has done it.
Refused(class, d) == ~Has(d, class.required \cup {"type"}) \/ d.type # class.type

\* class::deserialize(d)
deserialize(class, d) ==
  IF Refused(class, d) THEN nullopt
  ELSE LET members == IF class = create_character_response THEN read_character_object(d)
                      ELSE [k \in class.keys |-> ReadMember(d, k)]
       IN  IF members = nullopt \/ (\E k \in class.keys : members[k] = nullopt)
             THEN nullopt ELSE members

\* add_routes: the class the handler of a type reads.
Route(type) == CHOOSE class \in Requests : class.type = type
-----------------------------------------------------------------------------
(***************************************************************************)
(* What the members' types in the headers allow.  Beyond them, a stat that *)
(* is read as uint32 is one, an item of an allegiance has but a name, and  *)
(* the coordinates of an NPC are small enough for the sign to survive.     *)
(***************************************************************************)
Value(v) == v \notin {null, nullopt}

Object(v, keys) == /\ Value(v)
                   /\ v = [k \in keys |-> v[k]]
                   /\ \A k \in keys : Value(v[k])

Vector(a, Element(_)) == Object(a, DOMAIN a) /\ \A i \in DOMAIN a : Element(a[i])

Stat(v)      == Object(v, {"name", "value"})
UintStat(v)  == Stat(v) /\ v.value \in 0 .. UintSize - 1
Skill(v)     == Object(v, skill_object)
Account(v)   == Object(v, account_object)
Item(v)      == Object(v, item_object) /\ Vector(v.stats, UintStat)
NamedItem(v) == Object(v, item_object) /\ v = read_item_name(v)

Character(v) == /\ Object(v, character_object)
                /\ Vector(v.stats, UintStat)
                /\ Vector(v.items, Item)
                /\ Vector(v.skills, Skill)

Allegiance(v) == /\ Object(v, character_allegiance)
                 /\ Vector(v.stat_mods, Stat)
                 /\ Vector(v.items, NamedItem)
                 /\ Vector(v.skills, Skill)

BaseClass(v) == Object(v, character_class) /\ Vector(v.stat_mods, Stat)

Npc(o) == /\ Object(o, npc_object)
          /\ o.sprite \in 0 .. UintSize - 1
          /\ {o.x, o.y} \subseteq -(UintSize \div 2) .. UintSize \div 2 - 1

\* m is a message of the class.  (An array is not null, the one that write_npc makes
\* of the NPCs no more than the others.)
Message(class, m) ==
  /\ Object(m, class.keys)
  /\ class = login_response => Vector(m.players, Character) /\ Vector(m.online_users, Account)
  /\ class = create_character_response => Character(m)
  /\ class = character_select_response => /\ Vector(m.base_stats, Stat)
                                          /\ Vector(m.allegiances, Allegiance)
                                          /\ Vector(m.classes, BaseClass)
  /\ class = map_update_response => /\ Vector(m.npcs, Npc)
                                    /\ Value(WriteAll(write_npc, m.npcs))
=============================================================================
