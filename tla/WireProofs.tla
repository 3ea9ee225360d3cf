------------------------------ MODULE WireProofs ------------------------------
(***************************************************************************)
(* What is written is what is read, for every message whose members the    *)
(* headers allow, whatever the width of an integer, the dictionary and     *)
(* what is said.                                                           *)
(***************************************************************************)
EXTENDS Wire, SequenceTheorems, FiniteSetTheorems, WellFoundedInduction, TLAPS

(***************************************************************************)
(* Numbers: the conversions of rapidjson give a number back that fits.     *)
(***************************************************************************)

\* The half of the numbers that an int has.
Small == -(UintSize \div 2) .. UintSize \div 2 - 1

\* A number that fits is what GetUint returns.
LEMMA UintKept == ASSUME NEW v \in 0 .. UintSize - 1 PROVE AsUint(v) = v
  BY MessagesAssumption DEF AsUint

\* A coordinate that is written with Uint and read with GetInt keeps its sign.
LEMMA IntKept == ASSUME NEW v \in Small PROVE AsInt(AsUint(v)) = v
<1>1. UintSize \div 2 \in Nat /\ 2 * (UintSize \div 2) <= UintSize
  BY MessagesAssumption
<1>2. AsUint(v) = IF v >= 0 THEN v ELSE v + UintSize
  <2>1. v \in Int /\ -UintSize <= v /\ v < UintSize
    BY <1>1, MessagesAssumption DEF Small
  <2> QED  BY <2>1, MessagesAssumption DEF AsUint
<1>3. AsUint(AsUint(v)) = AsUint(v)
  <2>1. AsUint(v) \in 0 .. UintSize - 1
    BY <1>1, <1>2, MessagesAssumption DEF Small
  <2> QED  BY <2>1, UintKept
<1>4. v < 0 => v + UintSize >= UintSize \div 2
  BY <1>1, MessagesAssumption DEF Small
<1> QED  BY <1>1, <1>2, <1>3, <1>4, MessagesAssumption DEF AsInt, Small

\* A sprite that is written with Uint and read with GetInt is one again as a uint32.
LEMMA SpriteKept == ASSUME NEW v \in 0 .. UintSize - 1 PROVE AsUint(AsInt(v)) = v
<1>1. AsUint(v) = v
  BY UintKept
<1>2. CASE v < UintSize \div 2
  BY <1>1, <1>2 DEF AsInt
<1>3. CASE ~(v < UintSize \div 2)
  <2>1. AsInt(v) = v - UintSize
    BY <1>1, <1>3 DEF AsInt
  <2>2. v - UintSize \in Int /\ -UintSize <= v - UintSize /\ v - UintSize < 0
    BY MessagesAssumption
  <2>3. (v - UintSize) % UintSize = v - UintSize + UintSize
    BY <2>2, MessagesAssumption
  <2> QED  BY <2>1, <2>3, MessagesAssumption DEF AsUint
<1> QED  BY <1>2, <1>3

-----------------------------------------------------------------------------
(***************************************************************************)
(* Objects: each reader returns the object it is given, and an array of    *)
(* such objects is what is read from it.                                   *)
(***************************************************************************)

\* A stat whose value fits is read as it was written.
LEMMA StatRead == ASSUME NEW v, UintStat(v) PROVE read_stat(v) = v /\ Value(v)
<1>1. v = [k \in {"name", "value"} |-> v[k]] /\ Value(v) /\ v.value \in 0 .. UintSize - 1
  BY DEF UintStat, Stat, Object
<1>2. AsUint(v.value) = v.value
  BY <1>1, UintKept
<1> QED  BY <1>1, <1>2 DEF read_stat, Has

\* A stat that is read as int64 is read as it was written.
LEMMA StatModRead == ASSUME NEW v, Stat(v) PROVE read_stat_mod(v) = v /\ Value(v)
  BY DEF Stat, Object, read_stat_mod, Has

\* So are an account and a skill,
LEMMA AccountRead == ASSUME NEW v, Account(v) PROVE read_account_object(v) = v /\ Value(v)
  BY DEF Account, Object, read_account_object, Has

\* the one of a character as the one of an allegiance,
LEMMA SkillRead == ASSUME NEW v, Skill(v) PROVE read_skill_object(v) = v /\ Value(v)
  BY DEF Skill, Object, read_skill_object, Has

\* an item of which there is but the name,
LEMMA NamedItemRead == ASSUME NEW v, NamedItem(v) PROVE read_item_name(v) = v /\ Value(v)
  BY DEF NamedItem, Object

\* and an NPC, which is written in another form than it is read in.
LEMMA NpcRead == ASSUME NEW o, Npc(o) PROVE read_npc(write_npc(o)) = o /\ Value(o)
<1>1. /\ o = [k \in npc_object |-> o[k]] /\ Value(o)
      /\ o.sprite \in 0 .. UintSize - 1 /\ o.x \in Small /\ o.y \in Small
  BY DEF Npc, Object, Small
<1>2. write_npc(o) = [k \in npc_object |-> IF k \in {"x", "y"} THEN AsUint(o[k]) ELSE o[k]]
  BY <1>1 DEF write_npc, npc_object
<1>3. AsUint(AsInt(o.sprite)) = o.sprite /\ AsInt(AsUint(o.x)) = o.x /\ AsInt(AsUint(o.y)) = o.y
  BY <1>1, SpriteKept, IntKept
<1>4. read_npc(write_npc(o)) = [name |-> o.name, sprite |-> o.sprite, x |-> o.x, y |-> o.y]
  BY <1>2, <1>3 DEF read_npc, Has, npc_object
<1>5. o = [name |-> o.name, sprite |-> o.sprite, x |-> o.x, y |-> o.y]
  BY <1>1 DEF npc_object
<1> QED  BY <1>1, <1>4, <1>5

\* An array of stats is read element by element,
LEMMA StatsRead == ASSUME NEW a, Vector(a, UintStat) PROVE ReadAll(read_stat, a) = a
<1>1. a = [i \in DOMAIN a |-> a[i]] /\ Value(a) /\ \A i \in DOMAIN a : UintStat(a[i])
  BY DEF Vector, Object
<1>2. \A i \in DOMAIN a : read_stat(a[i]) = a[i] /\ a[i] # nullopt
  BY <1>1, StatRead DEF Value
<1>3. [i \in DOMAIN a |-> read_stat(a[i])] = a
  BY <1>1, <1>2
<1> QED  BY <1>1, <1>2, <1>3 DEF ReadAll, Value

\* and so is one of stats that are read as int64,
LEMMA StatModsRead == ASSUME NEW a, Vector(a, Stat) PROVE ReadAll(read_stat_mod, a) = a
<1>1. a = [i \in DOMAIN a |-> a[i]] /\ Value(a) /\ \A i \in DOMAIN a : Stat(a[i])
  BY DEF Vector, Object
<1>2. \A i \in DOMAIN a : read_stat_mod(a[i]) = a[i] /\ a[i] # nullopt
  BY <1>1, StatModRead DEF Value
<1>3. [i \in DOMAIN a |-> read_stat_mod(a[i])] = a
  BY <1>1, <1>2
<1> QED  BY <1>1, <1>2, <1>3 DEF ReadAll, Value

\* of accounts,
LEMMA AccountsRead == ASSUME NEW a, Vector(a, Account) PROVE ReadAll(read_account_object, a) = a
<1>1. a = [i \in DOMAIN a |-> a[i]] /\ Value(a) /\ \A i \in DOMAIN a : Account(a[i])
  BY DEF Vector, Object
<1>2. \A i \in DOMAIN a : read_account_object(a[i]) = a[i] /\ a[i] # nullopt
  BY <1>1, AccountRead DEF Value
<1>3. [i \in DOMAIN a |-> read_account_object(a[i])] = a
  BY <1>1, <1>2
<1> QED  BY <1>1, <1>2, <1>3 DEF ReadAll, Value

\* of skills,
LEMMA SkillsRead == ASSUME NEW a, Vector(a, Skill) PROVE ReadAll(read_skill_object, a) = a
<1>1. a = [i \in DOMAIN a |-> a[i]] /\ Value(a) /\ \A i \in DOMAIN a : Skill(a[i])
  BY DEF Vector, Object
<1>2. \A i \in DOMAIN a : read_skill_object(a[i]) = a[i] /\ a[i] # nullopt
  BY <1>1, SkillRead DEF Value
<1>3. [i \in DOMAIN a |-> read_skill_object(a[i])] = a
  BY <1>1, <1>2
<1> QED  BY <1>1, <1>2, <1>3 DEF ReadAll, Value

\* of items with their names,
LEMMA NamedItemsRead == ASSUME NEW a, Vector(a, NamedItem) PROVE ReadAll(read_item_name, a) = a
<1>1. a = [i \in DOMAIN a |-> a[i]] /\ Value(a) /\ \A i \in DOMAIN a : NamedItem(a[i])
  BY DEF Vector, Object
<1>2. \A i \in DOMAIN a : read_item_name(a[i]) = a[i] /\ a[i] # nullopt
  BY <1>1, NamedItemRead DEF Value
<1>3. [i \in DOMAIN a |-> read_item_name(a[i])] = a
  BY <1>1, <1>2
<1> QED  BY <1>1, <1>2, <1>3 DEF ReadAll, Value

\* and of NPCs.
LEMMA NpcsRead ==
  ASSUME NEW a, Vector(a, Npc), Value(WriteAll(write_npc, a))
  PROVE  ReadAll(read_npc, WriteAll(write_npc, a)) = a
<1>1. a = [i \in DOMAIN a |-> a[i]] /\ Value(a) /\ \A i \in DOMAIN a : Npc(a[i])
  BY DEF Vector, Object
<1> DEFINE b == [i \in DOMAIN a |-> write_npc(a[i])]
<1>2. DOMAIN b = DOMAIN a /\ \A i \in DOMAIN a : b[i] = write_npc(a[i])
  OBVIOUS
<1>3. \A i \in DOMAIN a : read_npc(b[i]) = a[i] /\ a[i] # nullopt
  BY <1>1, <1>2, NpcRead DEF Value
<1>4. b = WriteAll(write_npc, a)
  BY DEF WriteAll
<1> HIDE DEF b
<1>5. [i \in DOMAIN b |-> read_npc(b[i])] = a
  BY <1>1, <1>2, <1>3
<1>6. ReadAll(read_npc, b) = a
  BY <1>1, <1>2, <1>3, <1>4, <1>5 DEF ReadAll, Value
<1> QED  BY <1>4, <1>6

\* An item with its stats is read as it was written,
LEMMA ItemRead == ASSUME NEW v, Item(v) PROVE read_item_object(v) = v /\ Value(v)
<1>1. v = [k \in item_object |-> v[k]] /\ Value(v) /\ Value(v.stats) /\ Vector(v.stats, UintStat)
  BY DEF Item, Object, item_object
<1>2. "stats" \in DOMAIN v /\ Has(v, item_object)
  BY <1>1 DEF Has, item_object
<1>3. ReadAll(read_stat, Member(v, "stats")) = v.stats
  BY <1>1, <1>2, StatsRead DEF Member
<1>4. [v EXCEPT !.stats = v.stats] = v
  BY <1>1, <1>2
<1> QED  BY <1>1, <1>2, <1>3, <1>4 DEF read_item_object, Value

\* and so are the items of a character,
LEMMA ItemsRead == ASSUME NEW a, Vector(a, Item) PROVE ReadAll(read_item_object, a) = a
<1>1. a = [i \in DOMAIN a |-> a[i]] /\ Value(a) /\ \A i \in DOMAIN a : Item(a[i])
  BY DEF Vector, Object
<1>2. \A i \in DOMAIN a : read_item_object(a[i]) = a[i] /\ a[i] # nullopt
  BY <1>1, ItemRead DEF Value
<1>3. [i \in DOMAIN a |-> read_item_object(a[i])] = a
  BY <1>1, <1>2
<1> QED  BY <1>1, <1>2, <1>3 DEF ReadAll, Value

\* the character, from its own object or from a document that has other keys beside,
LEMMA CharacterRead ==
  ASSUME NEW v, Character(v),
         NEW d, character_object \subseteq DOMAIN d, \A k \in character_object : d[k] = v[k]
  PROVE  read_character_object(d) = v /\ Value(v)
<1>1. /\ v = [k \in character_object |-> v[k]] /\ Value(v)
      /\ Value(v.stats) /\ Value(v.items) /\ Value(v.skills)
      /\ Vector(v.stats, UintStat) /\ Vector(v.items, Item) /\ Vector(v.skills, Skill)
  BY DEF Character, Object, character_object
<1>2. Member(d, "stats") = v.stats /\ Member(d, "items") = v.items /\ Member(d, "skills") = v.skills
  BY DEF Member, character_object
<1>3. /\ ReadAll(read_stat, Member(d, "stats")) = v.stats
      /\ ReadAll(read_item_object, Member(d, "items")) = v.items
      /\ ReadAll(read_skill_object, Member(d, "skills")) = v.skills
  BY <1>1, <1>2, StatsRead, ItemsRead, SkillsRead
<1>4. nullopt \notin {v.stats, v.items, v.skills}
  BY <1>1 DEF Value
<1> DEFINE back == [k \in character_object |-> CASE k = "stats"  -> v.stats
                                               [] k = "items"  -> v.items
                                               [] k = "skills" -> v.skills
                                               [] OTHER        -> d[k]]
<1>5. read_character_object(d) = back
  BY <1>3, <1>4 DEF read_character_object, Has
<1>6. \A k \in character_object : back[k] = v[k]
  OBVIOUS
<1>7. back = v
  BY <1>1, <1>6
<1> QED  BY <1>1, <1>5, <1>7

\* and the characters of a user;
LEMMA CharactersRead ==
  ASSUME NEW a, Vector(a, Character) PROVE ReadAll(read_character_object, a) = a
<1>1. a = [i \in DOMAIN a |-> a[i]] /\ Value(a) /\ \A i \in DOMAIN a : Character(a[i])
  BY DEF Vector, Object
<1>2. ASSUME NEW i \in DOMAIN a PROVE read_character_object(a[i]) = a[i] /\ a[i] # nullopt
  <2>1. character_object \subseteq DOMAIN a[i]
    BY <1>1 DEF Character, Object
  <2> QED  BY <1>1, <2>1, CharacterRead DEF Value
<1>3. [i \in DOMAIN a |-> read_character_object(a[i])] = a
  BY <1>1, <1>2
<1> QED  BY <1>1, <1>2, <1>3 DEF ReadAll, Value

\* an allegiance with what it gives a character,
LEMMA AllegianceRead == ASSUME NEW v, Allegiance(v) PROVE read_allegiance(v) = v /\ Value(v)
<1>1. /\ v = [k \in character_allegiance |-> v[k]] /\ Value(v)
      /\ Value(v.stat_mods) /\ Value(v.items) /\ Value(v.skills)
      /\ Vector(v.stat_mods, Stat) /\ Vector(v.items, NamedItem) /\ Vector(v.skills, Skill)
  BY DEF Allegiance, Object, character_allegiance
<1>2. Has(v, character_allegiance) /\ Member(v, "stat_mods") = v.stat_mods
      /\ Member(v, "items") = v.items /\ Member(v, "skills") = v.skills
  BY <1>1 DEF Member, Has, character_allegiance
<1>3. /\ ReadAll(read_stat_mod, Member(v, "stat_mods")) = v.stat_mods
      /\ ReadAll(read_item_name, Member(v, "items")) = v.items
      /\ ReadAll(read_skill_object, Member(v, "skills")) = v.skills
  BY <1>1, <1>2, StatModsRead, NamedItemsRead, SkillsRead
<1>4. nullopt \notin {v.stat_mods, v.items, v.skills}
  BY <1>1 DEF Value
<1>5. v = [name |-> v.name, description |-> v.description, stat_mods |-> v.stat_mods,
           items |-> v.items, skills |-> v.skills]
  BY <1>1 DEF character_allegiance
<1> QED  BY <1>1, <1>2, <1>3, <1>4, <1>5 DEF read_allegiance

\* the allegiances,
LEMMA AllegiancesRead ==
  ASSUME NEW a, Vector(a, Allegiance) PROVE ReadAll(read_allegiance, a) = a
<1>1. a = [i \in DOMAIN a |-> a[i]] /\ Value(a) /\ \A i \in DOMAIN a : Allegiance(a[i])
  BY DEF Vector, Object
<1>2. \A i \in DOMAIN a : read_allegiance(a[i]) = a[i] /\ a[i] # nullopt
  BY <1>1, AllegianceRead DEF Value
<1>3. [i \in DOMAIN a |-> read_allegiance(a[i])] = a
  BY <1>1, <1>2
<1> QED  BY <1>1, <1>2, <1>3 DEF ReadAll, Value

\* a class with its stats,
LEMMA ClassRead == ASSUME NEW v, BaseClass(v) PROVE read_class(v) = v /\ Value(v)
<1>1. /\ v = [k \in character_class |-> v[k]] /\ Value(v)
      /\ Value(v.stat_mods) /\ Vector(v.stat_mods, Stat)
  BY DEF BaseClass, Object, character_class
<1>2. Has(v, character_class) /\ Member(v, "stat_mods") = v.stat_mods
  BY <1>1 DEF Member, Has, character_class
<1>3. ReadAll(read_stat_mod, Member(v, "stat_mods")) = v.stat_mods
  BY <1>1, <1>2, StatModsRead
<1>4. [v EXCEPT !.stat_mods = v.stat_mods] = v
  BY <1>1
<1> QED  BY <1>1, <1>2, <1>3, <1>4 DEF read_class, Value

\* and the classes.
LEMMA ClassesRead == ASSUME NEW a, Vector(a, BaseClass) PROVE ReadAll(read_class, a) = a
<1>1. a = [i \in DOMAIN a |-> a[i]] /\ Value(a) /\ \A i \in DOMAIN a : BaseClass(a[i])
  BY DEF Vector, Object
<1>2. \A i \in DOMAIN a : read_class(a[i]) = a[i] /\ a[i] # nullopt
  BY <1>1, ClassRead DEF Value
<1>3. [i \in DOMAIN a |-> read_class(a[i])] = a
  BY <1>1, <1>2
<1> QED  BY <1>1, <1>2, <1>3 DEF ReadAll, Value

-----------------------------------------------------------------------------
(***************************************************************************)
(* Classes: a document is taken by the class that wrote it and refused by  *)
(* every other, and by that one too when it lacks a key.                   *)
(***************************************************************************)

\* The type strings.
LEMMA Types ==
  /\ login_request.type = "Auth:login" /\ register_request.type = "Auth:register"
  /\ play_character_request.type = "Game:play_character"
  /\ delete_character_request.type = "Game:delete_character"
  /\ character_select_request.type = "Game:character_select"
  /\ create_character_request.type = "Game:create_character"
  /\ move_request.type = "Game:move" /\ message_request.type = "Chat:send"
  /\ set_motd_request.type = "Moderator:motd"
  /\ user_joined_response.type = "Auth:join" /\ user_left_response.type = "Auth:leave"
  /\ user_entered_game_response.type = "Auth:enter_game"
  /\ user_left_game_response.type = "Auth:left_game"
  /\ message_response.type = "Chat:receive"
  /\ update_motd_response.type = "Moderator:update_motd"
  /\ generic_ok_response.type = "error_response"
  /\ generic_error_response.type = "error_response"
  /\ login_response.type = "Auth:login_response"
  /\ create_character_response.type = "Game:create_character_response"
  /\ character_select_response.type = "Game:character_select_response"
  /\ map_update_response.type = "Game:map_update"
  BY DEF Class, login_request, register_request, play_character_request,
         delete_character_request, character_select_request, create_character_request,
         move_request, message_request, set_motd_request, user_joined_response,
         user_left_response, user_entered_game_response, user_left_game_response,
         message_response, update_motd_response, generic_ok_response,
         generic_error_response, login_response, create_character_response,
         character_select_response, map_update_response

\* Only the two generic responses have one type.
LEMMA TypeApart ==
  ASSUME NEW c \in Classes, NEW class \in Classes, c.type = class.type, c # class
  PROVE  \/ c = generic_ok_response /\ class = generic_error_response
         \/ c = generic_error_response /\ class = generic_ok_response
  BY Types DEF Classes, Requests, Responses

\* A request reaches the class that wrote it.
LEMMA Routed == ASSUME NEW class \in Requests PROVE Route(class.type) = class
<1>1. \A c \in Requests : c.type = class.type => c = class
  BY Types DEF Requests
<1> QED  BY <1>1 DEF Route

\* What a class looks for is among its keys, and only the online_users of a
\* login_response are a key it does not look for.
LEMMA KeysOf ==
  ASSUME NEW class \in Classes
  PROVE  /\ "type" \notin class.keys
         /\ class.required \subseteq class.keys
         /\ \A k \in class.keys \ class.required :
              class = login_response /\ k = "online_users"
<1>1. ASSUME NEW type, NEW keys, "type" \notin keys, class = Class(type, keys)
      PROVE  /\ "type" \notin class.keys
             /\ class.required \subseteq class.keys
             /\ \A k \in class.keys \ class.required :
                  class = login_response /\ k = "online_users"
  BY <1>1 DEF Class
<1>2. CASE class = login_response
  BY <1>2 DEF login_response
<1>3. CASE class \in Requests
  BY <1>1, <1>3
     DEF Requests, login_request, register_request, play_character_request,
         delete_character_request, character_select_request, create_character_request,
         move_request, message_request, set_motd_request
<1>4. CASE class \in Responses \ {login_response}
  BY <1>1, <1>4
     DEF Responses, user_joined_response,
         user_left_response, user_entered_game_response, user_left_game_response,
         message_response, update_motd_response, generic_ok_response,
         generic_error_response, create_character_response,
         character_select_response, map_update_response, account_object, character_object
<1> QED  BY <1>2, <1>3, <1>4 DEF Classes

\* The arrays and the classes they belong to.
LEMMA ArraysOf ==
  ASSUME NEW class \in Classes
  PROVE  /\ class.keys \cap {"players", "online_users"} # {} => class = login_response
         /\ class.keys \cap {"base_stats", "allegiances", "classes"} # {}
              => class = character_select_response
         /\ "npcs" \in class.keys => class = map_update_response
<1>1. CASE class \in Requests
  BY <1>1
     DEF Class, Requests, login_request, register_request, play_character_request,
         delete_character_request, character_select_request, create_character_request,
         move_request, message_request, set_motd_request
<1>2. CASE class \in Responses
  BY <1>2
     DEF Class, Responses, user_joined_response,
         user_left_response, user_entered_game_response, user_left_game_response,
         message_response, update_motd_response, generic_ok_response,
         generic_error_response, login_response, create_character_response,
         character_select_response, map_update_response, account_object, character_object
<1> QED  BY <1>1, <1>2 DEF Classes

\* What serialize writes.
LEMMA Written ==
  ASSUME NEW class \in Classes, NEW m, Message(class, m)
  PROVE  /\ DOMAIN serialize(class, m) = class.keys \cup {"type"}
         /\ serialize(class, m).type = class.type
         /\ \A k \in class.keys \ {"npcs"} : serialize(class, m)[k] = m[k]
         /\ "npcs" \in class.keys => serialize(class, m)["npcs"] = WriteAll(write_npc, m.npcs)
<1>1. "type" \notin class.keys
  BY KeysOf
<1> DEFINE npcs == WriteAll(write_npc, m.npcs)
<1>2. serialize(class, m) = [k \in class.keys \cup {"type"} |->
                               CASE k = "type" -> class.type [] k = "npcs" -> npcs
                                 [] OTHER -> m[k]]
  BY DEF serialize
<1> HIDE DEF npcs
<1>3. QED  BY <1>1, <1>2 DEF npcs

\* Each member is read from the document as it was in the message.
LEMMA MemberRead ==
  ASSUME NEW class \in Classes, class # create_character_response,
         NEW m, Message(class, m), NEW k \in class.keys
  PROVE  ReadMember(serialize(class, m), k) = m[k] /\ m[k] # nullopt
<1> DEFINE d == serialize(class, m)
<1>1. DOMAIN d = class.keys \cup {"type"}
  BY Written
<1>2. k # "npcs" => Member(d, k) = m[k]
  BY <1>1, Written DEF Member
<1>3. k = "npcs" => Member(d, k) = WriteAll(write_npc, m.npcs)
  BY <1>1, Written DEF Member
<1>4. m[k] # nullopt
  BY DEF Message, Object, Value
<1>5. class = login_response => Vector(m.players, Character) /\ Vector(m.online_users, Account)
  BY DEF Message
<1>6. class = character_select_response =>
        Vector(m.base_stats, Stat) /\ Vector(m.allegiances, Allegiance)
          /\ Vector(m.classes, BaseClass)
  BY DEF Message
<1>7. class = map_update_response => Vector(m.npcs, Npc) /\ Value(WriteAll(write_npc, m.npcs))
  BY DEF Message
<1> HIDE DEF d
<1>8. CASE k = "players"
  <2>1. Member(d, k) = m.players /\ Vector(m.players, Character)
    BY <1>2, <1>5, <1>8, ArraysOf
  <2>2. ReadAll(read_character_object, Member(d, k)) = m.players
    BY <2>1, CharactersRead
  <2> QED  BY <1>4, <1>8, <2>2 DEF ReadMember, d
<1>9. CASE k = "online_users"
  <2>1. Member(d, k) = m.online_users /\ Vector(m.online_users, Account)
    BY <1>2, <1>5, <1>9, ArraysOf
  <2>2. ReadAll(read_account_object, Member(d, k)) = m.online_users
    BY <2>1, AccountsRead
  <2> QED  BY <1>4, <1>9, <2>2 DEF ReadMember, d
<1>10. CASE k = "base_stats"
  <2>1. Member(d, k) = m.base_stats /\ Vector(m.base_stats, Stat)
    BY <1>2, <1>6, <1>10, ArraysOf
  <2>2. ReadAll(read_stat_mod, Member(d, k)) = m.base_stats
    BY <2>1, StatModsRead
  <2> QED  BY <1>4, <1>10, <2>2 DEF ReadMember, d
<1>11. CASE k = "allegiances"
  <2>1. Member(d, k) = m.allegiances /\ Vector(m.allegiances, Allegiance)
    BY <1>2, <1>6, <1>11, ArraysOf
  <2>2. ReadAll(read_allegiance, Member(d, k)) = m.allegiances
    BY <2>1, AllegiancesRead
  <2> QED  BY <1>4, <1>11, <2>2 DEF ReadMember, d
<1>12. CASE k = "classes"
  <2>1. Member(d, k) = m.classes /\ Vector(m.classes, BaseClass)
    BY <1>2, <1>6, <1>12, ArraysOf
  <2>2. ReadAll(read_class, Member(d, k)) = m.classes
    BY <2>1, ClassesRead
  <2> QED  BY <1>4, <1>12, <2>2 DEF ReadMember, d
<1>13. CASE k = "npcs"
  <2>1. Member(d, k) = WriteAll(write_npc, m.npcs) /\ Vector(m.npcs, Npc)
        /\ Value(WriteAll(write_npc, m.npcs))
    BY <1>3, <1>7, <1>13, ArraysOf
  <2>2. ReadAll(read_npc, Member(d, k)) = m.npcs
    BY <2>1, NpcsRead
  <2> QED  BY <1>4, <1>13, <2>2 DEF ReadMember, d
<1>14. CASE k \notin {"players", "online_users", "base_stats", "allegiances", "classes", "npcs"}
  BY <1>2, <1>4, <1>14 DEF ReadMember, d
<1> QED  BY <1>8, <1>9, <1>10, <1>11, <1>12, <1>13, <1>14

\* deserialize undoes serialize.
LEMMA Reads ==
  ASSUME NEW class \in Classes, NEW m, Message(class, m)
  PROVE  deserialize(class, serialize(class, m)) = m
<1> DEFINE d == serialize(class, m)
<1>1. DOMAIN d = class.keys \cup {"type"} /\ d.type = class.type
  BY Written
<1>2. ~Refused(class, d)
  BY <1>1, KeysOf DEF Refused, Has
<1>3. m = [k \in class.keys |-> m[k]] /\ m # nullopt /\ \A k \in class.keys : m[k] # nullopt
  BY DEF Message, Object, Value
<1>4. CASE class = create_character_response
  <2>1. class.keys = character_object
    BY <1>4 DEF create_character_response, Class
  <2>2. \A k \in character_object : d[k] = m[k]
    <3>1. "npcs" \notin character_object
      BY DEF character_object
    <3>2. \A k \in class.keys \ {"npcs"} : d[k] = m[k]
      BY Written
    <3> QED  BY <2>1, <3>1, <3>2
  <2>3. Character(m)
    BY <1>4 DEF Message
  <2> HIDE DEF d
  <2>4. read_character_object(d) = m
    BY <1>1, <2>1, <2>2, <2>3, CharacterRead
  <2>5. deserialize(class, d) = m
    BY <1>2, <1>3, <1>4, <2>4 DEF deserialize
  <2> QED  BY <2>5 DEF d
<1>5. CASE class # create_character_response
  <2>1. \A k \in class.keys : ReadMember(d, k) = m[k]
    BY <1>5, MemberRead
  <2> HIDE DEF d
  <2>2. [k \in class.keys |-> ReadMember(d, k)] = m
    BY <1>3, <2>1
  <2>3. deserialize(class, d) = m
    BY <1>2, <1>3, <1>5, <2>2 DEF deserialize
  <2> QED  BY <2>3 DEF d
<1> QED  BY <1>4, <1>5

\* A class refuses what another one wrote, whole or without a key.
LEMMA OthersRefuse ==
  ASSUME NEW class \in Classes, NEW m, Message(class, m), NEW c \in Classes, c # class,
         NEW keys \in SUBSET (class.keys \cup {"type"})
  PROVE  deserialize(c, Restrict(serialize(class, m), keys)) = nullopt
<1> DEFINE d == Restrict(serialize(class, m), keys)
<1>1. DOMAIN d = keys /\ ("type" \in keys => d.type = class.type)
  BY Written DEF Restrict
<1> HIDE DEF d
<1>2. CASE c.type # class.type
  BY <1>1, <1>2 DEF deserialize, Refused, Has, d
<1>3. CASE c.type = class.type
  <2>1. ~(c.required \subseteq class.keys \cup {"type"})
    BY <1>3, TypeApart DEF generic_ok_response, generic_error_response, Class
  <2> QED  BY <1>1, <2>1 DEF deserialize, Refused, Has, d
<1> QED  BY <1>2, <1>3

\* The class that wrote it refuses a document without one of its keys.
LEMMA PartRefused ==
  ASSUME NEW class \in Classes, NEW m, Message(class, m),
         NEW keys \in SUBSET (class.keys \cup {"type"}), keys # class.keys \cup {"type"}
  PROVE  deserialize(class, Restrict(serialize(class, m), keys)) = nullopt
<1> DEFINE d == Restrict(serialize(class, m), keys)
<1>1. DOMAIN d = keys
  BY DEF Restrict
<1> HIDE DEF d
<1>2. CASE ~(class.required \cup {"type"} \subseteq keys)
  BY <1>1, <1>2 DEF deserialize, Refused, Has, d
<1>3. CASE class.required \cup {"type"} \subseteq keys
  <2>1. class = login_response /\ "online_users" \in class.keys /\ "online_users" \notin keys
    BY <1>3, KeysOf
  <2>2. class # create_character_response
    BY <2>1, Types
  <2>3. ReadMember(d, "online_users") = nullopt
    BY <1>1, <2>1 DEF ReadMember, Member, ReadAll
  <2>4. [k \in class.keys |-> ReadMember(d, k)]["online_users"] = nullopt
    BY <2>1, <2>3
  <2> QED  BY <2>1, <2>2, <2>4 DEF deserialize, d
<1> QED  BY <1>2, <1>3
-----------------------------------------------------------------------------
(***************************************************************************)
(* The filter.  Its fold over the dictionary is taken apart into the texts *)
(* it goes through, by induction on the number of entries: every set of    *)
(* naturals that is not empty has a least element, so that a claim that    *)
(* fails for some entry fails for a first one.                             *)
(***************************************************************************)
\* Every set of naturals that is not empty has a least element.
LEMMA LeastNatural ==
  ASSUME NEW T, T \subseteq Nat, T # {} PROVE \E x \in T : \A y \in T : x <= y
<1>1. PICK x \in T : \A y \in T : <<y, x>> \notin OpToRel(<, Nat)
  BY NatLessThanWellFounded, WFMin
<1>2. \A y \in T : ~(y < x)
  BY <1>1 DEF OpToRel
<1> QED  BY <1>2

\* What the filter does with one entry of the dictionary.
Filtered(text, n, enabled) ==
  IF Occurrences(text, Dictionary[n].word) # {} /\ Dictionary[n].tier \in enabled
    THEN Masked(text, Dictionary[n].word) ELSE text

\* The greatest element of a set of numbers that is not empty.
LEMMA MaxOf ==
  ASSUME NEW n \in Nat, NEW s \in SUBSET (1 .. n), s # {}
  PROVE  Max(s) \in s /\ \A x \in s : Max(s) >= x
<1> DEFINE T == {n - x : x \in s}
<1>1. T \subseteq Nat /\ T # {}
  <2>1. \A x \in s : x \in Int /\ n - x \in Nat
    OBVIOUS
  <2> QED  BY <2>1
<1>2. PICK t \in T : \A u \in T : t <= u
  <2> HIDE DEF T
  <2> QED  BY <1>1, LeastNatural
<1>3. PICK x \in s : t = n - x
  BY <1>2
<1>4. \A y \in s : x >= y
  <2> TAKE y \in s
  <2>1. t <= n - y
    BY <1>2
  <2> QED  BY <1>3, <2>1
<1> QED  BY <1>4 DEF Max

\* The texts the filter goes through, from the phrase in lower case on.
Goes(text, phrase, enabled) ==
  /\ text[0] = string_tolower(phrase)
  /\ \A n \in 1 .. Len(Dictionary) : text[n] = Filtered(text[n - 1], n, enabled)

\* The fold runs over the entries in their order: its value for the first n of them is
\* the text after the n-th.
LEMMA Going ==
  ASSUME NEW phrase, NEW enabled
  PROVE  \E text : /\ Goes(text, phrase, enabled)
                   /\ clean_profanity_ish(phrase, enabled) = text[Len(Dictionary)]
<1> DEFINE N == Len(Dictionary)
           lower == string_tolower(phrase)
           Body(g, s) == IF s = {} THEN lower ELSE Filtered(g[s \ {Max(s)}], Max(s), enabled)
           Part(k) == \E g : g = [s \in SUBSET (1 .. k) |-> Body(g, s)]
<1>1. N \in Nat /\ DOMAIN Dictionary = 1 .. N
  BY CensorAssumption
<1> HIDE DEF N, lower
<1>2. Part(0)
  <2> DEFINE g == [s \in SUBSET (1 .. 0) |-> lower]
  <2>1. g = [s \in SUBSET (1 .. 0) |-> Body(g, s)]
    OBVIOUS
  <2> QED  BY <2>1
<1>3. ASSUME NEW k \in Nat, Part(k) PROVE Part(k + 1)
  <2>1. PICK g : g = [s \in SUBSET (1 .. k) |-> Body(g, s)]
    BY <1>3
  <2> DEFINE h == [s \in SUBSET (1 .. k + 1) |->
                     IF k + 1 \in s THEN Filtered(g[s \ {k + 1}], k + 1, enabled) ELSE g[s]]
  <2>2. ASSUME NEW s \in SUBSET (1 .. k + 1) PROVE h[s] = Body(h, s)
    <3>1. CASE s = {}
      BY <2>1, <3>1
    <3>2. CASE k + 1 \in s
      <4>1. Max(s) = k + 1
        <5>1. k + 1 \in Nat /\ s # {}
          BY <3>2
        <5>2. Max(s) \in s /\ \A x \in s : Max(s) >= x
          BY <5>1, MaxOf
        <5>3. Max(s) \in 1 .. k + 1 /\ Max(s) >= k + 1
          BY <3>2, <5>2
        <5> QED  BY <5>1, <5>3
      <4>2. s \ {k + 1} \in SUBSET (1 .. k + 1) /\ k + 1 \notin s \ {k + 1}
        OBVIOUS
      <4>3. h[s \ {k + 1}] = g[s \ {k + 1}]
        BY <4>2
      <4> QED  BY <3>2, <4>1, <4>3
    <3>3. CASE s # {} /\ k + 1 \notin s
      <4>1. s \in SUBSET (1 .. k)
        BY <3>3
      <4>2. s \ {Max(s)} \in SUBSET (1 .. k + 1) /\ k + 1 \notin s \ {Max(s)}
        BY <3>3
      <4>3. h[s \ {Max(s)}] = g[s \ {Max(s)}]
        BY <4>2
      <4>4. h[s] = g[s]
        BY <3>3
      <4>5. g[s] = Body(g, s)
        BY <2>1, <4>1
      <4> QED  BY <3>3, <4>3, <4>4, <4>5
    <3> QED  BY <3>1, <3>2, <3>3
  <2>3. h = [s \in SUBSET (1 .. k + 1) |-> Body(h, s)]
    <3>1. h = [s \in SUBSET (1 .. k + 1) |-> h[s]]
      OBVIOUS
    <3> HIDE DEF h
    <3> QED  BY <2>2, <3>1
  <2> QED  BY <2>3
<1>4. Part(N)
  <2> DEFINE T == {k \in Nat : ~Part(k)}
  <2>1. SUFFICES ASSUME T # {} PROVE FALSE
    BY <1>1
  <2>2. PICK k \in T : \A j \in T : k <= j
    <3> HIDE DEF Part
    <3> QED  BY <2>1, LeastNatural
  <2> HIDE DEF Part
  <2>3. k # 0 /\ k - 1 \in Nat
    BY <1>2, <2>2
  <2>4. Part(k - 1)
    BY <2>2, <2>3
  <2> QED  BY <1>3, <2>2, <2>3, <2>4
<1> DEFINE iter == CHOOSE g : g = [s \in SUBSET (1 .. N) |-> Body(g, s)]
<1>5. iter = [s \in SUBSET (1 .. N) |-> Body(iter, s)]
  BY <1>4
<1>6. clean_profanity_ish(phrase, enabled) = iter[1 .. N]
  BY <1>1 DEF clean_profanity_ish, FoldLeft, MapThenFoldSet, Filtered, lower
<1> HIDE DEF iter
<1> DEFINE text == [n \in 0 .. N |-> iter[1 .. n]]
<1>7. text[0] = lower
  <2>1. iter[1 .. 0] = lower
    BY <1>1, <1>5
  <2> QED  BY <1>1, <2>1
<1>8. ASSUME NEW n \in 1 .. N PROVE text[n] = Filtered(text[n - 1], n, enabled)
  <2>1. 1 .. n \in SUBSET (1 .. N) /\ 1 .. n # {} /\ n \in Nat
    BY <1>1
  <2>2. Max(1 .. n) = n
    <3>1. 1 .. n \in SUBSET (1 .. n)
      OBVIOUS
    <3>2. Max(1 .. n) \in 1 .. n /\ \A x \in 1 .. n : Max(1 .. n) >= x
      BY <2>1, <3>1, MaxOf
    <3> QED  BY <2>1, <3>2
  <2>3. (1 .. n) \ {n} = 1 .. n - 1
    BY <2>1
  <2>4. iter[1 .. n] = Filtered(iter[1 .. n - 1], n, enabled)
    BY <1>5, <2>1, <2>2, <2>3
  <2>5. n \in 0 .. N /\ n - 1 \in 0 .. N
    BY <1>1
  <2> QED  BY <2>4, <2>5
<1>9. text[N] = iter[1 .. N]
  BY <1>1
<1> HIDE DEF text
<1> QED  BY <1>6, <1>7, <1>8, <1>9 DEF Goes, N, lower

\* A sequence of characters.
Text(text) == text \in Seq(Range(text))

\* Its characters have the indices from 1 on.
LEMMA TextOf == ASSUME NEW text, Text(text)
  PROVE Len(text) \in Nat /\ DOMAIN text = 1 .. Len(text)
  BY DEF Text

\* In lower case it is one as well.
LEMMA LowerText ==
  ASSUME NEW phrase, Text(phrase)
  PROVE  LET lower == string_tolower(phrase) IN Text(lower) /\ Len(lower) = Len(phrase)
<1> DEFINE lower == string_tolower(phrase)
<1>1. Len(phrase) \in Nat /\ DOMAIN phrase = 1 .. Len(phrase)
  BY DEF Text
<1>2. lower = [i \in 1 .. Len(phrase) |-> lower[i]]
  BY <1>1 DEF string_tolower
<1> HIDE DEF lower
<1>3. \A i \in 1 .. Len(phrase) : lower[i] \in Range(lower)
  BY <1>2 DEF Range
<1>4. lower \in Seq(Range(lower)) /\ Len(lower) = Len(phrase)
  BY <1>1, <1>2, <1>3
<1> QED  BY <1>4 DEF Text, lower

\* Where a word occurs its characters stand.
LEMMA OccursAt ==
  ASSUME NEW text, Text(text), NEW word, Text(word), word # <<>>
  PROVE  Occurrences(text, word) =
           {i \in 1 .. Len(text) : /\ i + Len(word) - 1 <= Len(text)
                                   /\ \A k \in 1 .. Len(word) : text[i + k - 1] = word[k]}
<1>1. Len(text) \in Nat /\ DOMAIN text = 1 .. Len(text)
      /\ Len(word) \in Nat /\ DOMAIN word = 1 .. Len(word)
  BY DEF Text
<1>2. Len(word) # 0
  BY <1>1 DEF Text
<1>3. ASSUME NEW i \in 1 .. Len(text), i + Len(word) - 1 <= Len(text)
      PROVE  SubSeq(text, i, i + Len(word) - 1) = word
               <=> \A k \in 1 .. Len(word) : text[i + k - 1] = word[k]
  <2> DEFINE part == SubSeq(text, i, i + Len(word) - 1)
  <2>1. part \in Seq(Range(text)) /\ Len(part) = Len(word)
        /\ \A k \in 1 .. Len(word) : part[k] = text[i + k - 1]
    BY <1>1, <1>3 DEF Text
  <2> HIDE DEF part
  <2>2. part = word <=> \A k \in 1 .. Len(word) : part[k] = word[k]
    BY <1>1, <2>1 DEF Text
  <2> QED  BY <2>1, <2>2 DEF part
<1>4. \A i \in 1 .. Len(text) - Len(word) + 1 : i \in 1 .. Len(text) /\ i + Len(word) - 1 <= Len(text)
  BY <1>1, <1>2
<1>5. \A i \in 1 .. Len(text) : i + Len(word) - 1 <= Len(text) => i \in 1 .. Len(text) - Len(word) + 1
  BY <1>1, <1>2
<1> QED  BY <1>3, <1>4, <1>5 DEF Occurrences

\* The first occurrence is one, and what is masked is as long as before: stars from
\* there on as many as the word has characters.
LEMMA MaskedText ==
  ASSUME NEW text, Text(text), NEW word, Text(word), word # <<>>, Occurrences(text, word) # {}
  PROVE  LET pos  == Min(Occurrences(text, word))
             next == Masked(text, word)
         IN  /\ pos \in Occurrences(text, word)
             /\ Text(next) /\ Len(next) = Len(text)
             /\ \A i \in 1 .. Len(text) :
                  next[i] = IF pos <= i /\ i <= pos + Len(word) - 1 THEN "*" ELSE text[i]
<1> DEFINE pos  == Min(Occurrences(text, word))
           next == Masked(text, word)
<1>1. Len(text) \in Nat /\ DOMAIN text = 1 .. Len(text) /\ Len(word) \in Nat
  BY DEF Text
<1>2. Occurrences(text, word) \subseteq Nat
  BY <1>1, OccursAt
<1>3. pos \in Occurrences(text, word)
  BY <1>2, LeastNatural DEF Min
<1>4. pos \in Nat
  BY <1>2, <1>3
<1>5. next = [i \in 1 .. Len(text) |->
                IF i \in pos .. pos + Len(word) - 1 THEN "*" ELSE text[i]]
  BY <1>1 DEF Masked
<1> HIDE DEF pos, next
<1>6. \A i \in 1 .. Len(text) : next[i] \in Range(next)
  BY <1>5 DEF Range
<1>7. next \in Seq(Range(next)) /\ Len(next) = Len(text)
  BY <1>1, <1>5, <1>6
<1>8. \A i \in 1 .. Len(text) :
        next[i] = IF pos <= i /\ i <= pos + Len(word) - 1 THEN "*" ELSE text[i]
  BY <1>1, <1>4, <1>5
<1> QED  BY <1>3, <1>7, <1>8 DEF Text, pos, next

\* A word without stars occurs in a masked text only where it did before, and the
\* masked word no longer where it was masked.
LEMMA MaskedOccurs ==
  ASSUME NEW text, Text(text), NEW masked, Text(masked), masked # <<>>,
         Occurrences(text, masked) # {},
         NEW word, Text(word), word # <<>>, "*" \notin Range(word)
  PROVE  /\ Occurrences(Masked(text, masked), word) \subseteq Occurrences(text, word)
         /\ word = masked
              => Min(Occurrences(text, word)) \notin Occurrences(Masked(text, masked), word)
<1> DEFINE next == Masked(text, masked)
           pos  == Min(Occurrences(text, masked))
<1>1. /\ pos \in Occurrences(text, masked) /\ Text(next) /\ Len(next) = Len(text)
      /\ \A i \in 1 .. Len(text) :
           next[i] = IF pos <= i /\ i <= pos + Len(masked) - 1 THEN "*" ELSE text[i]
  BY MaskedText
<1> HIDE DEF next, pos
<1>2. Len(text) \in Nat /\ Len(word) \in Nat /\ Len(word) # 0
      /\ Len(masked) \in Nat /\ Len(masked) # 0
  BY TextOf DEF Text
<1>3. \A k \in 1 .. Len(word) : word[k] # "*"
  BY TextOf DEF Range
<1>4. ASSUME NEW i \in Occurrences(next, word) PROVE i \in Occurrences(text, word)
  <2>1. /\ i \in 1 .. Len(text) /\ i + Len(word) - 1 <= Len(text)
        /\ \A k \in 1 .. Len(word) : next[i + k - 1] = word[k]
    BY <1>1, OccursAt
  <2>2. ASSUME NEW k \in 1 .. Len(word) PROVE text[i + k - 1] = word[k]
    <3>1. i + k - 1 \in 1 .. Len(text)
      BY <1>2, <2>1
    <3>2. next[i + k - 1] # "*"
      BY <1>3, <2>1
    <3> QED  BY <1>1, <2>1, <3>1, <3>2
  <2> QED  BY <2>1, <2>2, OccursAt
<1>5. ASSUME word = masked, pos \in Occurrences(next, word) PROVE FALSE
  <2>1. /\ pos \in 1 .. Len(text)
        /\ \A k \in 1 .. Len(word) : next[pos + k - 1] = word[k]
    BY <1>1, <1>5, OccursAt
  <2>2. next[pos] = "*"
    BY <1>1, <1>2, <2>1
  <2>3. next[pos + 1 - 1] = word[1]
    BY <1>2, <2>1
  <2> QED  BY <1>2, <1>3, <2>1, <2>2, <2>3
<1> QED  BY <1>4, <1>5 DEF next, pos

\* The words of the dictionary.
LEMMA WordOf ==
  ASSUME NEW n \in 1 .. Len(Dictionary)
  PROVE  /\ n \in DOMAIN Dictionary
         /\ Text(Dictionary[n].word) /\ Dictionary[n].word # <<>>
         /\ Starless => "*" \notin Range(Dictionary[n].word)
  BY CensorAssumption DEF Text, Starless

\* What is true of a text that has passed some entries of the dictionary: it is as long
\* as before, each character is the one that was there or a star, no word has come up,
\* and what has been masked stays masked.
LEMMA Passing ==
  ASSUME Starless, NEW phrase, Text(phrase), NEW enabled,
         NEW text, Goes(text, phrase, enabled),
         NEW m \in 0 .. Len(Dictionary), NEW n \in m .. Len(Dictionary)
  PROVE  /\ Text(text[m]) /\ Len(text[m]) = Len(phrase)
         /\ Text(text[n]) /\ Len(text[n]) = Len(phrase)
         /\ \A i \in 1 .. Len(phrase) : text[n][i] \in {text[m][i], "*"}
         /\ \A w \in 1 .. Len(Dictionary) :
              Occurrences(text[n], Dictionary[w].word) \subseteq Occurrences(text[m], Dictionary[w].word)
<1> DEFINE N == Len(Dictionary)
           OnWay(a, b) ==
             /\ Text(b) /\ Len(b) = Len(phrase)
             /\ \A i \in 1 .. Len(phrase) : b[i] \in {a[i], "*"}
             /\ \A w \in 1 .. N :
                  Occurrences(b, Dictionary[w].word) \subseteq Occurrences(a, Dictionary[w].word)
<1>1. N \in Nat /\ Len(phrase) \in Nat
  BY CensorAssumption, TextOf
<1> HIDE DEF N
<1>2. ASSUME NEW a, Text(a), Len(a) = Len(phrase), NEW k \in 1 .. N
      PROVE  OnWay(a, Filtered(a, k, enabled))
  <2> DEFINE word == Dictionary[k].word
  <2>1. Text(word) /\ word # <<>>
    BY <1>2, WordOf DEF N
  <2>2. CASE Filtered(a, k, enabled) = a
    BY <1>2, <2>2
  <2>3. CASE Occurrences(a, word) # {} /\ Filtered(a, k, enabled) = Masked(a, word)
    <3>1. \A w \in 1 .. N :
            Text(Dictionary[w].word) /\ Dictionary[w].word # <<>>
              /\ "*" \notin Range(Dictionary[w].word)
      BY WordOf DEF N
    <3>2. \A w \in 1 .. N :
            Occurrences(Masked(a, word), Dictionary[w].word)
              \subseteq Occurrences(a, Dictionary[w].word)
      <4> HIDE DEF word
      <4> QED  BY <1>2, <2>1, <2>3, <3>1, MaskedOccurs
    <3>3. /\ Text(Masked(a, word)) /\ Len(Masked(a, word)) = Len(a)
          /\ \A i \in 1 .. Len(a) : Masked(a, word)[i] \in {a[i], "*"}
      <4> HIDE DEF word
      <4> QED  BY <1>2, <2>1, <2>3, MaskedText
    <3> QED  BY <1>2, <2>3, <3>2, <3>3
  <2> QED  BY <2>2, <2>3 DEF Filtered
<1>3. \A k \in 1 .. N : text[k] = Filtered(text[k - 1], k, enabled)
  BY DEF Goes, N
<1> DEFINE Good(k) == Text(text[k]) /\ Len(text[k]) = Len(phrase)
<1> HIDE DEF OnWay
<1>4. Good(0)
  BY LowerText DEF Goes
<1>5. ASSUME NEW k \in 1 .. N, Good(k - 1) PROVE Good(k) /\ OnWay(text[k - 1], text[k])
  <2>1. OnWay(text[k - 1], Filtered(text[k - 1], k, enabled))
    BY <1>2, <1>5
  <2>2. OnWay(text[k - 1], text[k])
    BY <1>3, <2>1
  <2> QED  BY <2>2 DEF OnWay
<1>6. \A k \in 0 .. N : Good(k)
  <2> DEFINE T == {k \in 0 .. N : ~Good(k)}
  <2> SUFFICES ASSUME T # {} PROVE FALSE
    OBVIOUS
  <2> HIDE DEF Good
  <2>1. T \subseteq Nat
    BY <1>1
  <2>2. PICK k \in T : \A j \in T : k <= j
    <3> HIDE DEF T
    <3> QED  BY <2>1, LeastNatural
  <2>3. k \in 1 .. N /\ k - 1 \in 0 .. N
    BY <1>1, <1>4, <2>2
  <2>4. Good(k - 1)
    BY <2>2, <2>3
  <2> QED  BY <1>5, <2>2, <2>3, <2>4
<1>7. \A k \in 1 .. N : OnWay(text[k - 1], text[k])
  BY <1>1, <1>5, <1>6
<1>8. \A k \in m .. N : OnWay(text[m], text[k])
  <2> DEFINE T == {k \in m .. N : ~OnWay(text[m], text[k])}
  <2> SUFFICES ASSUME T # {} PROVE FALSE
    OBVIOUS
  <2>1. T \subseteq Nat /\ m \in 0 .. N
    BY <1>1 DEF N
  <2>2. PICK k \in T : \A j \in T : k <= j
    <3> HIDE DEF T
    <3> QED  BY <2>1, LeastNatural
  <2>3. OnWay(text[m], text[m])
    BY <1>6, <2>1 DEF OnWay
  <2>4. k # m /\ k \in 1 .. N /\ k - 1 \in m .. N
    BY <1>1, <2>1, <2>2, <2>3
  <2>5. OnWay(text[m], text[k - 1]) /\ OnWay(text[k - 1], text[k])
    BY <1>7, <2>2, <2>4
  <2>6. OnWay(text[m], text[k])
    BY <2>5 DEF OnWay
  <2> QED  BY <2>2, <2>6
<1>9. OnWay(text[m], text[n]) /\ Good(m) /\ Good(n)
  BY <1>1, <1>6, <1>8 DEF N
<1> QED  BY <1>9 DEF OnWay, N

\* A word of an enabled tier that a phrase holds once does not come through.
LEMMA OnceMasked ==
  ASSUME Starless, NEW phrase, Text(phrase), NEW enabled,
         NEW n \in DOMAIN Dictionary, Dictionary[n].tier \in enabled,
         Cardinality(Occurrences(string_tolower(phrase), Dictionary[n].word)) = 1
  PROVE  Occurrences(clean_profanity_ish(phrase, enabled), Dictionary[n].word) = {}
<1> DEFINE N == Len(Dictionary)
           word == Dictionary[n].word
<1>1. N \in Nat /\ n \in 1 .. N
  BY CensorAssumption
<1>2. PICK text : /\ Goes(text, phrase, enabled)
                  /\ clean_profanity_ish(phrase, enabled) = text[N]
  BY Going
<1>3. Text(word) /\ word # <<>> /\ "*" \notin Range(word)
  BY <1>1, WordOf
<1>4. /\ Text(text[n - 1])
      /\ Occurrences(text[n - 1], word) \subseteq Occurrences(text[0], word)
      /\ Occurrences(text[N], word) \subseteq Occurrences(text[n], word)
  <2>1. 0 \in 0 .. N /\ n - 1 \in 0 .. N /\ n \in 0 .. N /\ N \in n .. N
    BY <1>1
  <2> HIDE DEF N
  <2>2. Text(text[n - 1])
        /\ Occurrences(text[n - 1], word) \subseteq Occurrences(text[0], word)
    BY <1>1, <1>2, <2>1, Passing DEF N
  <2>3. Occurrences(text[N], word) \subseteq Occurrences(text[n], word)
    BY <1>1, <1>2, <2>1, Passing DEF N
  <2> QED  BY <2>2, <2>3
<1>5. PICK p : Occurrences(text[0], word) = {p}
  <2>1. IsFiniteSet(Occurrences(text[0], word))
    <3>1. Text(text[0]) /\ Len(text[0]) \in Nat
      BY <1>2, LowerText, TextOf DEF Goes
    <3>2. Occurrences(text[0], word) \in SUBSET (1 .. Len(text[0]))
      BY <1>3, <3>1, OccursAt
    <3>3. IsFiniteSet(1 .. Len(text[0]))
      BY <3>1, FS_Interval
    <3> QED  BY <3>2, <3>3, FS_Subset
  <2> QED  BY <1>2, <2>1, FS_Singleton DEF Goes
<1>6. text[n] = Filtered(text[n - 1], n, enabled)
  BY <1>1, <1>2 DEF Goes
<1>7. CASE Occurrences(text[n - 1], word) = {}
  <2>1. text[n] = text[n - 1]
    BY <1>6, <1>7 DEF Filtered
  <2> QED  BY <1>2, <1>4, <1>7, <2>1
<1>8. CASE Occurrences(text[n - 1], word) # {}
  <2>1. Occurrences(text[n - 1], word) = {p} /\ text[n] = Masked(text[n - 1], word)
    BY <1>4, <1>5, <1>6, <1>8 DEF Filtered
  <2>2. Min(Occurrences(text[n - 1], word)) = p
    <3>1. Min({p}) = p
      <4>1. p \in Occurrences(text[n - 1], word)
        BY <2>1
      <4>2. p \in Int
        BY <1>3, <1>4, <4>1, OccursAt
      <4> QED  BY <4>2 DEF Min
    <3> QED  BY <2>1, <3>1
  <2> HIDE DEF word
  <2>3. /\ Occurrences(Masked(text[n - 1], word), word) \subseteq Occurrences(text[n - 1], word)
        /\ p \notin Occurrences(Masked(text[n - 1], word), word)
    <3>1. Text(text[n - 1])
      BY <1>4
    <3> QED  BY <1>3, <1>8, <2>2, <3>1, MaskedOccurs
  <2>4. Occurrences(text[n], word) = {}
    BY <2>1, <2>3
  <2> QED  BY <1>2, <1>4, <2>4 DEF word
<1> QED  BY <1>2, <1>4, <1>7, <1>8

\* What the filter leaves is in lower case.
LEMMA CleanIsLower ==
  ASSUME Starless, NEW phrase, Text(phrase), NEW enabled
  PROVE  string_tolower(clean_profanity_ish(phrase, enabled)) = clean_profanity_ish(phrase, enabled)
<1> DEFINE N == Len(Dictionary)
           lower == string_tolower(phrase)
           clean == clean_profanity_ish(phrase, enabled)
<1>1. PICK text : Goes(text, phrase, enabled) /\ clean = text[N]
  BY Going
<1>2. 0 \in 0 .. N /\ N \in 0 .. N
  BY CensorAssumption
<1>3. Text(clean) /\ Len(clean) = Len(phrase) /\ \A i \in 1 .. Len(phrase) : clean[i] \in {lower[i], "*"}
  <2> HIDE DEF clean, lower
  <2>1. Text(text[N]) /\ Len(text[N]) = Len(phrase)
        /\ \A i \in 1 .. Len(phrase) : text[N][i] \in {text[0][i], "*"}
    BY <1>1, <1>2, Passing
  <2>2. text[0] = lower
    BY <1>1 DEF Goes, lower
  <2> QED  BY <1>1, <2>1, <2>2
<1>4. DOMAIN phrase = 1 .. Len(phrase) /\ DOMAIN clean = 1 .. Len(phrase)
  BY <1>3, TextOf
<1>5. \A i \in 1 .. Len(phrase) : lower[i] \notin DOMAIN LowerCase
  BY <1>4, CensorAssumption DEF string_tolower
<1> HIDE DEF clean, lower
<1>6. \A i \in 1 .. Len(phrase) : clean[i] \notin DOMAIN LowerCase
  BY <1>3, <1>5, CensorAssumption
<1>7. string_tolower(clean) = [i \in 1 .. Len(phrase) |-> clean[i]]
  BY <1>4, <1>6 DEF string_tolower
<1>8. clean = [i \in 1 .. Len(phrase) |-> clean[i]]
  BY <1>3, <1>4 DEF Text
<1> QED  BY <1>7, <1>8 DEF clean

\* What chat changes is what registration refuses.
LEMMA ChangedIfProfane ==
  ASSUME Starless, NEW phrase, Text(phrase), NEW enabled
  PROVE  is_profane_ish(phrase, enabled)
           <=> clean_profanity_ish(phrase, enabled) # string_tolower(phrase)
<1> DEFINE N == Len(Dictionary)
           lower == string_tolower(phrase)
           Masks(a, k) == Occurrences(a, Dictionary[k].word) # {} /\ Dictionary[k].tier \in enabled
<1>1. N \in Nat /\ DOMAIN Dictionary = 1 .. N
  BY CensorAssumption
<1>2. PICK text : /\ Goes(text, phrase, enabled)
                  /\ clean_profanity_ish(phrase, enabled) = text[N]
  BY Going
<1>3. text[0] = lower /\ Text(lower) /\ Len(lower) = Len(phrase)
  BY <1>2, LowerText DEF Goes
<1>4. \A k \in 1 .. N :
        text[k] = IF Masks(text[k - 1], k) THEN Masked(text[k - 1], Dictionary[k].word)
                                           ELSE text[k - 1]
  BY <1>2 DEF Goes, Filtered
<1>5. is_profane_ish(phrase, enabled) <=> \E k \in 1 .. N : Masks(lower, k)
  BY <1>1 DEF is_profane_ish
<1> HIDE DEF N, lower
<1>6. ASSUME NEW k \in 1 .. N, Masks(text[k - 1], k) PROVE text[N] # lower
  <2> DEFINE word == Dictionary[k].word
             a    == text[k - 1]
             pos  == Min(Occurrences(a, word))
  <2>1. 0 \in 0 .. N /\ k - 1 \in 0 .. N /\ k \in 0 .. N /\ N \in k .. N
    BY <1>1
  <2>2. Text(a) /\ Len(a) = Len(phrase) /\ \A i \in 1 .. Len(phrase) : a[i] \in {lower[i], "*"}
    <3>1. k - 1 \in 0 .. N
      BY <2>1
    <3> QED  BY <1>2, <1>3, <2>1, Passing DEF N
  <2>3. \A i \in 1 .. Len(phrase) : text[N][i] \in {text[k][i], "*"}
    BY <1>2, <2>1, Passing DEF N
  <2>4. Text(word) /\ word # <<>> /\ "*" \notin Range(word)
    BY WordOf DEF N
  <2>5. text[k] = Masked(a, word) /\ Occurrences(a, word) # {}
    BY <1>4, <1>6
  <2> HIDE DEF word, a, pos
  <2>6. /\ pos \in Occurrences(a, word)
        /\ \A i \in 1 .. Len(a) :
             text[k][i] = IF pos <= i /\ i <= pos + Len(word) - 1 THEN "*" ELSE a[i]
    BY <2>2, <2>4, <2>5, MaskedText DEF pos
  <2>7. Len(word) \in Nat /\ Len(word) # 0 /\ DOMAIN word = 1 .. Len(word)
    BY <2>4, TextOf DEF Text
  <2>8. pos \in 1 .. Len(a) /\ \A j \in 1 .. Len(word) : a[pos + j - 1] = word[j]
    BY <2>2, <2>4, <2>6, OccursAt
  <2>9. a[pos] # "*"
    <3>1. a[pos + 1 - 1] = word[1] /\ pos + 1 - 1 = pos
      BY <2>7, <2>8
    <3>2. word[1] \in Range(word)
      BY <2>7 DEF Range
    <3> QED  BY <2>4, <3>1, <3>2
  <2>10. text[k][pos] = "*"
    BY <2>6, <2>7, <2>8
  <2> QED  BY <2>2, <2>3, <2>8, <2>9, <2>10
<1>7. ASSUME \A k \in 1 .. N : ~Masks(text[k - 1], k)
      PROVE  \A k \in 0 .. N : text[k] = lower
  <2> DEFINE T == {k \in 0 .. N : text[k] # lower}
  <2> SUFFICES ASSUME T # {} PROVE FALSE
    OBVIOUS
  <2>1. T \subseteq Nat
    BY <1>1 DEF N
  <2>2. PICK k \in T : \A j \in T : k <= j
    <3> HIDE DEF T
    <3> QED  BY <2>1, LeastNatural
  <2>3. k \in 1 .. N /\ k - 1 \in 0 .. N
    BY <1>1, <1>3, <2>2
  <2>4. text[k - 1] = lower
    BY <2>2, <2>3
  <2>5. text[k] = text[k - 1]
    BY <1>4, <1>7, <2>3
  <2> QED  BY <2>2, <2>4, <2>5
<1> HIDE DEF Masks
<1>8. CASE \E k \in 1 .. N : Masks(text[k - 1], k)
  <2>1. text[N] # lower
    BY <1>6, <1>8
  <2>2. PICK k \in 1 .. N : Masks(text[k - 1], k)
    BY <1>8
  <2>3. Occurrences(text[k - 1], Dictionary[k].word) \subseteq Occurrences(lower, Dictionary[k].word)
    <3>1. 0 \in 0 .. N /\ k - 1 \in 0 .. N
      BY <1>1
    <3> QED  BY <1>2, <1>3, <3>1, Passing DEF N
  <2>4. Masks(lower, k)
    BY <2>2, <2>3 DEF Masks
  <2> QED  BY <1>2, <1>5, <2>1, <2>4 DEF N, lower
<1>9. CASE \A k \in 1 .. N : ~Masks(text[k - 1], k)
  <2>1. \A k \in 0 .. N : text[k] = lower
    BY <1>7, <1>9
  <2>2. N \in 0 .. N /\ \A k \in 1 .. N : k - 1 \in 0 .. N
    BY <1>1
  <2>3. \A k \in 1 .. N : ~Masks(lower, k)
    BY <1>9, <2>1, <2>2
  <2> QED  BY <1>2, <1>5, <2>1, <2>2, <2>3 DEF N, lower
<1> QED  BY <1>8, <1>9

\* A phrase of which a whole word is profane is among them.
LEMMA ProfaneIsProfaneIsh ==
  ASSUME NEW phrase, Text(phrase), NEW enabled, is_profane(phrase, enabled)
  PROVE  is_profane_ish(phrase, enabled)
<1> DEFINE lower == string_tolower(phrase)
<1>1. Text(lower) /\ Len(lower) \in Nat
  BY LowerText, TextOf
<1> HIDE DEF lower
<1>2. PICK i \in 0 .. Len(lower) + 1, j \in 0 .. Len(lower) + 1, n \in DOMAIN Dictionary :
        /\ i < j
        /\ Dictionary[n].word = SubSeq(lower, i + 1, j - 1)
        /\ Dictionary[n].tier \in enabled
  BY DEF is_profane, lower
<1> DEFINE word == Dictionary[n].word
<1>3. Text(word) /\ word # <<>>
  BY WordOf, CensorAssumption
<1>4. Len(word) \in Nat /\ Len(word) # 0
  BY <1>3, TextOf DEF Text
<1>5. i + 1 \in Int /\ j - 1 \in Int /\ \A k \in i + 1 .. j - 1 : lower[k] \in Range(lower)
  BY <1>1, <1>2, TextOf DEF Range
<1>6. Len(word) = IF i + 1 <= j - 1 THEN j - 1 - (i + 1) + 1 ELSE 0
  BY <1>2, <1>5, SubSeqProperties
<1>7. i + 1 \in 1 .. Len(lower) - Len(word) + 1 /\ i + 1 + Len(word) - 1 = j - 1
  BY <1>1, <1>2, <1>4, <1>6
<1>8. i + 1 \in Occurrences(lower, word)
  BY <1>2, <1>7 DEF Occurrences
<1> QED  BY <1>2, <1>8 DEF is_profane_ish, lower

-----------------------------------------------------------------------------
(***************************************************************************)
(* The way of a message.  The document under way is what serialize wrote,  *)
(* or a part of it; what was received is what deserialize makes of it; and *)
(* what a client says is still what it said when the server reads it.      *)
(***************************************************************************)
Underway ==
  sent # Nothing =>
    LET written == serialize(sent.class, sent.m)
    IN  /\ sent.class \in Classes
        /\ Message(sent.class, sent.m)
        /\ DOMAIN document \subseteq DOMAIN written
        /\ document = Restrict(written, DOMAIN document)

Arrived ==
  received # Nothing =>
    /\ sent # Nothing
    /\ received.class \in Classes
    /\ received.m = deserialize(received.class, document)
    /\ sent.class \in Requests /\ "type" \in DOMAIN document
         => received.class = Route(document.type)

Spoken ==
  said # Nothing =>
    /\ said \in Phrases
    /\ sent.class = message_request => sent.m = [content |-> said]
    /\ sent.class = message_response =>
         sent.m = message_of(clean_profanity_ish(said, _enabled_tiers))

WireInv == _enabled_tiers \subseteq AllTiers /\ Underway /\ Arrived /\ Spoken

\* What serialize writes is a document that is under way as a whole.
LEMMA WrittenWhole ==
  ASSUME NEW class \in Classes, NEW m, Message(class, m)
  PROVE  serialize(class, m) = Restrict(serialize(class, m), DOMAIN serialize(class, m))
  BY DEF serialize, Restrict

\* A message that is written is under way.
LEMMA WriteStep ==
  ASSUME NEW class \in Classes, NEW m, Message(class, m), WireInv, Write(class, m),
         said' # Nothing =>
           /\ said' \in Phrases
           /\ class = message_request => m = [content |-> said']
           /\ class = message_response =>
                m = message_of(clean_profanity_ish(said', _enabled_tiers))
  PROVE  WireInv'
<1>1. sent'.class = class /\ sent'.m = m /\ document' = serialize(class, m)
      /\ received' = Nothing /\ _enabled_tiers' = _enabled_tiers
  BY DEF Write
<1>2. Underway'
  BY <1>1, WrittenWhole DEF Underway
<1>3. Arrived' /\ Spoken'
  BY <1>1 DEF Arrived, Spoken
<1> QED  BY <1>1, <1>2, <1>3 DEF WireInv

\* The filter's tiers stay those that the dictionary has.
LEMMA SwitchStep == ASSUME WireInv, SwitchTier PROVE WireInv'
<1>1. \A n \in AllTiers : n \in 0 .. USER_ADDED
  BY CensorAssumption DEF AllTiers
<1>2. PICK tier \in AllTiers \cup {USER_ADDED + 1} :
        _enabled_tiers' \in {enable_tier(_enabled_tiers, tier), disable_tier(_enabled_tiers, tier)}
  BY DEF SwitchTier
<1>3. _enabled_tiers' \subseteq AllTiers
  BY <1>1, <1>2 DEF WireInv, enable_tier, disable_tier, USER_ADDED
<1>4. UNCHANGED <<said, sent, document, received>> /\ said = Nothing
  BY DEF SwitchTier, Idle
<1> QED  BY <1>3, <1>4 DEF WireInv, Underway, Arrived, Spoken

\* A part of a part is a part.
LEMMA LeaveOutStep == ASSUME WireInv, LeaveOut PROVE WireInv'
<1>1. PICK k \in DOMAIN document : document' = Restrict(document, DOMAIN document \ {k})
  BY DEF LeaveOut
<1>2. UNCHANGED <<_enabled_tiers, said, sent, received>> /\ sent # Nothing /\ received = Nothing
  BY DEF LeaveOut
<1> DEFINE written == serialize(sent.class, sent.m)
           keys    == DOMAIN document
<1>3. sent.class \in Classes /\ Message(sent.class, sent.m)
      /\ keys \subseteq DOMAIN written /\ document = Restrict(written, keys)
  BY <1>2 DEF WireInv, Underway
<1>4. DOMAIN document' = keys \ {k}
  BY <1>1 DEF Restrict
<1>5. document' = Restrict(written, DOMAIN document')
  BY <1>1, <1>3, <1>4 DEF Restrict
<1>6. Underway'
  BY <1>2, <1>3, <1>4, <1>5 DEF Underway
<1> QED  BY <1>2, <1>6 DEF WireInv, Arrived, Spoken

\* A request comes to a class of Requests, and a response to any.
LEMMA ReceiveStep == ASSUME WireInv, Receive PROVE WireInv'
<1>1. PICK class \in IF sent.class \in Requests /\ "type" \in DOMAIN document
                       THEN {Route(document.type)} ELSE Classes :
        received' = [class |-> class, m |-> deserialize(class, document)]
  BY DEF Receive
<1>2. UNCHANGED <<_enabled_tiers, said, sent, document>> /\ sent # Nothing
  BY DEF Receive
<1>3. Underway
  BY DEF WireInv
<1>4. ASSUME sent.class \in Requests, "type" \in DOMAIN document
      PROVE  Route(document.type) \in Classes
  <2>1. document.type = serialize(sent.class, sent.m).type
    BY <1>2, <1>3, <1>4 DEF Underway, Restrict
  <2>2. document.type = sent.class.type
    BY <1>2, <1>3, <2>1, Written DEF Underway
  <2> QED  BY <1>4, <2>2, Routed DEF Classes
<1>5. class \in Classes
  BY <1>1, <1>4
<1>6. Arrived'
  BY <1>1, <1>2, <1>5 DEF Arrived
<1> QED  BY <1>2, <1>3, <1>6 DEF WireInv, Underway, Spoken

\* Whole means that the document is what serialize wrote, and a document that is not
\* whole lacks one of its keys.
LEMMA WholeDocument ==
  ASSUME WireInv, sent # Nothing
  PROVE  /\ Whole => document = serialize(sent.class, sent.m)
         /\ DOMAIN document \subseteq sent.class.keys \cup {"type"}
         /\ document = Restrict(serialize(sent.class, sent.m), DOMAIN document)
<1>1. /\ sent.class \in Classes /\ Message(sent.class, sent.m)
      /\ DOMAIN document \subseteq DOMAIN serialize(sent.class, sent.m)
      /\ document = Restrict(serialize(sent.class, sent.m), DOMAIN document)
  BY DEF WireInv, Underway
<1>2. DOMAIN serialize(sent.class, sent.m) = sent.class.keys \cup {"type"}
  BY <1>1, Written
<1> QED  BY <1>1, <1>2, WrittenWhole DEF Whole

\* The class that wrote the document gets the message back.
LEMMA RoundTripHolds == ASSUME WireInv PROVE RoundTrip
<1> SUFFICES ASSUME received # Nothing, received.class = sent.class, Whole
             PROVE  received.m = sent.m
  BY DEF RoundTrip
<1>1. sent # Nothing /\ received.m = deserialize(received.class, document)
  BY DEF WireInv, Arrived
<1>2. sent.class \in Classes /\ Message(sent.class, sent.m)
  BY <1>1 DEF WireInv, Underway
<1> QED  BY <1>1, <1>2, WholeDocument, Reads

\* No other class takes it.
LEMMA NoMixUpHolds == ASSUME WireInv PROVE NoMixUp
<1> SUFFICES ASSUME received # Nothing, Whole
             PROVE  /\ received.class # sent.class => received.m = nullopt
                    /\ sent.class \in Requests => received.class = sent.class
  BY DEF NoMixUp
<1>1. /\ sent # Nothing /\ received.class \in Classes
      /\ received.m = deserialize(received.class, document)
      /\ sent.class \in Requests /\ "type" \in DOMAIN document
           => received.class = Route(document.type)
  BY DEF WireInv, Arrived
<1>2. sent.class \in Classes /\ Message(sent.class, sent.m)
  BY <1>1 DEF WireInv, Underway
<1> DEFINE keys == DOMAIN document
<1>3. /\ keys \in SUBSET (sent.class.keys \cup {"type"})
      /\ document = Restrict(serialize(sent.class, sent.m), keys)
  BY <1>1, WholeDocument
<1>4. document.type = sent.class.type /\ "type" \in DOMAIN document
  BY <1>1, <1>2, WholeDocument, Written DEF Whole
<1> HIDE DEF keys
<1>5. received.class # sent.class => received.m = nullopt
  BY <1>1, <1>2, <1>3, OthersRefuse
<1>6. sent.class \in Requests => received.class = sent.class
  BY <1>1, <1>4, Routed
<1> QED  BY <1>5, <1>6

\* Nor does any class take a part of it.
LEMMA IncompleteHolds == ASSUME WireInv PROVE IncompleteRefused
<1> SUFFICES ASSUME received # Nothing, ~Whole PROVE received.m = nullopt
  BY DEF IncompleteRefused
<1>1. /\ sent # Nothing /\ received.class \in Classes
      /\ received.m = deserialize(received.class, document)
  BY DEF WireInv, Arrived
<1>2. sent.class \in Classes /\ Message(sent.class, sent.m)
  BY <1>1 DEF WireInv, Underway
<1> DEFINE keys == DOMAIN document
<1>3. /\ keys \in SUBSET (sent.class.keys \cup {"type"})
      /\ document = Restrict(serialize(sent.class, sent.m), keys)
  BY <1>1, WholeDocument
<1>4. keys # sent.class.keys \cup {"type"}
  BY DEF Whole
<1> HIDE DEF keys
<1>5. CASE received.class # sent.class
  BY <1>1, <1>2, <1>3, <1>5, OthersRefuse
<1>6. CASE received.class = sent.class
  BY <1>1, <1>2, <1>3, <1>4, <1>6, PartRefused
<1> QED  BY <1>5, <1>6

\* What comes out of the chat is what was said, cleaned, and so the filter holds.
LEMMA FilterHoldsHere == ASSUME Starless, WireInv PROVE FilterHolds
<1> SUFFICES ASSUME Heard PROVE FilterHolds
  BY DEF FilterHolds, OnceIsMasked, FilterAgrees
<1>1. /\ said # Nothing /\ received # Nothing /\ received.class = message_response
      /\ received.m # nullopt
  BY DEF Heard
<1>2. Whole
  BY <1>1, IncompleteHolds DEF IncompleteRefused
<1>3. sent.class = message_response
  BY <1>1, <1>2, NoMixUpHolds DEF NoMixUp
<1>4. received.m = message_of(clean_profanity_ish(said, _enabled_tiers)) /\ said \in Phrases
  BY <1>1, <1>2, <1>3, RoundTripHolds DEF RoundTrip, WireInv, Spoken
<1> DEFINE heard == clean_profanity_ish(said, _enabled_tiers)
<1>5. received.m.content = heard
  BY <1>4 DEF message_of
<1>6. Text(said)
  BY <1>4, PhrasesAssumption DEF Text
<1> HIDE DEF heard
<1>7. string_tolower(heard) = heard
  BY <1>6, CleanIsLower DEF heard
<1>8. OnceIsMasked
  BY <1>5, <1>6, <1>7, OnceMasked DEF OnceIsMasked, heard
<1>9. FilterAgrees
  BY <1>5, <1>6, ChangedIfProfane, ProfaneIsProfaneIsh DEF FilterAgrees, heard
<1> QED  BY <1>8, <1>9 DEF FilterHolds

\* What the server says for a client is what it said, cleaned: a message again.
LEMMA PublicChatStep == ASSUME WireInv, PublicChat PROVE WireInv'
<1>1. /\ said # Nothing /\ received # Nothing /\ received.class = message_request
      /\ received.m # nullopt /\ said' = said
  BY DEF PublicChat
<1>2. Whole
  BY <1>1, IncompleteHolds DEF IncompleteRefused
<1>3. sent.class = message_request
  BY <1>1, <1>2, NoMixUpHolds DEF NoMixUp
<1>4. received.m.content = said /\ said \in Phrases
  BY <1>1, <1>2, <1>3, RoundTripHolds DEF RoundTrip, WireInv, Spoken
<1> DEFINE heard == message_of(clean_profanity_ish(received.m.content, _enabled_tiers))
<1>5. Message(message_response, heard)
  BY <1>4, PhrasesAssumption DEF WireInv
<1>6. Write(message_response, heard)
  BY DEF PublicChat
<1>7. message_response \in Classes
  BY DEF Classes, Responses
<1>8. message_response # message_request
  BY Types
<1> QED  BY <1>1, <1>4, <1>5, <1>6, <1>7, <1>8, WriteStep

\* Every document under way is one that serialize wrote, or a part of it.
THEOREM WireInvariant == WireSpec => []WireInv
<1>1. WireInit => WireInv
  BY DEF WireInit, Idle, WireInv, Underway, Arrived, Spoken
<1>2. WireInv /\ [WireNext]_wireVars => WireInv'
  <2> SUFFICES ASSUME WireInv, [WireNext]_wireVars PROVE WireInv'
    OBVIOUS
  <2>1. CASE Send
    <3>1. PICK class \in Classes : \E m \in Samples[class] : Write(class, m)
      BY <2>1 DEF Send
    <3>2. PICK m \in Samples[class] : Write(class, m)
      BY <3>1
    <3>3. said' = Nothing
      BY <2>1 DEF Send, Idle
    <3> QED  BY <3>2, <3>3, SamplesAssumption, WriteStep
  <2>2. CASE Say
    <3>1. PICK phrase \in Phrases :
            Write(message_request, [content |-> phrase]) /\ said' = phrase
      BY <2>2 DEF Say
    <3>2. message_request \in Classes
      BY DEF Classes, Requests
    <3>3. message_request # message_response
      BY Types
    <3> QED  BY <3>1, <3>2, <3>3, PhrasesAssumption, WriteStep
  <2>3. CASE Done
    BY <2>3 DEF Done, WireInv, Underway, Arrived, Spoken
  <2>4. CASE UNCHANGED wireVars
    BY <2>4 DEF wireVars, WireInv, Underway, Arrived, Spoken, Whole
  <2> QED  BY <2>1, <2>2, <2>3, <2>4, SwitchStep, LeaveOutStep, ReceiveStep, PublicChatStep
              DEF WireNext
<1> QED  BY <1>1, <1>2, PTL DEF WireSpec

\* What is written is what is read, for every message that the members' types allow:
\* the class that wrote a document gets its message back.
THEOREM RoundTrips == WireSpec => []RoundTrip
  BY WireInvariant, RoundTripHolds, PTL

\* No class takes the document of another, and a request reaches the class that wrote
\* it, whichever class a client tries on a response.
THEOREM NobodyMixesUp == WireSpec => []NoMixUp
  BY WireInvariant, NoMixUpHolds, PTL

\* A document that lacks any one of its keys is refused by every class.
THEOREM PartsAreRefused == WireSpec => []IncompleteRefused
  BY WireInvariant, IncompleteHolds, PTL

\* The filter holds, for any dictionary without stars, in any order of its words, and
\* for any phrase: a word that is there once is masked, and chat changes just what
\* registration refuses.
THEOREM FilterIsKept == Starless /\ WireSpec => []FilterHolds
<1> SUFFICES ASSUME Starless PROVE WireSpec => []FilterHolds
  OBVIOUS
<1>1. WireInv => FilterHolds
  BY FilterHoldsHere
<1> QED  BY <1>1, WireInvariant, PTL
=============================================================================
