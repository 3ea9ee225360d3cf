-------------------------------- MODULE MCWire --------------------------------
EXTENDS Wire

\* Words that overlap and contain each other, and the case of the letters.
Words == <<[word |-> <<"a", "b">>, tier |-> 4], [word |-> <<"b">>, tier |-> 0],
           [word |-> <<"b", "a", "b">>, tier |-> 1]>>
ABC == [c \in {"A", "B"} |-> IF c = "A" THEN "a" ELSE "b"]

\* The phrases of up to four characters.
Texts == UNION {[1 .. n -> {"a", "b", "B", " "}] : n \in 0 .. 4}

\* Two values of each kind, the largest uint32 among them.
Uints == {0, UintSize - 1}
Ints  == {-(UintSize \div 2), -1, UintSize \div 2 - 1}
Upto1(S) == {<<>>} \cup {<<x>> : x \in S}
Upto2(S) == Upto1(S) \cup {<<x, y>> : x, y \in S}

Stats(V) == [name : {"str"}, value : V]
Skills   == [name : {"axe"}, value : Uints]
Items    == [tier : {0}, value : Uints, sprite : {1}, name : {"i"}, description : {"d"},
             item_type : {"w"}, stats : Upto1(Stats(Uints))]
NamedItems == [tier : {0}, value : {0}, sprite : {0}, name : {"i", "j"}, description : {""},
               item_type : {""}, stats : {<<>>}]
Characters ==
  [name : {"n"}, gender : {"g"}, allegiance : {"a"}, baseclass : {"c"}, map_name : {"m"},
   level : {1}, slot : {0}, gold : {UintSize - 1}, x : {2}, y : {3},
   stats : Upto2(Stats(Uints)), items : Upto1(Items), skills : Upto1(Skills)]
Accounts == [is_game_master : BOOLEAN, is_tester : {FALSE}, has_done_trial : {FALSE},
             trial_ends_unix_timestamp : {UintSize}, subscription_tier : {0}, username : {"u"}]
Npcs == [name : {"n"}, sprite : Uints, x : Ints, y : {-1, 2}]
Allegiances == [name : {"p"}, description : {"d"}, stat_mods : Upto1(Stats(Ints)),
                items : Upto1(NamedItems), skills : Upto1(Skills)]
BaseClasses == [name : {"k"}, description : {"d"}, stat_mods : Upto1(Stats({-1}))]

MCSamples ==
  [class \in Classes |->
     CASE class = login_response ->
            [username : {"u"}, email : {"e"}, motd : {"m"}, players : Upto1(Characters),
             online_users : Upto1(Accounts)]
       [] class = create_character_response -> Characters
       [] class = character_select_response ->
            [base_stats : Upto1(Stats(Ints)), allegiances : Upto1(Allegiances),
             classes : Upto1(BaseClasses)]
       [] class = map_update_response -> [npcs : Upto2(Npcs)]
       [] OTHER -> [class.keys -> {"s", "t"}]]

\* What FilterHolds needs of the dictionary.
ASSUME StarlessAssumption == Starless
=============================================================================
