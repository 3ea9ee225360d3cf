-------------------------------- MODULE Tables --------------------------------
(***************************************************************************)
(* The tables of init.sql, the repositories' queries on them, and the      *)
(* transactions of the handlers that run these queries one by one.  A      *)
(* transaction that is not committed, because the handler returned early,  *)
(* a query raised or the server stopped, leaves no row; the sequences the  *)
(* ids come from do not go back.                                           *)
(*                                                                         *)
(* Only the websocket thread uses the repositories, so one transaction is  *)
(* open at a time.  Where a SELECT has no ORDER BY, result[0] is any row:  *)
(* a query is the set of the results it may return.  The columns no        *)
(* property tells apart are one column: level of a character stands for    *)
(* gold, allegiance, gender, alignment and class too, map_name of a        *)
(* location for x and y, username of a user for the rest of the account.   *)
(***************************************************************************)
EXTENDS Integers, FiniteSets

CONSTANTS
  UserNames, Slots, Names, MapNames, Levels, Values,
  StartMap,     \* "Tutorial"
  BaseStats,    \* the names in select_response.base_stats
  Ips,
  nullopt,      \* an empty optional, and NULL in a column
  MaxId,        \* bound: the ids each sequence gives
  MaxNow        \* bound: the clock

Tables == {"users", "locations", "characters", "character_stats", "banned_users"}
Empty == [table \in Tables |-> {}]

ASSUME TablesAssumption == /\ MaxId \in [Tables -> Nat] /\ MaxNow \in Nat
                           /\ nullopt \notin UserNames \cup Ips

-----------------------------------------------------------------------------
\* init.sql: the constraints, which hold after every statement.
Unique(rows, Key(_)) == \A r1, r2 \in rows : Key(r1) = Key(r2) => r1 = r2

Username(r) == r.username
UserAndSlot(r) == <<r.user_id, r.slot>>
Ids(rows) == {r.id : r \in rows}

Constraints(t) ==
  /\ Unique(t.users, Username)
  /\ Unique(t.characters, UserAndSlot)
  /\ \A c \in t.characters : c.location_id \in Ids(t.locations) /\ c.user_id \in Ids(t.users)
  /\ \A s \in t.character_stats : s.character_id \in Ids(t.characters)
  /\ \A b \in t.banned_users : b.user_id \in Ids(t.users) \cup {nullopt}

With(t, table, row) == [t EXCEPT ![table] = @ \cup {row}]
Updated(t, table, row) ==
  [t EXCEPT ![table] = {IF r.id = row.id THEN row ELSE r : r \in @}]

-----------------------------------------------------------------------------
\* What the repositories read.  A result is a row, a set of rows, or nullopt.
First(rows) == IF rows = {} THEN {nullopt} ELSE rows

get_user(t, id) == First({u \in t.users : u.id = id})
get_user_by_name(t, username) == First({u \in t.users : u.username = username})
get_location(t, id) == First({l \in t.locations : l.id = id})
get_stat(t, id) == First({s \in t.character_stats : s.id = id})
get_by_character_id(t, id) == {s \in t.character_stats : s.character_id = id}
get_ban(t, id) == First({b \in t.banned_users : b.id = id})

\* get_by_map_name: as many locations as there are, all of them the first one.
get_by_map_name(t, map_name) ==
  LET rows == {l \in t.locations : l.map_name = map_name}
  IN  {[location |-> first, times |-> Cardinality(rows)] : first \in First(rows)}

\* Mutant of Joined: the join is on the character's id.
JoinedOnId(t, rows) ==
  {[character |-> p[1], loc |-> p[2]] : p \in {q \in rows \X t.locations : q[2].id = q[1].id}}

\* INNER JOIN locations l ON l.id = p.location_id
Joined(t, rows) ==
  {[character |-> p[1], loc |-> p[2]] :
     p \in {q \in rows \X t.locations : q[2].id = q[1].location_id}}

Selected(t, rows, included) ==
  CASE included = "none" -> {[character |-> c, loc |-> nullopt] : c \in rows}
    [] included = "location" -> Joined(t, rows)
    [] OTHER -> {}

get_character_by_name(t, name, user_id, included) ==
  First(Selected(t, {c \in t.characters : c.name = name /\ c.user_id = user_id}, included))

get_character(t, id, user_id) ==
  First(Selected(t, {c \in t.characters : c.id = id /\ c.user_id = user_id}, "none"))

get_character_by_slot(t, slot, user_id, included) ==
  First(Selected(t, {c \in t.characters : c.slot = slot /\ c.user_id = user_id}, included))

\* get_by_user_id: the locations are read from result[0] for every character.
get_by_user_id(t, user_id, included) ==
  LET rows == Selected(t, {c \in t.characters : c.user_id = user_id}, included)
  IN  IF rows = {} THEN {{}}
                   ELSE {{[r EXCEPT !.loc = first.loc] : r \in rows} : first \in rows}

\* Mutant of is_username_or_ip_banned: only accounts are looked at when both are given.
banned_by_name_only(t, username, ip, now) ==
  {b \in t.banned_users :
     /\ b.until # nullopt /\ b.until >= now
     /\ \/ username # nullopt /\ \E u \in t.users : u.id = b.user_id /\ u.username = username
        \/ username = nullopt /\ ip # nullopt /\ b.ip = ip}

\* The bans is_username_or_ip_banned may return one of.  NULL >= now is not true.
is_username_or_ip_banned(t, username, ip, now) ==
  {b \in t.banned_users :
     /\ b.until # nullopt /\ b.until >= now
     /\ \/ username # nullopt /\ \E u \in t.users : u.id = b.user_id /\ u.username = username
        \/ ip # nullopt /\ b.ip = ip}

-----------------------------------------------------------------------------
VARIABLES
  db,         \* the committed tables
  work,       \* the tables as the open transaction sees them
  next_id,    \* the sequences
  job,        \* what the open transaction is for, and how far it is
  created,    \* ids of the characters create_character_handler committed
  now         \* the clock of the bans

vars == <<db, work, next_id, job, created, now>>

NoJob == [kind |-> "none"]
Registering == [kind |-> "register"]
Deleting == [kind |-> "delete"]
Maintaining == [kind |-> "repositories"]
ReplacedBans == [kind |-> "replaced_bans"]
Finished == [kind |-> "finished"]
Creating(user_id, slot) == [kind |-> "create", user_id |-> user_id, slot |-> slot]
Located(user_id, slot, loc) ==
  [kind |-> "located", user_id |-> user_id, slot |-> slot, loc |-> loc]
\* The character is inserted, the stats in left are not.
Filling(character_id, left) ==
  [kind |-> "filling", character_id |-> character_id, left |-> left]

Init == /\ db = Empty
        /\ work = Empty
        /\ next_id = [table \in Tables |-> 1]
        /\ job = NoJob
        /\ created = {}
        /\ now = 0

\* ~database_transaction: what was not committed is gone.
Leave == /\ job' = NoJob
         /\ work' = db
         /\ UNCHANGED <<db, created, now>>

\* A statement that breaks a constraint raises, and the handler is left.
Execute(t, then) ==
  \/ /\ Constraints(t)
     /\ work' = t
     /\ job' = then
     /\ UNCHANGED <<db, created, now>>
  \/ ~Constraints(t) /\ Leave

\* The id of the row a statement inserts: it is used up whatever follows.
Take(table) == /\ next_id[table] <= MaxId[table]
               /\ next_id' = [next_id EXCEPT ![table] = @ + 1]

Begin(first) == /\ job = NoJob
                /\ job' = first
                /\ work' = db
                /\ UNCHANGED <<db, next_id, created, now>>

-----------------------------------------------------------------------------
\* register_handler: the name is free, and then insert_if_not_exists.
InsertUser(username) ==
  LET row == [id |-> next_id.users, username |-> username]
  IN  /\ job = Registering
      /\ Take("users")
      /\ IF get_user_by_name(work, username) # {nullopt}
           THEN Leave
           ELSE Execute(With(work, "users", row), Finished)

\* create_character_handler: the slot is free, the location is inserted.
InsertLocation ==
  LET row == [id |-> next_id.locations, map_name |-> StartMap]
  IN  /\ job.kind = "create"
      /\ get_character_by_slot(work, job.slot, job.user_id, "location") = {nullopt}
      /\ Take("locations")
      /\ Execute(With(work, "locations", row), Located(job.user_id, job.slot, row.id))

\* create_character_handler: the slot is taken or the request is refused.
RefuseCreation == job.kind = "create" /\ Leave /\ UNCHANGED next_id

\* characters_repository::insert, in create_character_handler.
InsertCharacter(name, level) ==
  LET row == [id |-> next_id.characters, user_id |-> job.user_id, location_id |-> job.loc,
              slot |-> job.slot, level |-> level, name |-> name]
  IN  /\ job.kind = "located"
      /\ Take("characters")
      /\ IF \E c \in work.characters : UserAndSlot(c) = UserAndSlot(row)
           THEN Leave
           ELSE Execute(With(work, "characters", row), Filling(row.id, BaseStats))

\* stats_repository::insert, once for each base stat.
InsertStat(name, value) ==
  LET row == [id |-> next_id.character_stats, character_id |-> job.character_id,
              stat_name |-> name, value |-> value]
  IN  /\ job.kind = "filling"
      /\ name \in job.left
      /\ Take("character_stats")
      /\ Execute(With(work, "character_stats", row),
                 Filling(job.character_id, job.left \ {name}))

\* characters_repository::delete_character_by_slot, in delete_character_handler.
DeleteBySlot(slot, user_id) ==
  /\ job = Deleting
  /\ Execute([work EXCEPT !.characters =
                {c \in @ : ~(c.slot = slot /\ c.user_id = user_id)}], Finished)
  /\ UNCHANGED next_id

-----------------------------------------------------------------------------
\* Queries no handler of the server runs yet, each in a transaction of its own.
Maintain(t) == job = Maintaining /\ Execute(t, Finished)

\* users_repository::update
UpdateUser(user, username) ==
  /\ Maintain(Updated(work, "users", [user EXCEPT !.username = username]))
  /\ UNCHANGED next_id

\* locations_repository::update
UpdateLocation(loc, map_name) ==
  /\ Maintain(Updated(work, "locations", [loc EXCEPT !.map_name = map_name]))
  /\ UNCHANGED next_id

\* stats_repository::update
UpdateStat(stat, value) ==
  /\ Maintain(Updated(work, "character_stats", [stat EXCEPT !.value = value]))
  /\ UNCHANGED next_id

\* characters_repository::update_character: all but slot and name.
UpdateCharacter(c, user_id, location_id, level) ==
  /\ Maintain(Updated(work, "characters", [c EXCEPT !.user_id = user_id,
                                                    !.location_id = location_id,
                                                    !.level = level]))
  /\ UNCHANGED next_id

\* Mutant of OnConflict: the name is overwritten as well.
OnConflictRename(old, new) == [new EXCEPT !.id = old.id]

\* ON CONFLICT (user_id, slot) DO UPDATE SET ...: id, slot and name stay.
OnConflict(old, new) == [old EXCEPT !.user_id = new.user_id,
                                    !.location_id = new.location_id,
                                    !.level = new.level]

\* characters_repository::insert_or_update_character
InsertOrUpdate(user_id, slot, location_id, level, name) ==
  LET row == [id |-> next_id.characters, user_id |-> user_id, location_id |-> location_id,
              slot |-> slot, level |-> level, name |-> name]
      same == {c \in work.characters : UserAndSlot(c) = UserAndSlot(row)}
  IN  /\ Take("characters")
      /\ Maintain(IF same = {}
                    THEN With(work, "characters", row)
                    ELSE Updated(work, "characters", OnConflict(CHOOSE c \in same : TRUE, row)))

\* Mutant of WithBan: the ban of the same user and address is replaced.
WithBanReplaced(t, ban) ==
  [t EXCEPT !.banned_users =
     {b \in @ : b.user_id # ban.user_id \/ b.ip # ban.ip} \cup {ban}]

\* banned_users_repository::insert_if_not_exists inserts, whatever exists.
WithBan(t, ban) == With(t, "banned_users", ban)

InsertBan(ip, user_id, until) ==
  /\ Take("banned_users")
  /\ Maintain(WithBan(work, [id |-> next_id.banned_users, ip |-> ip,
                             user_id |-> user_id, until |-> until]))

\* banned_users_repository::update has no WHERE: every ban becomes this one.
UpdateBans(ip, user_id, until) ==
  /\ job = Maintaining
  /\ Execute([work EXCEPT !.banned_users =
                {[b EXCEPT !.ip = ip, !.user_id = user_id, !.until = until] : b \in @}],
             ReplacedBans)
  /\ UNCHANGED next_id

-----------------------------------------------------------------------------
\* Mutant of MayCommit: the character is committed before its stats are there.
MayCommitEarly ==
  job.kind \in {"finished", "replaced_bans", "filling"}

\* Where the handlers call commit.
MayCommit ==
  \/ job.kind \in {"finished", "replaced_bans"}
  \/ job.kind = "filling" /\ job.left = {}

\* database_transaction::commit, and the transaction's end.
Commit == /\ MayCommit
          /\ db' = work
          /\ job' = NoJob
          /\ created' = IF job.kind = "filling" THEN created \cup {job.character_id}
                                                ELSE created
          /\ UNCHANGED <<work, next_id, now>>

\* A query or the commit raises, the connection is lost, or the server stops.
Rollback == job # NoJob /\ Leave /\ UNCHANGED next_id

Tick == now < MaxNow /\ now' = now + 1 /\ UNCHANGED <<db, work, next_id, job, created>>

Creation ==
  \/ \E u \in db.users, slot \in Slots : Begin(Creating(u.id, slot))
  \/ RefuseCreation
  \/ InsertLocation
  \/ \E name \in Names, level \in Levels : InsertCharacter(name, level)
  \/ \E name \in BaseStats, value \in Values : InsertStat(name, value)

Maintenance ==
  \/ Begin(Maintaining)
  \/ \E u \in work.users, username \in UserNames : UpdateUser(u, username)
  \/ \E l \in work.locations, map_name \in MapNames : UpdateLocation(l, map_name)
  \/ \E s \in work.character_stats, value \in Values : UpdateStat(s, value)
  \/ \E u \in Ids(work.users), l \in Ids(work.locations), level \in Levels :
       \/ \E c \in work.characters : UpdateCharacter(c, u, l, level)
       \/ \E slot \in Slots, name \in Names : InsertOrUpdate(u, slot, l, level, name)
  \/ \E ip \in Ips \cup {nullopt}, u \in Ids(work.users) \cup {nullopt},
         until \in 0 .. MaxNow \cup {nullopt} :
       InsertBan(ip, u, until) \/ UpdateBans(ip, u, until)

Next ==
  \/ Begin(Registering)
  \/ \E username \in UserNames : InsertUser(username)
  \/ Creation
  \/ Begin(Deleting)
  \/ \E u \in db.users, slot \in Slots : DeleteBySlot(slot, u.id)
  \/ Maintenance
  \/ Commit
  \/ Rollback
  \/ Tick

Spec == Init /\ [][Next]_vars

-----------------------------------------------------------------------------
User     == [id : Nat, username : UserNames]
Location == [id : Nat, map_name : MapNames \cup {StartMap}]
Char     == [id : Nat, user_id : Nat, location_id : Nat, slot : Slots, level : Levels,
             name : Names]
Stat     == [id : Nat, character_id : Nat, stat_name : BaseStats, value : Values]
Ban      == [id : Nat, ip : Ips \cup {nullopt}, user_id : Nat \cup {nullopt},
             until : 0 .. MaxNow \cup {nullopt}]

Typed(t) == /\ t = [table \in Tables |-> t[table]]
            /\ t.users \subseteq User
            /\ t.locations \subseteq Location
            /\ t.characters \subseteq Char
            /\ t.character_stats \subseteq Stat
            /\ t.banned_users \subseteq Ban

Job == {NoJob, Registering, Deleting, Maintaining, ReplacedBans, Finished}
         \cup [kind : {"create"}, user_id : Nat, slot : Slots]
         \cup [kind : {"located"}, user_id : Nat, slot : Slots, loc : Nat]
         \cup [kind : {"filling"}, character_id : Nat, left : SUBSET BaseStats]

TypeOK == /\ Typed(db) /\ Typed(work)
          /\ next_id \in [Tables -> Nat]
          /\ job \in Job
          /\ created \subseteq Nat
          /\ now \in Nat

\* The character is somewhere and has every base stat.
Whole(t, c) ==
  /\ get_location(t, c.location_id) \subseteq t.locations
  /\ \A name \in BaseStats :
       \E s \in get_by_character_id(t, c.id) : s.stat_name = name

(***************************************************************************)
(* Nothing half made: whatever failed in between, a character that         *)
(* create_character_handler ever committed has a location and every base   *)
(* stat for as long as it exists.  Location, character and stats are       *)
(* separate statements; play_character_handler reads them all and leaves   *)
(* the slot taken where one is missing.                                    *)
(***************************************************************************)
NothingHalf == \A c \in db.characters : c.id \in created => Whole(db, c)

(***************************************************************************)
(* A committed character keeps its slot and its name, and a stat its       *)
(* character, through every update and through insert_or_update_character, *)
(* which meets rows of other characters by user and slot.                  *)
(***************************************************************************)
IdentityKept ==
  [][/\ \A c \in db.characters, d \in db'.characters :
          c.id = d.id => c.slot = d.slot /\ c.name = d.name
     /\ \A s \in db.character_stats, r \in db'.character_stats :
          s.id = r.id => s.character_id = r.character_id /\ s.stat_name = r.stat_name]_vars

\* A row of the list get_by_user_id returns that has its own location.
OwnPlace(r) == r.loc.id = r.character.location_id

(***************************************************************************)
(* The ways to read a row agree.  What is read by an id is that row.  A    *)
(* character is found by slot where its row says, and the list of a user,  *)
(* which a join builds, leaves nobody out; with one character in it the    *)
(* location is right.  (With more, every character gets the location of    *)
(* the first row, and get_by_map_name returns the first row only.)         *)
(***************************************************************************)
ReadsAgree ==
  /\ \A u \in db.users : get_user(db, u.id) = {u} /\ get_user_by_name(db, u.username) = {u}
  /\ \A s \in db.character_stats : get_stat(db, s.id) = {s}
  /\ \A b \in db.banned_users : get_ban(db, b.id) = {b}
  /\ \A l \in db.locations :
       /\ get_location(db, l.id) = {l}
       /\ \E r \in get_by_map_name(db, l.map_name) : r.location = l
  /\ \A c \in db.characters :
    /\ get_character_by_slot(db, c.slot, c.user_id, "location") =
         {[character |-> c, loc |-> l] : l \in get_location(db, c.location_id)}
    /\ get_character(db, c.id, c.user_id) = get_character_by_slot(db, c.slot, c.user_id, "none")
    /\ [character |-> c, loc |-> nullopt] \in
         get_character_by_name(db, c.name, c.user_id, "none")
    /\ \A list \in get_by_user_id(db, c.user_id, "location") :
         /\ {r.character : r \in list} = {d \in db.characters : d.user_id = c.user_id}
         /\ \E r \in list : OwnPlace(r)

\* Whom the query refuses.  The handlers ask with a name and without an address
\* (login_handler.cpp:52); the query takes either, or both.
Refused(t, username, ip, time) == is_username_or_ip_banned(t, username, ip, time) # {}

(***************************************************************************)
(* A ban holds: what is_username_or_ip_banned finds by the name it finds   *)
(* again, by the name alone or with any address, and what it finds by an   *)
(* address it finds by that and a name, until the ban has ended, however   *)
(* many bans are added and whatever else is committed, renaming the        *)
(* account included.  Only banned_users_repository::update ends bans       *)
(* early, and then all of them, since it has no WHERE.                     *)
(***************************************************************************)
BansHold ==
  [][\A u \in db.users, v \in db'.users, ip \in Ips \cup {nullopt} :
       /\ u.id = v.id
       /\ job # ReplacedBans
       /\ Refused(db, u.username, nullopt, now') \/ Refused(db, nullopt, ip, now')
       => Refused(db', v.username, ip, now')]_vars
=============================================================================
