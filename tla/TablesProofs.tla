----------------------------- MODULE TablesProofs -----------------------------
(***************************************************************************)
(* Tables for any number of users, slots, stats, ids and bans.  The        *)
(* invariant says of the committed tables and of those the transaction     *)
(* sees alike that ids come from the sequences and that characters of      *)
(* create_character_handler have their stats, and relates the two: a row   *)
(* keeps what identifies it, and a ban is not lost.                        *)
(***************************************************************************)
EXTENDS Tables, TLAPS

\* A row's id was given by its table's sequence.
Given(t, nid) == /\ \A u \in t.users : u.id < nid.users
                 /\ \A l \in t.locations : l.id < nid.locations
                 /\ \A c \in t.characters : c.id < nid.characters
                 /\ \A s \in t.character_stats : s.id < nid.character_stats
                 /\ \A b \in t.banned_users : b.id < nid.banned_users

\* No id is there twice.
Apart(t) == /\ \A u, v \in t.users : u.id = v.id => u = v
            /\ \A l, k \in t.locations : l.id = k.id => l = k
            /\ \A c, d \in t.characters : c.id = d.id => c = d
            /\ \A r, s \in t.character_stats : r.id = s.id => r = s
            /\ \A b, d \in t.banned_users : b.id = d.id => b = d

HasStats(t, id, names) ==
  \A name \in names : \E s \in t.character_stats : s.character_id = id /\ s.stat_name = name

AllHaveStats(t, ids) == \A c \in t.characters : c.id \in ids => HasStats(t, c.id, BaseStats)

Good(t, nid, ids) == Given(t, nid) /\ Apart(t) /\ AllHaveStats(t, ids)

\* What identifies a row is the same in t1 and t2.
SameRows(t1, t2) ==
  /\ \A c \in t1.characters, d \in t2.characters :
       c.id = d.id => c.slot = d.slot /\ c.name = d.name
  /\ \A s \in t1.character_stats, r \in t2.character_stats :
       s.id = r.id => s.character_id = r.character_id /\ s.stat_name = r.stat_name

\* The character being filled has the stats that are not left.
Filled(t, j, nid) ==
  j.kind = "filling" => /\ j.character_id < nid.characters
                        /\ HasStats(t, j.character_id, BaseStats \ j.left)

BansStay(t, j) == j # ReplacedBans => db.banned_users \subseteq t.banned_users

TablesInv ==
  /\ TypeOK
  /\ Constraints(db) /\ Constraints(work)
  /\ Good(db, next_id, created) /\ Good(work, next_id, created)
  /\ \A i \in created : i < next_id.characters
  /\ SameRows(db, work)
  /\ Filled(work, job, next_id)
  /\ BansStay(work, job)

\* The tables are empty at first.
LEMMA InvInit == Init => TablesInv
<1> SUFFICES ASSUME Init PROVE TablesInv
  OBVIOUS
<1>1. /\ Empty.users = {} /\ Empty.locations = {} /\ Empty.characters = {}
      /\ Empty.character_stats = {} /\ Empty.banned_users = {}
  BY DEF Empty, Tables
<1>2. Typed(Empty)
  BY <1>1 DEF Empty, Typed
<1>3. TypeOK
  BY <1>2 DEF Init, TypeOK, Job
<1>4. Constraints(Empty)
  BY <1>1 DEF Constraints, Unique
<1>5. job.kind = "none"
  BY DEF Init, NoJob
<1> QED
  BY <1>1, <1>3, <1>4, <1>5
     DEF Init, TablesInv, Good, Given, Apart, AllHaveStats, SameRows, Filled, BansStay

-----------------------------------------------------------------------------
\* The sequences only go on.
Grows == /\ next_id' \in [Tables -> Nat]
         /\ \A table \in Tables : next_id[table] <= next_id'[table]

\* Taking an id lets the sequences grow; so does taking none.
LEMMA TakeGrows ==
  ASSUME TypeOK, NEW table \in Tables, Take(table)
  PROVE  /\ Grows
         /\ next_id'[table] = next_id[table] + 1
BY DEF TypeOK, Take, Grows

\* Nothing is lost of what holds of tables when the sequences grow.
LEMMA GivenGrows ==
  ASSUME TypeOK, Grows, NEW t, Typed(t), Given(t, next_id)
  PROVE  Given(t, next_id')
BY DEF TypeOK, Grows, Given, Typed, User, Location, Char, Stat, Ban, Tables

(***************************************************************************)
(* A transaction that is left shows the committed tables again.            *)
(***************************************************************************)
LEMMA LeaveStep == TablesInv /\ Leave /\ Grows => TablesInv'
<1> SUFFICES ASSUME TablesInv, Leave, Grows PROVE TablesInv'
  OBVIOUS
<1> USE DEF TablesInv, Leave
<1>1. job'.kind = "none" /\ job' \in Job
  BY DEF NoJob, Job
<1>2. TypeOK'
  BY <1>1 DEF TypeOK, Typed, Grows
<1>3. Good(db, next_id', created)
  BY GivenGrows DEF Good, TypeOK
<1>4. \A i \in created : i < next_id'.characters
  BY DEF TypeOK, Grows, Tables
<1>5. SameRows(db, db)
  BY DEF SameRows, Good, Apart
<1> QED
  BY <1>1, <1>2, <1>3, <1>4, <1>5 DEF Constraints, Good, Given, Apart, AllHaveStats, HasStats, SameRows, Filled, BansStay

(***************************************************************************)
(* A statement that makes the tables t: what it has to be checked for.     *)
(***************************************************************************)
Sound(t, then) == /\ Typed(t)
                  /\ then \in Job
                  /\ Good(t, next_id', created)
                  /\ SameRows(db, t)
                  /\ Filled(t, then, next_id')
                  /\ BansStay(t, then)

\* A sound statement keeps the invariant, whether it breaks a constraint or not.
LEMMA ExecuteStep ==
  ASSUME NEW t, NEW then, TablesInv, Execute(t, then), Grows, Sound(t, then)
  PROVE  TablesInv'
<1>1. CASE Leave
  BY <1>1, LeaveStep
<1>2. CASE Constraints(t) /\ work' = t /\ job' = then /\ UNCHANGED <<db, created, now>>
  <2> USE <1>2 DEF TablesInv, Sound
  <2>1. TypeOK'
    BY DEF TypeOK, Grows, Typed
  <2>2. Good(db, next_id', created)
    BY GivenGrows DEF Good, TypeOK
  <2>3. \A i \in created : i < next_id'.characters
    BY DEF TypeOK, Grows, Tables
  <2> QED
    BY <2>1, <2>2, <2>3 DEF Constraints, Good, Given, Apart, AllHaveStats, HasStats, SameRows, Filled, BansStay
<1> QED
  BY <1>1, <1>2 DEF Execute
-----------------------------------------------------------------------------
\* A statement changes one table.
OneTable(t, u, table, rows) ==
  /\ u = [k \in Tables |-> u[k]]
  /\ u[table] = rows
  /\ \A k \in Tables \ {table} : u[k] = t[k]

\* EXCEPT on tables changes the table it names.
LEMMA ExceptTable ==
  ASSUME NEW t, Typed(t), NEW table \in Tables, NEW rows
  PROVE  OneTable(t, [t EXCEPT ![table] = rows], table, rows)
BY DEF Typed, OneTable

\* So does an insertion.
LEMMA WithTable ==
  ASSUME NEW t, Typed(t), NEW table \in Tables, NEW row
  PROVE  OneTable(t, With(t, table, row), table, t[table] \cup {row})
BY ExceptTable DEF With

\* Rows of the table's type keep tables typed.
LEMMA OneTyped ==
  ASSUME NEW t, NEW u, NEW table, NEW rows, Typed(t), OneTable(t, u, table, rows),
         \/ table = "users" /\ rows \subseteq User
         \/ table = "locations" /\ rows \subseteq Location
         \/ table = "characters" /\ rows \subseteq Char
         \/ table = "character_stats" /\ rows \subseteq Stat
         \/ table = "banned_users" /\ rows \subseteq Ban
  PROVE  Typed(u)
<1>1. /\ t.users \subseteq User /\ t.locations \subseteq Location /\ t.characters \subseteq Char
      /\ t.character_stats \subseteq Stat /\ t.banned_users \subseteq Ban
  BY DEF Typed
<1>2. u = [k \in Tables |-> u[k]] /\ u[table] = rows
  BY DEF OneTable
<1>3. /\ table # "users" => u.users = t.users
      /\ table # "locations" => u.locations = t.locations
      /\ table # "characters" => u.characters = t.characters
      /\ table # "character_stats" => u.character_stats = t.character_stats
      /\ table # "banned_users" => u.banned_users = t.banned_users
  BY DEF OneTable, Tables
<1> QED
  BY <1>1, <1>2, <1>3 DEF Typed

\* The rows of a table where row has replaced the one with its id.
Replaced(rows, row) == {IF r.id = row.id THEN row ELSE r : r \in rows}

\* A statement on a table other than characters and character_stats is sound.
LEMMA UnrelatedSound ==
  ASSUME TablesInv, Grows, NEW t, NEW then, Typed(t),
         t.characters = work.characters, t.character_stats = work.character_stats,
         Given(t, next_id'), Apart(t),
         then \in Job, then.kind # "filling", BansStay(t, then)
  PROVE  Sound(t, then)
BY DEF TablesInv, Sound, Good, AllHaveStats, HasStats, SameRows, Filled

\* A table whose ids are given and apart keeps the ids of all tables so.
LEMMA OneGood ==
  ASSUME TablesInv, Grows, NEW t, NEW table \in Tables, NEW rows,
         OneTable(work, t, table, rows),
         \A r \in rows : r.id < next_id'[table],
         \A r, s \in rows : r.id = s.id => r = s
  PROVE  Given(t, next_id') /\ Apart(t)
<1>1. Given(work, next_id') /\ Apart(work)
  BY GivenGrows DEF Good, TypeOK, TablesInv
<1>2. t[table] = rows /\ \A k \in Tables \ {table} : t[k] = work[k]
  BY DEF OneTable
<1>3. \A k \in Tables : \A r \in work[k] : r.id < next_id'[k]
  BY <1>1 DEF Given, Tables
<1>4. \A k \in Tables : \A r, s \in work[k] : r.id = s.id => r = s
  BY <1>1 DEF Apart, Tables
<1>5. /\ \A k \in Tables : \A r \in t[k] : r.id < next_id'[k]
      /\ \A k \in Tables : \A r, s \in t[k] : r.id = s.id => r = s
  BY <1>2, <1>3, <1>4
<1>6. /\ "users" \in Tables /\ "locations" \in Tables /\ "characters" \in Tables
      /\ "character_stats" \in Tables /\ "banned_users" \in Tables
  BY DEF Tables
<1> QED
  BY <1>5, <1>6 DEF Given, Apart

\* A row under the id just taken leaves the ids of its table given and apart.
LEMMA AddedIds ==
  ASSUME TablesInv, NEW table \in Tables, Take(table), NEW row, row.id = next_id[table]
  PROVE  /\ \A r \in work[table] \cup {row} : r.id < next_id'[table]
         /\ \A r, s \in work[table] \cup {row} : r.id = s.id => r = s
<1>1. next_id'[table] = next_id[table] + 1 /\ next_id[table] \in Nat
  BY TakeGrows DEF TablesInv, TypeOK
<1>2. \A r \in work[table] : r.id \in Nat
  BY DEF TablesInv, TypeOK, Typed, User, Location, Char, Stat, Ban, Tables
<1>3. \A r \in work[table] : r.id < next_id[table]
  BY DEF TablesInv, Good, Given, Tables
<1>4. \A r, s \in work[table] : r.id = s.id => r = s
  BY DEF TablesInv, Good, Apart, Tables
<1> QED
  BY <1>1, <1>2, <1>3, <1>4

\* So does a row that takes the place of the one with its id.
LEMMA ReplacedIds ==
  ASSUME TablesInv, Grows, NEW table \in Tables, NEW old \in work[table], NEW row,
         row.id = old.id
  PROVE  /\ \A r \in Replaced(work[table], row) : r.id < next_id'[table]
         /\ \A r, s \in Replaced(work[table], row) : r.id = s.id => r = s
<1>1. Given(work, next_id') /\ Apart(work)
  BY GivenGrows DEF Good, TypeOK, TablesInv
<1>2. \A r \in work[table] : r.id < next_id'[table]
  BY <1>1 DEF Given, Tables
<1>3. \A r, s \in work[table] : r.id = s.id => r = s
  BY <1>1 DEF Apart, Tables
<1>4. \A r \in Replaced(work[table], row) : r = row \/ (r \in work[table] /\ r.id # row.id)
  BY DEF Replaced
<1> QED
  BY <1>2, <1>3, <1>4

\* Such a statement keeps the invariant.
LEMMA UnrelatedStep ==
  ASSUME TablesInv, Grows, job # ReplacedBans,
         NEW t, NEW then, NEW table, NEW rows,
         OneTable(work, t, table, rows), Execute(t, then),
         \/ table = "users" /\ rows \subseteq User
         \/ table = "locations" /\ rows \subseteq Location
         \/ table = "banned_users" /\ rows \subseteq Ban,
         \A r \in rows : r.id < next_id'[table],
         \A r, s \in rows : r.id = s.id => r = s,
         then \in Job, then.kind # "filling",
         table = "banned_users" /\ then # ReplacedBans => work["banned_users"] \subseteq rows
  PROVE  TablesInv'
<1>1. Typed(work)
  BY DEF TablesInv, TypeOK
<1>2. Typed(t)
  BY <1>1, OneTyped
<1>3. t.characters = work.characters /\ t.character_stats = work.character_stats
  BY DEF OneTable, Tables
<1>4. BansStay(t, then)
  <2>1. then # ReplacedBans => work.banned_users \subseteq t.banned_users
    BY DEF OneTable, Tables
  <2> QED
    BY <2>1 DEF BansStay, TablesInv
<1>5. table \in Tables
  BY DEF Tables
<1>6. Given(t, next_id') /\ Apart(t)
  BY <1>5, OneGood
<1>7. Sound(t, then)
  BY <1>2, <1>3, <1>4, <1>6, UnrelatedSound
<1> QED
  BY <1>7, ExecuteStep

\* Without an id taken the sequences stay.
LEMMA StayGrows == TypeOK /\ UNCHANGED next_id => Grows
BY DEF TypeOK, Grows

\* The end of a transaction's statements.
LEMMA FinishedJob == /\ Finished \in Job /\ Finished.kind = "finished"
                     /\ Finished # ReplacedBans
                     /\ ReplacedBans \in Job /\ ReplacedBans.kind = "replaced_bans"
                     /\ Registering # ReplacedBans /\ Maintaining # ReplacedBans
                     /\ Deleting # ReplacedBans
BY DEF Job, Finished, ReplacedBans, Registering, Maintaining, Deleting

\* An update replaces rows.
LEMMA UpdatedTable ==
  ASSUME NEW t, Typed(t), NEW table \in Tables, NEW row
  PROVE  OneTable(t, Updated(t, table, row), table, Replaced(t[table], row))
BY ExceptTable DEF Updated, Replaced

\* register_handler's insertion of a user.
LEMMA InsertUserStep ==
  ASSUME TablesInv, NEW username \in UserNames, InsertUser(username)
  PROVE  TablesInv'
<1> DEFINE row == [id |-> next_id.users, username |-> username]
<1>1. Grows
  BY TakeGrows DEF InsertUser, Tables, TablesInv
<1>2. CASE Leave
  BY <1>1, <1>2, LeaveStep
<1>3. CASE Execute(With(work, "users", row), Finished)
  <2>1. Typed(work) /\ "users" \in Tables
    BY DEF TablesInv, TypeOK, Tables
  <2>2. OneTable(work, With(work, "users", row), "users", work["users"] \cup {row})
    BY <2>1, WithTable
  <2>3. row \in User
    BY DEF TablesInv, TypeOK, Tables, User
  <2>4. work["users"] \cup {row} \subseteq User
    BY <2>1, <2>3 DEF Typed
  <2>5. Take("users") /\ row.id = next_id["users"] /\ job = Registering
    BY DEF InsertUser
  <2> HIDE DEF row
  <2>6. /\ \A r \in work["users"] \cup {row} : r.id < next_id'["users"]
        /\ \A r, s \in work["users"] \cup {row} : r.id = s.id => r = s
    BY <2>1, <2>5, AddedIds
  <2> QED
    BY <1>1, <1>3, <2>2, <2>4, <2>5, <2>6, FinishedJob, UnrelatedStep
<1> QED
  BY <1>2, <1>3 DEF InsertUser

\* create_character_handler's insertion of a location.
LEMMA InsertLocationStep == TablesInv /\ InsertLocation => TablesInv'
<1> SUFFICES ASSUME TablesInv, InsertLocation PROVE TablesInv'
  OBVIOUS
<1> DEFINE row == [id |-> next_id.locations, map_name |-> StartMap]
           then == Located(job.user_id, job.slot, row.id)
<1>1. Grows
  BY TakeGrows DEF InsertLocation, Tables, TablesInv
<1>2. Typed(work) /\ "locations" \in Tables
  BY DEF TablesInv, TypeOK, Tables
<1>3. OneTable(work, With(work, "locations", row), "locations", work["locations"] \cup {row})
  BY <1>2, WithTable
<1>4. row \in Location
  BY DEF TablesInv, TypeOK, Tables, Location
<1>5. work["locations"] \cup {row} \subseteq Location
  BY <1>2, <1>4 DEF Typed
<1>6. job.kind = "create" /\ job \in Job
  BY DEF InsertLocation, TablesInv, TypeOK
<1>7. job.user_id \in Nat /\ job.slot \in Slots /\ job # ReplacedBans
  BY <1>6 DEF Job, NoJob, Registering, Deleting, Maintaining, ReplacedBans, Finished
<1>8. then \in Job /\ then.kind # "filling" /\ then # ReplacedBans
  BY <1>4, <1>7 DEF Job, Located, ReplacedBans, Location
<1>9. /\ Execute(With(work, "locations", row), then)
      /\ Take("locations") /\ row.id = next_id["locations"]
  BY DEF InsertLocation
<1> HIDE DEF row, then
<1>10. /\ \A r \in work["locations"] \cup {row} : r.id < next_id'["locations"]
       /\ \A r, s \in work["locations"] \cup {row} : r.id = s.id => r = s
  BY <1>2, <1>9, AddedIds
<1> QED
  BY <1>1, <1>3, <1>5, <1>7, <1>8, <1>9, <1>10, UnrelatedStep

\* users_repository::update.
LEMMA UpdateUserStep ==
  ASSUME TablesInv, NEW user \in work.users, NEW username \in UserNames,
         UpdateUser(user, username)
  PROVE  TablesInv'
<1> DEFINE row == [user EXCEPT !.username = username]
           rows == Replaced(work["users"], row)
<1>1. Grows
  BY StayGrows DEF UpdateUser, TablesInv
<1>2. Typed(work) /\ "users" \in Tables
  BY DEF TablesInv, TypeOK, Tables
<1>3. OneTable(work, Updated(work, "users", row), "users", rows)
  BY <1>2, UpdatedTable
<1>4. row \in User /\ row.id = user.id
  BY <1>2 DEF Typed, User
<1>5. rows \subseteq User
  BY <1>2, <1>4 DEF Typed, Replaced
<1>6. job = Maintaining /\ Execute(Updated(work, "users", row), Finished)
  BY DEF UpdateUser, Maintain
<1> HIDE DEF row
<1>7. /\ \A r \in rows : r.id < next_id'["users"]
      /\ \A r, s \in rows : r.id = s.id => r = s
  BY <1>1, <1>2, <1>4, ReplacedIds
<1> HIDE DEF rows
<1> QED
  BY <1>1, <1>3, <1>5, <1>6, <1>7, FinishedJob, UnrelatedStep

\* locations_repository::update.
LEMMA UpdateLocationStep ==
  ASSUME TablesInv, NEW loc \in work.locations, NEW map_name \in MapNames,
         UpdateLocation(loc, map_name)
  PROVE  TablesInv'
<1> DEFINE row == [loc EXCEPT !.map_name = map_name]
           rows == Replaced(work["locations"], row)
<1>1. Grows
  BY StayGrows DEF UpdateLocation, TablesInv
<1>2. Typed(work) /\ "locations" \in Tables
  BY DEF TablesInv, TypeOK, Tables
<1>3. OneTable(work, Updated(work, "locations", row), "locations", rows)
  BY <1>2, UpdatedTable
<1>4. row \in Location /\ row.id = loc.id
  BY <1>2 DEF Typed, Location
<1>5. rows \subseteq Location
  BY <1>2, <1>4 DEF Typed, Replaced
<1>6. job = Maintaining /\ Execute(Updated(work, "locations", row), Finished)
  BY DEF UpdateLocation, Maintain
<1> HIDE DEF row
<1>7. /\ \A r \in rows : r.id < next_id'["locations"]
      /\ \A r, s \in rows : r.id = s.id => r = s
  BY <1>1, <1>2, <1>4, ReplacedIds
<1> HIDE DEF rows
<1> QED
  BY <1>1, <1>3, <1>5, <1>6, <1>7, FinishedJob, UnrelatedStep

\* banned_users_repository::insert_if_not_exists.
LEMMA InsertBanStep ==
  ASSUME TablesInv, NEW ip \in Ips \cup {nullopt}, NEW user_id \in Ids(work.users) \cup {nullopt},
         NEW until \in 0 .. MaxNow \cup {nullopt}, InsertBan(ip, user_id, until)
  PROVE  TablesInv'
<1> DEFINE row == [id |-> next_id.banned_users, ip |-> ip, user_id |-> user_id, until |-> until]
<1>1. Grows
  BY TakeGrows DEF InsertBan, Tables, TablesInv
<1>2. Typed(work) /\ "banned_users" \in Tables
  BY DEF TablesInv, TypeOK, Tables
<1>3. OneTable(work, With(work, "banned_users", row), "banned_users",
               work["banned_users"] \cup {row})
  BY <1>2, WithTable
<1>4. user_id \in Nat \cup {nullopt}
  BY <1>2 DEF Ids, Typed, User
<1>5. row \in Ban
  BY <1>4 DEF TablesInv, TypeOK, Tables, Ban
<1>6. work["banned_users"] \cup {row} \subseteq Ban
  BY <1>2, <1>5 DEF Typed
<1>7. job = Maintaining /\ Execute(With(work, "banned_users", row), Finished)
  BY DEF InsertBan, Maintain, WithBan
<1>8. Take("banned_users") /\ row.id = next_id["banned_users"]
  BY DEF InsertBan
<1> HIDE DEF row
<1>9. /\ \A r \in work["banned_users"] \cup {row} : r.id < next_id'["banned_users"]
      /\ \A r, s \in work["banned_users"] \cup {row} : r.id = s.id => r = s
  BY <1>2, <1>8, AddedIds
<1> QED
  BY <1>1, <1>3, <1>6, <1>7, <1>9, FinishedJob, UnrelatedStep

\* banned_users_repository::update, after which bans may be lost.
LEMMA UpdateBansStep ==
  ASSUME TablesInv, NEW ip \in Ips \cup {nullopt}, NEW user_id \in Ids(work.users) \cup {nullopt},
         NEW until \in 0 .. MaxNow \cup {nullopt}, UpdateBans(ip, user_id, until)
  PROVE  TablesInv'
<1> DEFINE rows == {[b EXCEPT !.ip = ip, !.user_id = user_id, !.until = until] :
                      b \in work["banned_users"]}
           t == [work EXCEPT !["banned_users"] = rows]
<1>1. Grows
  BY StayGrows DEF UpdateBans, TablesInv
<1>2. Typed(work) /\ "banned_users" \in Tables
  BY DEF TablesInv, TypeOK, Tables
<1>3. OneTable(work, t, "banned_users", rows)
  <2> HIDE DEF rows
  <2> QED
    BY <1>2, ExceptTable
<1>4. user_id \in Nat \cup {nullopt}
  BY <1>2 DEF Ids, Typed, User
<1>5. rows \subseteq Ban
  <2>1. work["banned_users"] \subseteq Ban
    BY <1>2 DEF Typed
  <2> QED
    BY <1>4, <2>1 DEF Ban
<1>6. job = Maintaining /\ Execute(t, ReplacedBans)
  BY DEF UpdateBans
<1>7. \A r \in rows : \E b \in work.banned_users :
        /\ b.id = r.id
        /\ r = [b EXCEPT !.ip = ip, !.user_id = user_id, !.until = until]
  BY <1>2 DEF Typed, Ban
<1> HIDE DEF rows, t
<1>8. Good(work, next_id', created)
  BY <1>1, GivenGrows DEF Good, TypeOK, TablesInv
<1>9. /\ \A r \in rows : r.id < next_id'["banned_users"]
      /\ \A r, s \in rows : r.id = s.id => r = s
  BY <1>7, <1>8 DEF Good, Given, Apart
<1> QED
  BY <1>1, <1>3, <1>5, <1>6, <1>9, FinishedJob, UnrelatedStep

-----------------------------------------------------------------------------
(***************************************************************************)
(* Statements on characters and on their stats.                            *)
(***************************************************************************)

\* What is left of an invariant's parts when only the characters change.
LEMMA CharactersStep ==
  ASSUME TablesInv, Grows, job # ReplacedBans, NEW t, NEW then, NEW rows,
         OneTable(work, t, "characters", rows), Execute(t, then), rows \subseteq Char,
         then \in Job, Filled(work, then, next_id'),
         \A c \in rows : c.id < next_id'.characters,
         \A c, d \in rows : c.id = d.id => c = d,
         \A c \in rows : c.id \in created => \E d \in work.characters : d.id = c.id,
         \A c \in db.characters, d \in rows : c.id = d.id => c.slot = d.slot /\ c.name = d.name
  PROVE  TablesInv'
<1>1. Typed(work)
  BY DEF TablesInv, TypeOK
<1>2. Typed(t)
  BY <1>1, OneTyped
<1>3. /\ t.characters = rows /\ t.character_stats = work.character_stats
      /\ t.users = work.users /\ t.locations = work.locations
      /\ t.banned_users = work.banned_users
  BY DEF OneTable, Tables
<1>4. Good(t, next_id', created)
  <2>1. Good(work, next_id', created)
    BY GivenGrows DEF Good, TypeOK, TablesInv
  <2> QED
    BY <1>3, <2>1 DEF Good, Given, Apart, AllHaveStats, HasStats
<1>5. SameRows(db, t)
  BY <1>3 DEF SameRows, TablesInv
<1>6. Filled(t, then, next_id') /\ BansStay(t, then)
  BY <1>3 DEF Filled, HasStats, BansStay, TablesInv
<1> QED
  BY <1>2, <1>4, <1>5, <1>6, ExecuteStep DEF Sound

\* delete_character_by_slot.
LEMMA DeleteBySlotStep ==
  ASSUME TablesInv, NEW slot \in Slots, NEW user_id, DeleteBySlot(slot, user_id)
  PROVE  TablesInv'
<1> DEFINE rows == {c \in work["characters"] : ~(c.slot = slot /\ c.user_id = user_id)}
           t == [work EXCEPT !["characters"] = rows]
<1>1. Grows
  BY StayGrows DEF DeleteBySlot, TablesInv
<1>2. Typed(work) /\ "characters" \in Tables
  BY DEF TablesInv, TypeOK, Tables
<1>3. OneTable(work, t, "characters", rows)
  <2> HIDE DEF rows
  <2> QED
    BY <1>2, ExceptTable
<1>4. rows \subseteq work["characters"] /\ rows \subseteq Char
  BY <1>2 DEF Typed
<1>5. job = Deleting /\ Execute(t, Finished)
  BY DEF DeleteBySlot
<1>6. Filled(work, Finished, next_id')
  BY FinishedJob DEF Filled
<1>7. Good(work, next_id', created)
  BY <1>1, GivenGrows DEF Good, TypeOK, TablesInv
<1> HIDE DEF rows, t
<1>8. /\ \A c \in rows : c.id < next_id'.characters
      /\ \A c, d \in rows : c.id = d.id => c = d
      /\ \A c \in db.characters, d \in rows : c.id = d.id => c.slot = d.slot /\ c.name = d.name
  BY <1>4, <1>7 DEF Good, Given, Apart, TablesInv, SameRows
<1> QED
  BY <1>1, <1>3, <1>4, <1>5, <1>6, <1>8, FinishedJob, CharactersStep

\* A character that is updated under its own id, slot and name.
LEMMA ReplaceCharacter ==
  ASSUME TablesInv, Grows, job = Maintaining,
         NEW c \in work.characters, NEW row \in Char,
         row.id = c.id, row.slot = c.slot, row.name = c.name,
         Execute(Updated(work, "characters", row), Finished)
  PROVE  TablesInv'
<1> DEFINE rows == Replaced(work["characters"], row)
<1>1. Typed(work) /\ "characters" \in Tables
  BY DEF TablesInv, TypeOK, Tables
<1>2. OneTable(work, Updated(work, "characters", row), "characters", rows)
  BY <1>1, UpdatedTable
<1>3. rows \subseteq Char
  BY <1>1 DEF Typed, Replaced
<1>4. Filled(work, Finished, next_id')
  BY FinishedJob DEF Filled
<1>5. Good(work, next_id', created)
  BY GivenGrows DEF Good, TypeOK, TablesInv
<1>6. \A d \in rows : \/ d = row
                      \/ d \in work.characters /\ d.id # row.id
  BY DEF Replaced
<1> HIDE DEF rows
<1>7. /\ \A d \in rows : d.id < next_id'.characters
      /\ \A d, e \in rows : d.id = e.id => d = e
      /\ \A d \in rows : d.id \in created => \E e \in work.characters : e.id = d.id
  BY <1>5, <1>6 DEF Good, Given, Apart
<1>8. \A d \in db.characters, e \in rows : d.id = e.id => d.slot = e.slot /\ d.name = e.name
  BY <1>6 DEF TablesInv, SameRows
<1> QED
  BY <1>2, <1>3, <1>4, <1>7, <1>8, FinishedJob, CharactersStep

\* update_character.
LEMMA UpdateCharacterStep ==
  ASSUME TablesInv, NEW c \in work.characters, NEW user_id \in Ids(work.users),
         NEW location_id \in Ids(work.locations), NEW level \in Levels,
         UpdateCharacter(c, user_id, location_id, level)
  PROVE  TablesInv'
<1> DEFINE row == [c EXCEPT !.user_id = user_id, !.location_id = location_id, !.level = level]
<1>1. Grows
  BY StayGrows DEF UpdateCharacter, TablesInv
<1>2. c \in Char /\ user_id \in Nat /\ location_id \in Nat
  BY DEF TablesInv, TypeOK, Typed, Ids, User, Location
<1>3. row \in Char /\ row.id = c.id /\ row.slot = c.slot /\ row.name = c.name
  BY <1>2 DEF Char
<1>4. job = Maintaining /\ Execute(Updated(work, "characters", row), Finished)
  BY DEF UpdateCharacter, Maintain
<1> HIDE DEF row
<1> QED
  BY <1>1, <1>3, <1>4, ReplaceCharacter

\* A character with a new id.
LEMMA AddCharacter ==
  ASSUME TablesInv, Take("characters"), job # ReplacedBans, NEW row \in Char, NEW then,
         row.id = next_id.characters, Execute(With(work, "characters", row), then),
         then \in Job, Filled(work, then, next_id')
  PROVE  TablesInv'
<1> DEFINE rows == work["characters"] \cup {row}
<1>1. Grows /\ next_id'.characters = next_id.characters + 1 /\ next_id.characters \in Nat
  BY TakeGrows DEF Tables, TablesInv, TypeOK
<1>2. Typed(work) /\ Typed(db) /\ "characters" \in Tables
  BY DEF TablesInv, TypeOK, Tables
<1>3. OneTable(work, With(work, "characters", row), "characters", rows)
  BY <1>2, WithTable
<1>4. rows \subseteq Char
  BY <1>2 DEF Typed
<1>5. /\ \A c \in work.characters : c \in Char /\ c.id < next_id.characters
      /\ \A c \in db.characters : c \in Char /\ c.id < next_id.characters
      /\ \A c, d \in work.characters : c.id = d.id => c = d
  BY <1>2 DEF TablesInv, Good, Given, Apart, Typed
<1>6. row.id \notin created
  BY <1>1 DEF TablesInv
<1>7. \A c \in rows : c.id < next_id'.characters
  BY <1>1, <1>5 DEF Char
<1>8. \A c, d \in rows : c.id = d.id => c = d
  BY <1>1, <1>5
<1>9. \A c \in rows : c.id \in created => \E d \in work.characters : d.id = c.id
  BY <1>6
<1>10. \A c \in db.characters, d \in rows : c.id = d.id => c.slot = d.slot /\ c.name = d.name
  BY <1>1, <1>5 DEF TablesInv, SameRows
<1> HIDE DEF rows
<1> QED
  BY <1>1, <1>3, <1>4, <1>7, <1>8, <1>9, <1>10, CharactersStep

\* characters_repository::insert in create_character_handler.
LEMMA InsertCharacterStep ==
  ASSUME TablesInv, NEW name \in Names, NEW level \in Levels, InsertCharacter(name, level)
  PROVE  TablesInv'
<1> DEFINE row == [id |-> next_id.characters, user_id |-> job.user_id, location_id |-> job.loc,
                   slot |-> job.slot, level |-> level, name |-> name]
           then == Filling(row.id, BaseStats)
<1>1. Take("characters") /\ job.kind = "located" /\ job \in Job
  BY DEF InsertCharacter, TablesInv, TypeOK
<1>2. Grows /\ next_id'.characters = next_id.characters + 1 /\ next_id.characters \in Nat
  BY <1>1, TakeGrows DEF Tables, TablesInv, TypeOK
<1>3. job.user_id \in Nat /\ job.slot \in Slots /\ job.loc \in Nat /\ job # ReplacedBans
  BY <1>1 DEF Job, NoJob, Registering, Deleting, Maintaining, ReplacedBans, Finished
<1>4. row \in Char /\ row.id = next_id.characters
  BY <1>2, <1>3 DEF Char
<1>5. then \in Job
  BY <1>2 DEF Job, Filling
<1>6. Filled(work, then, next_id')
  BY <1>2 DEF Filled, Filling, HasStats
<1>7. Leave \/ Execute(With(work, "characters", row), then)
  BY DEF InsertCharacter
<1> HIDE DEF row, then
<1> QED
  BY <1>1, <1>2, <1>3, <1>4, <1>5, <1>6, <1>7, AddCharacter, LeaveStep

\* insert_or_update_character.
LEMMA InsertOrUpdateStep ==
  ASSUME TablesInv, NEW user_id \in Ids(work.users), NEW slot \in Slots,
         NEW location_id \in Ids(work.locations), NEW level \in Levels, NEW name \in Names,
         InsertOrUpdate(user_id, slot, location_id, level, name)
  PROVE  TablesInv'
<1> DEFINE row == [id |-> next_id.characters, user_id |-> user_id,
                   location_id |-> location_id, slot |-> slot, level |-> level, name |-> name]
           same == {c \in work.characters : UserAndSlot(c) = UserAndSlot(row)}
           old == CHOOSE c \in same : TRUE
           new == OnConflict(old, row)
<1>1. Take("characters") /\ job = Maintaining
  BY DEF InsertOrUpdate, Maintain
<1>2. Grows /\ next_id.characters \in Nat
  BY <1>1, TakeGrows DEF Tables, TablesInv, TypeOK
<1>3. user_id \in Nat /\ location_id \in Nat /\ work.characters \subseteq Char
  BY DEF TablesInv, TypeOK, Typed, Ids, User, Location
<1>4. row \in Char /\ row.id = next_id.characters
  BY <1>2, <1>3 DEF Char
<1>5. CASE same = {}
  <2>1. Execute(With(work, "characters", row), Finished)
    BY <1>5 DEF InsertOrUpdate, Maintain
  <2>2. Filled(work, Finished, next_id')
    BY FinishedJob DEF Filled
  <2> HIDE DEF row
  <2> QED
    BY <1>1, <1>4, <2>1, <2>2, FinishedJob, AddCharacter
<1>6. CASE same # {}
  <2>1. Execute(Updated(work, "characters", new), Finished)
    BY <1>6 DEF InsertOrUpdate, Maintain
  <2>2. old \in work.characters
    BY <1>6
  <2> HIDE DEF old
  <2>3. new \in Char /\ new.id = old.id /\ new.slot = old.slot /\ new.name = old.name
    BY <1>3, <1>4, <2>2 DEF OnConflict, Char
  <2> HIDE DEF new
  <2> QED
    BY <1>1, <1>2, <2>1, <2>2, <2>3, ReplaceCharacter
<1> QED
  BY <1>5, <1>6

\* What is left of an invariant's parts when only the stats change.
LEMMA StatsStep ==
  ASSUME TablesInv, Grows, job # ReplacedBans, NEW t, NEW then, NEW rows,
         OneTable(work, t, "character_stats", rows), Execute(t, then), rows \subseteq Stat,
         then \in Job, Filled(t, then, next_id'),
         \A s \in rows : s.id < next_id'.character_stats,
         \A r, s \in rows : r.id = s.id => r = s,
         \A s \in work.character_stats : \E r \in rows :
           r.character_id = s.character_id /\ r.stat_name = s.stat_name,
         \A s \in db.character_stats, r \in rows :
           s.id = r.id => s.character_id = r.character_id /\ s.stat_name = r.stat_name
  PROVE  TablesInv'
<1>1. Typed(work)
  BY DEF TablesInv, TypeOK
<1>2. Typed(t)
  BY <1>1, OneTyped
<1>3. /\ t.characters = work.characters /\ t.character_stats = rows
      /\ t.users = work.users /\ t.locations = work.locations
      /\ t.banned_users = work.banned_users
  BY DEF OneTable, Tables
<1>4. Good(t, next_id', created)
  <2>1. Good(work, next_id', created)
    BY GivenGrows DEF Good, TypeOK, TablesInv
  <2>2. Given(t, next_id') /\ Apart(t)
    BY <1>3, <2>1 DEF Good, Given, Apart
  <2>3. AllHaveStats(t, created)
    BY <1>3, <2>1 DEF Good, AllHaveStats, HasStats
  <2> QED
    BY <2>2, <2>3 DEF Good
<1>5. SameRows(db, t)
  BY <1>3 DEF SameRows, TablesInv
<1>6. BansStay(t, then)
  BY <1>3 DEF BansStay, TablesInv
<1> QED
  BY <1>2, <1>4, <1>5, <1>6, ExecuteStep DEF Sound

\* stats_repository::insert in create_character_handler.
LEMMA InsertStatStep ==
  ASSUME TablesInv, NEW name \in BaseStats, NEW value \in Values, InsertStat(name, value)
  PROVE  TablesInv'
<1> DEFINE row == [id |-> next_id.character_stats, character_id |-> job.character_id,
                   stat_name |-> name, value |-> value]
           t == With(work, "character_stats", row)
           rows == work["character_stats"] \cup {row}
           then == Filling(job.character_id, job.left \ {name})
<1>1. Take("character_stats") /\ job.kind = "filling" /\ job \in Job
  BY DEF InsertStat, TablesInv, TypeOK
<1>2. /\ Grows /\ next_id'.character_stats = next_id.character_stats + 1
      /\ next_id.character_stats \in Nat
  BY <1>1, TakeGrows DEF Tables, TablesInv, TypeOK
<1>3. job.character_id \in Nat /\ job.left \subseteq BaseStats /\ job # ReplacedBans
  BY <1>1 DEF Job, NoJob, Registering, Deleting, Maintaining, ReplacedBans, Finished
<1>4. Typed(work) /\ Typed(db) /\ "character_stats" \in Tables
  BY DEF TablesInv, TypeOK, Tables
<1>5. OneTable(work, t, "character_stats", rows)
  BY <1>4, WithTable
<1>6. row \in Stat
  BY <1>2, <1>3 DEF Stat
<1>7. rows \subseteq Stat
  BY <1>4, <1>6 DEF Typed
<1>8. then \in Job
  BY <1>3 DEF Job, Filling
<1>9. Execute(t, then)
  BY DEF InsertStat
<1>10. Filled(t, then, next_id')
  <2>1. job.character_id < next_id'.characters
    <3>1. job.character_id < next_id.characters
      BY <1>1 DEF TablesInv, Filled
    <3> QED
      BY <1>2, <1>3, <3>1 DEF Grows, TablesInv, TypeOK, Tables
  <2>2. HasStats(work, job.character_id, BaseStats \ job.left)
    BY <1>1 DEF TablesInv, Filled
  <2>3. t.character_stats = rows
    BY <1>5 DEF OneTable
  <2>4. HasStats(t, job.character_id, BaseStats \ (job.left \ {name}))
    <3> SUFFICES ASSUME NEW n \in BaseStats \ (job.left \ {name})
                 PROVE  \E s \in t.character_stats :
                          s.character_id = job.character_id /\ s.stat_name = n
      BY DEF HasStats
    <3>1. CASE n = name
      <4>1. row.character_id = job.character_id /\ row.stat_name = n /\ row \in rows
        BY <3>1
      <4> HIDE DEF t, row
      <4> QED
        BY <2>3, <4>1
    <3>2. CASE n # name
      <4>1. \E s \in work.character_stats : s.character_id = job.character_id /\ s.stat_name = n
        BY <2>2, <3>2 DEF HasStats
      <4> HIDE DEF t, row
      <4> QED
        BY <2>3, <4>1
    <3> QED
      BY <3>1, <3>2
  <2> HIDE DEF t
  <2> QED
    BY <2>1, <2>4 DEF Filled, Filling
<1>11. /\ \A s \in work.character_stats : s \in Stat /\ s.id < next_id.character_stats
       /\ \A s \in db.character_stats : s \in Stat /\ s.id < next_id.character_stats
       /\ \A r, s \in work.character_stats : r.id = s.id => r = s
  BY <1>4 DEF TablesInv, Good, Given, Apart, Typed
<1>12. \A s \in rows : s.id < next_id'.character_stats
  BY <1>2, <1>11 DEF Stat
<1>13. \A r, s \in rows : r.id = s.id => r = s
  BY <1>2, <1>11
<1>14. \A s \in work.character_stats : \E r \in rows :
         r.character_id = s.character_id /\ r.stat_name = s.stat_name
  OBVIOUS
<1>15. \A s \in db.character_stats, r \in rows :
         s.id = r.id => s.character_id = r.character_id /\ s.stat_name = r.stat_name
  BY <1>2, <1>11 DEF TablesInv, SameRows
<1> HIDE DEF row, rows, t, then
<1> QED
  BY <1>2, <1>3, <1>5, <1>7, <1>8, <1>9, <1>10, <1>12, <1>13, <1>14, <1>15, StatsStep

\* stats_repository::update.
LEMMA UpdateStatStep ==
  ASSUME TablesInv, NEW stat \in work.character_stats, NEW value \in Values,
         UpdateStat(stat, value)
  PROVE  TablesInv'
<1> DEFINE row == [stat EXCEPT !.value = value]
           rows == Replaced(work["character_stats"], row)
<1>1. Grows
  BY StayGrows DEF UpdateStat, TablesInv
<1>2. Typed(work) /\ "character_stats" \in Tables
  BY DEF TablesInv, TypeOK, Tables
<1>3. OneTable(work, Updated(work, "character_stats", row), "character_stats", rows)
  BY <1>2, UpdatedTable
<1>4. /\ row \in Stat /\ row.id = stat.id
      /\ row.character_id = stat.character_id /\ row.stat_name = stat.stat_name
  BY <1>2 DEF Typed, Stat
<1>5. rows \subseteq Stat
  BY <1>2, <1>4 DEF Typed, Replaced
<1>6. job = Maintaining /\ Execute(Updated(work, "character_stats", row), Finished)
  BY DEF UpdateStat, Maintain
<1>7. Filled(Updated(work, "character_stats", row), Finished, next_id')
  BY FinishedJob DEF Filled
<1>8. Good(work, next_id', created)
  BY <1>1, GivenGrows DEF Good, TypeOK, TablesInv
<1> HIDE DEF row
<1>9. \A r \in rows : r = row \/ (r \in work.character_stats /\ r.id # row.id)
  BY DEF Replaced
<1>10. \A s \in work.character_stats : \E r \in rows :
         r.character_id = s.character_id /\ r.stat_name = s.stat_name
  <2> SUFFICES ASSUME NEW s \in work.character_stats
               PROVE  \E r \in rows : r.character_id = s.character_id /\ r.stat_name = s.stat_name
    OBVIOUS
  <2>1. CASE s.id = row.id
    <3>1. s = stat /\ row \in rows
      BY <1>4, <1>8, <2>1 DEF Good, Apart, Replaced
    <3> QED
      BY <1>4, <3>1
  <2>2. CASE s.id # row.id
    BY <2>2 DEF Replaced
  <2> QED
    BY <2>1, <2>2
<1> HIDE DEF rows
<1>11. /\ \A s \in rows : s.id < next_id'.character_stats
       /\ \A r, s \in rows : r.id = s.id => r = s
  BY <1>4, <1>8, <1>9 DEF Good, Given, Apart
<1>12. \A s \in db.character_stats, r \in rows :
         s.id = r.id => s.character_id = r.character_id /\ s.stat_name = r.stat_name
  BY <1>4, <1>9 DEF TablesInv, SameRows
<1> QED
  BY <1>1, <1>3, <1>5, <1>6, <1>7, <1>10, <1>11, <1>12, FinishedJob, StatsStep

-----------------------------------------------------------------------------
\* A transaction begins on the committed tables.
LEMMA BeginStep ==
  ASSUME TablesInv, NEW first \in Job, first.kind # "filling", Begin(first)
  PROVE  TablesInv'
<1> USE DEF TablesInv, Begin
<1>1. SameRows(db, db)
  BY DEF SameRows, Good, Apart
<1>2. TypeOK'
  BY DEF TypeOK, Typed
<1>3. Constraints(db)' /\ Constraints(work)'
  BY DEF Constraints
<1>4. Good(db, next_id, created)' /\ Good(work, next_id, created)'
  BY DEF Good, Given, Apart, AllHaveStats, HasStats
<1>5. SameRows(db, work)'
  BY <1>1 DEF SameRows
<1>6. Filled(work, job, next_id)' /\ BansStay(work, job)'
  BY DEF Filled, BansStay
<1> QED
  BY <1>2, <1>3, <1>4, <1>5, <1>6

\* A commit makes what the transaction sees the committed tables; a character whose
\* stats are all there counts as created from then on.
LEMMA CommitStep == TablesInv /\ Commit => TablesInv'
<1> SUFFICES ASSUME TablesInv, Commit PROVE TablesInv'
  OBVIOUS
<1> USE DEF TablesInv, Commit
<1>1. job'.kind = "none" /\ job' \in Job
  BY DEF NoJob, Job
<1>2. CASE job.kind # "filling"
  <2>1. TypeOK'
    BY <1>1, <1>2 DEF TypeOK, Typed
  <2>2. SameRows(work, work)
    BY DEF SameRows, Good, Apart
  <2> QED
    BY <1>1, <1>2, <2>1, <2>2 DEF Constraints, Good, Given, Apart, AllHaveStats, HasStats, SameRows,
                             Filled, BansStay
<1>3. CASE job.kind = "filling"
  <2>1. job.character_id \in Nat
    BY <1>3 DEF TypeOK, Job, NoJob, Registering, Deleting, Maintaining, ReplacedBans, Finished
  <2>2. job.left = {}
    BY <1>3 DEF MayCommit
  <2>3. created' = created \cup {job.character_id}
    BY <1>3
  <2>4. TypeOK'
    BY <1>1, <2>1, <2>3 DEF TypeOK, Typed
  <2>5. \A i \in created' : i < next_id'.characters
    BY <1>3, <2>3 DEF Filled
  <2>6. AllHaveStats(work, created')
    <3>1. HasStats(work, job.character_id, BaseStats)
      BY <1>3, <2>2 DEF Filled, HasStats
    <3> QED
      BY <2>3, <3>1 DEF Good, AllHaveStats
  <2>7. Good(work, next_id', created')
    BY <2>6 DEF Good, Given
  <2>8. SameRows(work, work)
    BY DEF SameRows, Good, Apart
  <2> QED
    BY <1>1, <2>4, <2>5, <2>7, <2>8 DEF Constraints, Good, Given, Apart, AllHaveStats, HasStats, SameRows,
                             Filled, BansStay
<1> QED
  BY <1>2, <1>3

\* The clock is nobody's concern.
LEMMA TickStep == TablesInv /\ (Tick \/ UNCHANGED vars) => TablesInv'
<1> SUFFICES ASSUME TablesInv, Tick \/ UNCHANGED vars PROVE TablesInv'
  OBVIOUS
<1> USE DEF TablesInv
<1>1. UNCHANGED <<db, work, next_id, job, created>> /\ (now' = now \/ now' = now + 1)
  BY DEF Tick, vars
<1>2. TypeOK'
  BY <1>1 DEF TypeOK, Typed
<1>3. Constraints(db)' /\ Constraints(work)'
  BY <1>1 DEF Constraints
<1>4. Good(db, next_id, created)' /\ Good(work, next_id, created)'
  BY <1>1 DEF Good, Given, Apart, AllHaveStats, HasStats
<1>5. SameRows(db, work)'
  BY <1>1 DEF SameRows
<1>6. Filled(work, job, next_id)' /\ BansStay(work, job)'
  BY <1>1 DEF Filled, BansStay, HasStats
<1> QED
  BY <1>1, <1>2, <1>3, <1>4, <1>5, <1>6

\* What a transaction may begin with.
LEMMA FirstJobs ==
  ASSUME NEW user_id \in Nat, NEW slot \in Slots
  PROVE  Creating(user_id, slot) \in Job /\ Creating(user_id, slot).kind # "filling"
BY DEF Creating, Job

\* Every step keeps the invariant.
LEMMA InvStep == TablesInv /\ [Next]_vars => TablesInv'
<1> SUFFICES ASSUME TablesInv, [Next]_vars PROVE TablesInv'
  OBVIOUS
<1>1. CASE Creation
  <2>1. ASSUME NEW u \in db.users, NEW slot \in Slots, Begin(Creating(u.id, slot))
        PROVE  TablesInv'
    <3>1. u.id \in Nat
      BY DEF TablesInv, TypeOK, Typed, User
    <3> QED
      BY <2>1, <3>1, FirstJobs, BeginStep
  <2>2. CASE RefuseCreation
    BY <2>2, StayGrows, LeaveStep DEF RefuseCreation, TablesInv
  <2> QED
    BY <1>1, <2>1, <2>2, InsertLocationStep, InsertCharacterStep, InsertStatStep DEF Creation
<1>2. CASE Maintenance
  <2>1. Maintaining \in Job /\ Maintaining.kind # "filling"
    BY DEF Job, Maintaining
  <2> QED
    BY <1>2, <2>1, BeginStep, UpdateUserStep, UpdateLocationStep, UpdateStatStep, UpdateCharacterStep,
       InsertOrUpdateStep, InsertBanStep, UpdateBansStep DEF Maintenance
<1>3. CASE Begin(Registering) \/ Begin(Deleting)
  <2>1. /\ Registering \in Job /\ Registering.kind # "filling"
        /\ Deleting \in Job /\ Deleting.kind # "filling"
    BY DEF Job, Registering, Deleting
  <2> QED
    BY <1>3, <2>1, BeginStep
<1>4. CASE Rollback
  BY <1>4, StayGrows, LeaveStep DEF Rollback, TablesInv
<1> QED
  BY <1>1, <1>2, <1>3, <1>4, InsertUserStep, DeleteBySlotStep, CommitStep, TickStep DEF Next

\* The invariant holds for good.
LEMMA TablesInvariant == Spec => []TablesInv
<1> QED
  BY InvInit, InvStep, PTL DEF Spec

-----------------------------------------------------------------------------
\* The tables, the transaction and the sequences are well-typed.
THEOREM TypeCorrect == Spec => []TypeOK
<1>1. TablesInv => TypeOK
  BY DEF TablesInv
<1> QED
  BY <1>1, TablesInvariant, PTL

(***************************************************************************)
(* A committed character of create_character_handler is whole, whatever    *)
(* failed on the way and whatever is done to its rows later.               *)
(***************************************************************************)
THEOREM NothingIsHalf == Spec => []NothingHalf
<1>1. TablesInv => NothingHalf
  <2> SUFFICES ASSUME TablesInv, NEW c \in db.characters, c.id \in created
               PROVE  Whole(db, c)
    BY DEF NothingHalf
  <2>1. \E l \in db.locations : l.id = c.location_id
    BY DEF TablesInv, Constraints, Ids
  <2>2. get_location(db, c.location_id) \subseteq db.locations
    BY <2>1 DEF get_location, First
  <2>3. HasStats(db, c.id, BaseStats)
    BY DEF TablesInv, Good, AllHaveStats
  <2> QED
    BY <2>2, <2>3 DEF Whole, HasStats, get_by_character_id
<1> QED
  BY <1>1, TablesInvariant, PTL

\* The committed tables change with a commit only.
LEMMA OnlyCommit == [Next]_vars => db' = db \/ (Commit /\ db' = work)
<1> SUFFICES ASSUME [Next]_vars PROVE db' = db \/ (Commit /\ db' = work)
  OBVIOUS
<1>1. ASSUME NEW t, NEW then, Execute(t, then) PROVE db' = db
  BY <1>1 DEF Execute, Leave
<1>2. CASE Creation
  BY <1>1, <1>2 DEF Creation, Begin, RefuseCreation, InsertLocation, InsertCharacter, InsertStat, Leave
<1>3. CASE Maintenance
  <2>1. ASSUME NEW t, Maintain(t) PROVE db' = db
    BY <1>1, <2>1 DEF Maintain
  <2>2. ASSUME NEW ip, NEW u, NEW until, UpdateBans(ip, u, until) PROVE db' = db
    BY <1>1, <2>2 DEF UpdateBans
  <2>3. ASSUME NEW u, NEW slot, NEW l, NEW level, NEW name, InsertOrUpdate(u, slot, l, level, name)
        PROVE  db' = db
    BY <2>1, <2>3 DEF InsertOrUpdate
  <2> QED
    BY <1>3, <2>1, <2>2, <2>3
       DEF Maintenance, Begin, UpdateUser, UpdateLocation, UpdateStat, UpdateCharacter, InsertBan
<1>4. ASSUME NEW username, InsertUser(username) PROVE db' = db
  BY <1>1, <1>4 DEF InsertUser, Leave
<1>5. ASSUME NEW slot, NEW id, DeleteBySlot(slot, id) PROVE db' = db
  BY <1>1, <1>5 DEF DeleteBySlot
<1>6. CASE Commit
  BY <1>6 DEF Commit
<1> QED
  BY <1>2, <1>3, <1>4, <1>5, <1>6 DEF Next, vars, Begin, Rollback, Leave, Tick

(***************************************************************************)
(* No commit gives a character another slot or name, or a stat another     *)
(* character.                                                              *)
(***************************************************************************)
THEOREM IdentitiesKept == Spec => IdentityKept
<1>1. TablesInv /\ [Next]_vars => SameRows(db, db')
  <2> SUFFICES ASSUME TablesInv, [Next]_vars PROVE SameRows(db, db')
    OBVIOUS
  <2>1. SameRows(db, db) /\ SameRows(db, work)
    BY DEF TablesInv, SameRows, Good, Apart
  <2>2. db' = db \/ db' = work
    BY OnlyCommit
  <2> QED
    BY <2>1, <2>2
<1>2. TablesInv /\ [Next]_vars =>
        [/\ \A c \in db.characters, d \in db'.characters :
              c.id = d.id => c.slot = d.slot /\ c.name = d.name
         /\ \A s \in db.character_stats, r \in db'.character_stats :
              s.id = r.id => s.character_id = r.character_id /\ s.stat_name = r.stat_name]_vars
  BY <1>1 DEF SameRows
<1> QED
  BY <1>2, TablesInvariant, PTL DEF Spec, IdentityKept

\* result[0] of a result with one row.
LEMMA FirstOne == ASSUME NEW row PROVE First({row}) = {row}
BY DEF First

\* The join of characters with locations pairs each with the location it names.
LEMMA JoinedRows ==
  ASSUME NEW t, NEW rows, \A c \in rows : \E l \in t.locations : l.id = c.location_id
  PROVE  /\ \A c \in rows : \E r \in Joined(t, rows) : r.character = c
         /\ \A r \in Joined(t, rows) : /\ r = [character |-> r.character, loc |-> r.loc]
                                     /\ r.character \in rows
                                     /\ r.loc.id = r.character.location_id
<1>1. ASSUME NEW c \in rows PROVE \E r \in Joined(t, rows) : r.character = c
  <2>1. PICK l \in t.locations : l.id = c.location_id
    OBVIOUS
  <2>2. [character |-> c, loc |-> l] \in Joined(t, rows)
    <3>1. <<c, l>> \in {q \in rows \X t.locations : q[2].id = q[1].location_id}
      BY <2>1
    <3> QED
      BY <3>1 DEF Joined
  <2> QED
    BY <2>2
<1>2. ASSUME NEW r \in Joined(t, rows)
      PROVE  /\ r = [character |-> r.character, loc |-> r.loc]
             /\ r.character \in rows
             /\ r.loc.id = r.character.location_id
  <2>1. PICK p \in rows \X t.locations :
          p[2].id = p[1].location_id /\ r = [character |-> p[1], loc |-> p[2]]
    BY DEF Joined
  <2> QED
    BY <2>1
<1> QED
  BY <1>1, <1>2

\* A character that names one location is joined with it.
LEMMA JoinedOne ==
  ASSUME NEW t, NEW c, NEW l \in t.locations, l.id = c.location_id,
         \A k \in t.locations : k.id = l.id => k = l
  PROVE  Joined(t, {c}) = {[character |-> c, loc |-> l]}
<1> DEFINE pairs == {q \in {c} \X t.locations : q[2].id = q[1].location_id}
<1>1. pairs = {<<c, l>>}
  OBVIOUS
<1>2. Joined(t, {c}) = {[character |-> p[1], loc |-> p[2]] : p \in pairs}
  BY DEF Joined
<1> HIDE DEF pairs
<1>3. {[character |-> p[1], loc |-> p[2]] : p \in {<<c, l>>}} = {[character |-> c, loc |-> l]}
  OBVIOUS
<1> QED
  BY <1>1, <1>2, <1>3

(***************************************************************************)
(* The ways to read a row agree: by its id, by the user and the slot or    *)
(* the name of a character, and in the list of a user.                     *)
(***************************************************************************)
THEOREM ReadsAgreeAlways == Spec => []ReadsAgree
<1>1. TablesInv => ReadsAgree
  <2> SUFFICES ASSUME TablesInv PROVE ReadsAgree
    OBVIOUS
  <2>1. Apart(db) /\ Constraints(db)
    BY DEF TablesInv, Good
  <2>2. ASSUME NEW u \in db.users
        PROVE  get_user(db, u.id) = {u} /\ get_user_by_name(db, u.username) = {u}
    <3>1. {v \in db.users : v.id = u.id} = {u} /\ {v \in db.users : v.username = u.username} = {u}
      BY <2>1 DEF Apart, Constraints, Unique, Username
    <3> QED
      BY <3>1, FirstOne DEF get_user, get_user_by_name
  <2>3. ASSUME NEW s \in db.character_stats
        PROVE  get_stat(db, s.id) = {s}
    <3>1. {r \in db.character_stats : r.id = s.id} = {s}
      BY <2>1 DEF Apart
    <3> QED
      BY <3>1, FirstOne DEF get_stat
  <2>4. ASSUME NEW b \in db.banned_users
        PROVE  get_ban(db, b.id) = {b}
    <3>1. {r \in db.banned_users : r.id = b.id} = {b}
      BY <2>1 DEF Apart
    <3> QED
      BY <3>1, FirstOne DEF get_ban
  <2>5. ASSUME NEW l \in db.locations
        PROVE  get_location(db, l.id) = {l}
    <3>1. {r \in db.locations : r.id = l.id} = {l}
      BY <2>1 DEF Apart
    <3> QED
      BY <3>1, FirstOne DEF get_location
  <2>6. ASSUME NEW l \in db.locations
        PROVE  \E r \in get_by_map_name(db, l.map_name) : r.location = l
    <3> DEFINE rows == {k \in db.locations : k.map_name = l.map_name}
    <3>1. l \in First(rows)
      BY DEF First
    <3>2. [location |-> l, times |-> Cardinality(rows)] \in get_by_map_name(db, l.map_name)
      BY <3>1 DEF get_by_map_name
    <3> QED
      BY <3>2
  <2>7. ASSUME NEW c \in db.characters
        PROVE  /\ get_character_by_slot(db, c.slot, c.user_id, "location") =
                    {[character |-> c, loc |-> l] : l \in get_location(db, c.location_id)}
               /\ get_character(db, c.id, c.user_id) =
                    get_character_by_slot(db, c.slot, c.user_id, "none")
    <3>1. /\ {d \in db.characters : d.slot = c.slot /\ d.user_id = c.user_id} = {c}
          /\ {d \in db.characters : d.id = c.id /\ d.user_id = c.user_id} = {c}
      BY <2>1 DEF Apart, Constraints, Unique, UserAndSlot
    <3>2. PICK l \in db.locations : l.id = c.location_id
      BY <2>1 DEF Constraints, Ids
    <3>3. Selected(db, {c}, "location") = {[character |-> c, loc |-> l]}
      BY <2>1, <3>2, JoinedOne DEF Apart, Selected
    <3>4. get_location(db, c.location_id) = {l}
      BY <2>5, <3>2
    <3>5. get_character_by_slot(db, c.slot, c.user_id, "location") = {[character |-> c, loc |-> l]}
      BY <3>1, <3>3, FirstOne DEF get_character_by_slot
    <3>6. get_character(db, c.id, c.user_id) = get_character_by_slot(db, c.slot, c.user_id, "none")
      BY <3>1 DEF get_character_by_slot, get_character
    <3> QED
      BY <3>4, <3>5, <3>6
  <2>8. ASSUME NEW c \in db.characters
        PROVE  [character |-> c, loc |-> nullopt] \in
                 get_character_by_name(db, c.name, c.user_id, "none")
    BY DEF get_character_by_name, Selected, First
  <2>9. ASSUME NEW c \in db.characters,
               NEW list \in get_by_user_id(db, c.user_id, "location")
        PROVE  /\ {r.character : r \in list} = {d \in db.characters : d.user_id = c.user_id}
               /\ \E r \in list : OwnPlace(r)
    <3> DEFINE mine == {d \in db.characters : d.user_id = c.user_id}
               rows == Selected(db, mine, "location")
    <3>1. \A d \in mine : \E l \in db.locations : l.id = d.location_id
      BY <2>1 DEF Constraints, Ids
    <3>2. /\ \A d \in mine : \E r \in rows : r.character = d
          /\ \A r \in rows : /\ r = [character |-> r.character, loc |-> r.loc]
                            /\ r.character \in mine /\ r.loc.id = r.character.location_id
      <4>1. rows = Joined(db, mine)
        BY DEF Selected
      <4> HIDE DEF mine, rows
      <4> QED
        BY <3>1, <4>1, JoinedRows
    <3>3. c \in mine
      OBVIOUS
    <3>4. PICK first \in rows : list = {[r EXCEPT !.loc = first.loc] : r \in rows}
      <4>1. rows # {}
        BY <3>2, <3>3
      <4>2. get_by_user_id(db, c.user_id, "location") =
              {{[r EXCEPT !.loc = first.loc] : r \in rows} : first \in rows}
        BY <4>1 DEF get_by_user_id
      <4> HIDE DEF rows
      <4> QED
        BY <4>2
    <3> HIDE DEF rows
    <3> DEFINE Moved(r) == [r EXCEPT !.loc = first.loc]
    <3>5. \A r \in rows : Moved(r) = [character |-> r.character, loc |-> first.loc]
      BY <3>2
    <3>6. /\ \A r \in rows : Moved(r) \in list
          /\ \A e \in list : \E r \in rows : e = Moved(r)
      BY <3>4
    <3> HIDE DEF Moved
    <3>7. {r.character : r \in list} = mine
      <4>1. \A e \in list : e.character \in mine
        BY <3>2, <3>5, <3>6
      <4>2. \A d \in mine : \E e \in list : e.character = d
        BY <3>2, <3>5, <3>6
      <4> QED
        BY <4>1, <4>2
    <3>8. first \in list /\ OwnPlace(first)
      BY <3>2, <3>5, <3>6 DEF OwnPlace
    <3> QED
      BY <3>7, <3>8
  <2> QED
    BY <2>2, <2>3, <2>4, <2>5, <2>6, <2>7, <2>8, <2>9 DEF ReadsAgree
<1> QED
  BY <1>1, TablesInvariant, PTL

(***************************************************************************)
(* Who is refused is refused the next time too, until the ban ends or      *)
(* banned_users_repository::update has run.                                *)
(***************************************************************************)
THEOREM BansAreKept == Spec => BansHold
<1>1. ASSUME TablesInv, TablesInv', [Next]_vars, job # ReplacedBans,
             NEW u \in db.users, NEW v \in db'.users, NEW ip \in Ips \cup {nullopt}, u.id = v.id,
             Refused(db, u.username, nullopt, now') \/ Refused(db, nullopt, ip, now')
      PROVE  Refused(db', v.username, ip, now')
  <2>1. db.banned_users \subseteq db'.banned_users
    BY <1>1, OnlyCommit DEF TablesInv, BansStay
  <2>2. v.username # nullopt
    BY <1>1, TablesAssumption DEF TablesInv, TypeOK, Typed, User
  <2>3. ASSUME NEW b \in db.banned_users, b.until # nullopt, b.until >= now',
               (\E w \in db.users : w.id = b.user_id /\ w.username = u.username)
                 \/ (ip # nullopt /\ b.ip = ip)
        PROVE  b \in is_username_or_ip_banned(db', v.username, ip, now')
    <3>1. ASSUME NEW w \in db.users, w.id = b.user_id, w.username = u.username
          PROVE  v.id = b.user_id
      BY <1>1, <3>1 DEF TablesInv, Constraints, Unique, Username
    <3> QED
      BY <2>1, <2>2, <2>3, <3>1 DEF is_username_or_ip_banned
  <2> QED
    BY <1>1, <2>3 DEF Refused, is_username_or_ip_banned
<1>2. TablesInv /\ TablesInv' /\ [Next]_vars =>
        [\A u \in db.users, v \in db'.users, ip \in Ips \cup {nullopt} :
           /\ u.id = v.id
           /\ job # ReplacedBans
           /\ Refused(db, u.username, nullopt, now') \/ Refused(db, nullopt, ip, now')
           => Refused(db', v.username, ip, now')]_vars
  BY <1>1
<1> QED
  BY <1>2, TablesInvariant, PTL DEF Spec, BansHold
=============================================================================
