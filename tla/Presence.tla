------------------------------- MODULE Presence -------------------------------
(***************************************************************************)
(* What the clients are told of each other: the broadcasts of the handlers *)
(* of UwsThread and of the moderator's handler, and the lists a login      *)
(* answers with.  Every action is the one of UwsThread together with what  *)
(* it sends; the client's side is the sum of what it was sent.  Chat is in *)
(* Wire.                                                                   *)
(*                                                                         *)
(* A send to a connection that closes fails, and the handler goes on.  The *)
(* server closes whom it refuses, a client closes when it likes, and the   *)
(* connection stays in the map until on_close runs.                        *)
(* Auth:leave is never sent: on_close looks for another connection of the  *)
(* user while its own is still in the map, and always finds that one       *)
(* (uws_thread.cpp:216).                                                   *)
(***************************************************************************)
EXTENDS UwsThread

CONSTANTS
  GameMasters,     \* accounts with is_game_master set
  Motds, NoMotd,   \* the messages of the day; "" is NoMotd
  Nothing          \* a client's view of what it was never told

ASSUME PresenceAssumption ==
  /\ GameMasters \subseteq Registered0
  /\ NoMotd \in Motds

VARIABLES
  motd,   \* message of the day
  told    \* connection -> what its client was sent

presenceVars == <<uwsVars, motd, told>>

View == [online: SUBSET Users,       \* Auth:join, and online_users of the login
         motd: Motds \cup {Nothing},
         entered: SUBSET Users,      \* Auth:enter_game
        welcomed: BOOLEAN]          \* it got the answer to its login

NewView == [online |-> {}, motd |-> Nothing, entered |-> {}, welcomed |-> FALSE]

PresenceInit == UwsInit /\ motd = NoMotd /\ told = [c \in ConnectionIds |-> NewView]

PresenceTypeOK == /\ UwsTypeOK
                  /\ motd \in Motds
                  /\ told \in [ConnectionIds -> View]

-----------------------------------------------------------------------------
Open == {c \in Connected : user_connections[c].ws = "open"}

LoggedIn == {c \in Connected : user_connections[c].user_id # NoUser}

\* The open connections whose login was answered.
Informed == {c \in Open : told[c].welcomed}

\* The user logged in on each of the connections cs.
UsersOn(cs) == {user_connections[c].user_id : c \in cs} \ {NoUser}

\* Every open connection is sent what changes its view as change says.
Broadcast(change(_)) ==
  told' = [c \in ConnectionIds |-> IF c \in Open THEN change(told[c]) ELSE told[c]]

\* Mutant of Announce: only clients that have logged in are told, and the lists
\* of those who log in later are made of who is playing.
AnnounceToPlayers(c, u) ==
  told' = [d \in ConnectionIds |->
             IF d = c THEN [told[c] EXCEPT !.online = {user_connections[e].user_id :
                                                        e \in {e \in Open : IsPlaying(e)}} \ {u},
                                           !.motd = motd, !.welcomed = TRUE]
             ELSE IF d \in LoggedIn THEN [told[d] EXCEPT !.online = @ \cup {u}]
             ELSE told[d]]

\* The end of login_handler and register_handler on c, now that it is the user
\* u's: Auth:join to the open connections of the others, and the answer to c.
Announce(c, u) ==
  LET others == {d \in Open : user_connections[d].user_id # u} \ {c}
  IN  told' = [d \in ConnectionIds |->
                 IF d = c THEN [told[c] EXCEPT !.online = UsersOn(others), !.motd = motd,
                                               !.welcomed = TRUE]
                 ELSE IF d \in others THEN [told[d] EXCEPT !.online = @ \cup {u}]
                 ELSE told[d]]

\* login_handler: the session is the user's before the characters and their stats
\* are read.  When one of those queries raises, on_message logs it, and the client
\* is logged in without an answer and without an announcement.
TellLogin(c, u) == Login(c, u) /\ (Announce(c, u) \/ UNCHANGED told) /\ UNCHANGED motd

\* register_handler: nothing is read any more once the account is committed, since
\* get_by_user_id makes no query for included_tables::all.  (The id it is given is
\* one of an empty optional, and is not looked at.)
TellRegister(c, u) == Register(c, u) /\ Announce(c, u) /\ UNCHANGED motd

\* The client closes c: nothing more is dispatched from it or sent to it.
ClientCloses(c) ==
  /\ Dispatched(c)
  /\ user_connections' = [user_connections EXCEPT ![c].ws = "closing"]
  /\ UNCHANGED <<connection_id_counter, erasing, game_loop_queue, dbVars, asked>>

\* play_character_handler: Auth:enter_game goes to everybody before allegiance and
\* class are looked up; it does not go out if the query for the stats raises.
TellEntered(c) ==
  Broadcast(LAMBDA view : [view EXCEPT !.entered = @ \cup {user_connections[c].user_id}])

TellPlay(c, s) ==
  /\ \/ PlayCharacter(c, s)      /\ TellEntered(c)
     \/ PlayCharacterFails(c, s) /\ (TellEntered(c) \/ UNCHANGED told)
  /\ UNCHANGED motd

\* Mutant of SetMotd: the game masters are told, nobody else.
SetMotdQuietly(c, m) ==
  /\ Dispatched(c)
  /\ user_connections[c].user_id \in GameMasters
  /\ IsPlaying(c)
  /\ motd' = m
  /\ told' = [d \in ConnectionIds |->
                IF d \in Open /\ user_connections[d].user_id \in GameMasters
                  THEN [told[d] EXCEPT !.motd = m] ELSE told[d]]
  /\ UNCHANGED uwsVars

\* set_motd_handler: is_game_master is set by a login, never by a registration.
SetMotd(c, m) ==
  /\ Dispatched(c)
  /\ user_connections[c].user_id \in GameMasters
  /\ IsPlaying(c)
  /\ motd' = m
  /\ Broadcast(LAMBDA view : [view EXCEPT !.motd = m])
  /\ UNCHANGED uwsVars

TellNobody == UNCHANGED <<motd, told>>

\* on_close is done with a connection: what its client was told matters no more.
Forget ==
  /\ OnCloseErase
  /\ told' = [told EXCEPT ![erasing] = NewView]
  /\ UNCHANGED motd

PresenceNext ==
  \/ OnOpen /\ TellNobody
  \/ Forget
  \/ \E c \in Connected :
       \/ (ClientCloses(c) \/ OnClose(c)) /\ TellNobody
       \/ \E u \in Users : \/ RefuseBanned(c, u) /\ TellNobody
                           \/ TellLogin(c, u)
                           \/ TellRegister(c, u)
       \/ \E s \in Slots : \/ TellPlay(c, s)
                           \/ DeleteCharacter(c, s) /\ TellNobody
                           \/ \E name \in Names, served \in BOOLEAN :
                                CreateCharacter(c, s, name, served) /\ TellNobody
       \/ \E t \in MoveTargets : Move(c, t) /\ TellNobody
       \/ \E m \in Motds : SetMotd(c, m)

PresenceSpec == PresenceInit /\ [][PresenceNext]_presenceVars

-----------------------------------------------------------------------------
\* Everyone whose login was answered knows of every other user of whom that is true:
\* the list of a login and the announcements of later ones leave nobody out, whatever
\* the order in which clients connect, log in, break off and go (login_handler.cpp:101-121,
\* register_handler.cpp:150-172).
OnlineKnown ==
  \A c, d \in Informed :
    user_connections[d].user_id \in told[c].online \cup {user_connections[c].user_id}

\* Everyone whose login was answered was last told the message of the day that is
\* set, be it by that answer or by the broadcast of a later change.
MotdAgreed == \A c \in Informed : told[c].motd = motd

\* The login of c broke off, and c enters the game all the same.
EntersUnannounced(c) ==
  c \in LoggedIn /\ ~told[c].welcomed /\ ~IsPlaying(c) /\ IsPlaying(c)'

\* Whoever a client is told to enter the game was announced to it before, or is its
\* own user: the two broadcasts come in that order.  Only who enters after a login
\* that broke off was never announced.
EntrantsKnown ==
  [][\A c \in Informed : \A u \in told'[c].entered \ told[c].entered :
       \/ u \in told[c].online \cup {user_connections[c].user_id}
       \/ \E d \in Connected : EntersUnannounced(d) /\ user_connections[d].user_id = u]_presenceVars
=============================================================================
