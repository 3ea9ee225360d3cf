---------------------------- MODULE ServiceProofs ----------------------------
(***************************************************************************)
(* The life of the program, and what its clients know of each other, for   *)
(* any number of connections and users.                                    *)
(***************************************************************************)
EXTENDS Service, UwsThreadProofs

(***************************************************************************)
(* Where the two threads can be.  The thread is joined before main returns *)
(* and no round begins on a server that is gone, because whatever ends the *)
(* thread has set quit before: the stop main asked for, or an exception.   *)
(***************************************************************************)
LifeInv ==
  /\ server \in {"none", "alive", "destroyed"}
  /\ main = "loading" => thread = "none"
  /\ main = "exited" => thread \in {"none", "done"}
  /\ main \notin {"loading", "exited"} => thread # "none"
  /\ server = "none" => thread = "none"
  /\ server = "destroyed" => quit
  /\ stopped => quit /\ main \in {"joining", "exited", "crashed"}
  /\ thread = "catching" => quit
  /\ thread = "ending" => stopped

\* Nothing has started at first.
LEMMA LifeInit == ServiceInit => LifeInv
BY DEF ServiceInit, LifeInv

\* Every step keeps the two threads where they can be.
LEMMA LifeStep == LifeInv /\ [ServiceNext]_serviceVars => LifeInv'
<1> SUFFICES ASSUME LifeInv, [ServiceNext]_serviceVars PROVE LifeInv'
  OBVIOUS
<1> USE DEF LifeInv
<1>1. CASE Interrupt
  BY <1>1 DEF Interrupt
<1>2. CASE LoadFails \/ Load \/ Started
  BY <1>2 DEF LoadFails, Load, Started
<1>3. CASE NextRound \/ BeginTick \/ EndTick \/ Send \/ Sent
  BY <1>3 DEF NextRound, BeginTick, EndTick, Send, Sent, UseHandle
<1>4. CASE Stop \/ Join
  BY <1>4 DEF Stop, Join, UseHandle
<1>5. CASE Listen \/ Run \/ RunReturns
  BY <1>5 DEF Listen, Run, RunReturns, ThreadAt, Ended
<1>6. CASE Throw \/ AfterTry
  BY <1>6 DEF Throw, AfterTry, ThreadAt, Ended
<1>7. CASE Callback \/ UNCHANGED serviceVars
  BY <1>7 DEF Callback, lifeVars, serviceVars
<1> QED
  BY <1>1, <1>2, <1>3, <1>4, <1>5, <1>6, <1>7 DEF ServiceNext, MainNext, ThreadStep

\* The invariant holds for good.
LEMMA LifeInvariant == ServiceSpec => []LifeInv
<1> QED
  BY LifeInit, LifeStep, PTL DEF ServiceSpec

(***************************************************************************)
(* main does not return before the websocket thread has.                   *)
(***************************************************************************)
THEOREM AlwaysJoined == ServiceSpec => []ThreadJoined
<1>1. LifeInv => ThreadJoined
  BY DEF LifeInv, ThreadJoined
<1> QED
  BY <1>1, LifeInvariant, PTL

(***************************************************************************)
(* No round of the loop begins once the server is gone.                    *)
(***************************************************************************)
THEOREM RoundsOnLiveServer == ServiceSpec => NoRoundOnDeadServer
<1>1. LifeInv /\ [ServiceNext]_serviceVars =>
        [main = "looping" /\ main' = "sleeping" => server = "alive"]_serviceVars
  <2> SUFFICES ASSUME LifeInv, ServiceNext, main = "looping", main' = "sleeping"
               PROVE  server = "alive"
    OBVIOUS
  <2>1. ~quit
    BY DEF ServiceNext, MainNext, ThreadStep, Interrupt, LoadFails, Load, Started, NextRound,
           BeginTick, EndTick, Send, Sent, Stop, UseHandle, Join, Listen, Run, RunReturns,
           Throw, AfterTry, Callback, lifeVars
  <2> QED
    BY <2>1 DEF LifeInv
<1> QED
  BY <1>1, LifeInvariant, PTL DEF ServiceSpec, NoRoundOnDeadServer
-----------------------------------------------------------------------------
\* An answered login is one of a connection in the map that has a user.
AnsweredLogins ==
  \A c \in ConnectionIds : told[c].welcomed =>
    c \in Connected /\ user_connections[c].user_id # NoUser

ClientsInv == PresenceTypeOK /\ AnsweredLogins /\ OnlineKnown /\ MotdAgreed

\* Nobody is connected at first.
LEMMA ClientsInit == PresenceInit => ClientsInv
<1> SUFFICES ASSUME PresenceInit PROVE ClientsInv
  OBVIOUS
<1>1. UwsTypeOK /\ Connected = {}
  BY UwsTypeInit DEF PresenceInit, UwsInit, SharedInit, Connected
<1>2. PresenceTypeOK
  BY <1>1, PresenceAssumption DEF PresenceInit, PresenceTypeOK, View, NewView
<1> QED
  BY <1>1, <1>2 DEF ClientsInv, AnsweredLogins, OnlineKnown, MotdAgreed, Informed, Open,
                    PresenceInit, NewView

\* A step of the websocket thread.
LEMMA UwsSteps ==
  ASSUME UwsTypeOK
  PROVE  /\ OnOpen \/ OnCloseErase => UwsTypeOK'
         /\ \A c \in Connected :
              /\ OnClose(c) => UwsTypeOK'
              /\ \A u \in Users : RefuseBanned(c, u) \/ Login(c, u) \/ Register(c, u) => UwsTypeOK'
              /\ \A s \in Slots : PlayCharacter(c, s) \/ PlayCharacterFails(c, s)
                                    \/ DeleteCharacter(c, s) => UwsTypeOK'
              /\ \A s \in Slots, name \in Names, served \in BOOLEAN :
                   CreateCharacter(c, s, name, served) => UwsTypeOK'
              /\ \A t \in MoveTargets : Move(c, t) => UwsTypeOK'
BY UwsTypeStep DEF UwsNext

(***************************************************************************)
(* A step that answers no login: whoever got an answer before and is still *)
(* there has the same user, and was told nothing of users or of the        *)
(* message of the day.                                                     *)
(***************************************************************************)
Quiet ==
  /\ UwsTypeOK'
  /\ told' \in [ConnectionIds -> View]
  /\ motd' = motd
  /\ \A c \in ConnectionIds : told'[c].welcomed =>
       /\ c \in Connected'
       /\ told[c].welcomed
       /\ told'[c].online = told[c].online
       /\ told'[c].motd = told[c].motd
       /\ user_connections'[c].user_id = user_connections[c].user_id
       /\ user_connections'[c].ws = "open" => user_connections[c].ws = "open"

\* The ids given so far are among the possible ones.
LEMMA IdGiven ==
  ASSUME NEW n \in 0 .. MaxConnections, NEW c \in 0 .. n - 1
  PROVE  c \in ConnectionIds
BY StateAssumption DEF ConnectionIds

\* Such a step keeps the invariant.
LEMMA QuietStep == ClientsInv /\ Quiet => ClientsInv'
<1> SUFFICES ASSUME ClientsInv, Quiet PROVE ClientsInv'
  OBVIOUS
<1> USE DEF ClientsInv, Quiet
<1>1. \A c \in Informed' : /\ c \in Informed
                           /\ user_connections'[c].user_id = user_connections[c].user_id
                           /\ told'[c].online = told[c].online
                           /\ told'[c].motd = told[c].motd
  <2> SUFFICES ASSUME NEW c \in Informed'
               PROVE  /\ c \in Informed
                      /\ user_connections'[c].user_id = user_connections[c].user_id
                      /\ told'[c].online = told[c].online
                      /\ told'[c].motd = told[c].motd
    OBVIOUS
  <2>1. c \in Connected' /\ told'[c].welcomed /\ user_connections'[c].ws = "open"
    BY DEF Informed, Open
  <2>2. c \in ConnectionIds
    BY <2>1, IdGiven DEF UwsTypeOK, SharedTypeOK
  <2>3. c \in Connected
    BY <2>1, <2>2 DEF AnsweredLogins
  <2> QED
    BY <2>1, <2>2, <2>3 DEF Informed, Open
<1>2. PresenceTypeOK'
  BY DEF PresenceTypeOK
<1>3. AnsweredLogins'
  BY DEF AnsweredLogins
<1>4. OnlineKnown'
  BY <1>1 DEF OnlineKnown
<1>5. MotdAgreed'
  BY <1>1 DEF MotdAgreed
<1> QED
  BY <1>2, <1>3, <1>4, <1>5

\* The sessions that have a user keep him, and none of them opens again.
SameUsers ==
  \A c \in Connected : user_connections[c].user_id # NoUser =>
    /\ c \in Connected'
    /\ user_connections'[c].user_id = user_connections[c].user_id
    /\ user_connections'[c].ws = "open" => user_connections[c].ws = "open"

\* A step that tells nobody anything and leaves the users where they are.
LEMMA UntoldStep ==
  ASSUME ClientsInv, UwsTypeOK', SameUsers, UNCHANGED <<motd, told>>
  PROVE  ClientsInv'
<1>1. Quiet
  BY DEF Quiet, SameUsers, ClientsInv, PresenceTypeOK, AnsweredLogins
<1> QED
  BY <1>1, QuietStep

\* One session's slot changes, or none does.
SlotOnly ==
  \/ UNCHANGED user_connections
  \/ \E c \in Connected, s \in Slots :
       user_connections' = [user_connections EXCEPT ![c].playing_character_slot = s]

\* Then everybody is logged in as before.
LEMMA SlotOnlyUsers ==
  ASSUME UwsTypeOK, SlotOnly
  PROVE  /\ Connected' = Connected
         /\ \A c \in Connected : /\ user_connections'[c].user_id = user_connections[c].user_id
                                 /\ user_connections'[c].ws = user_connections[c].ws
<1>1. CASE UNCHANGED user_connections
  BY <1>1 DEF Connected
<1>2. ASSUME NEW c \in Connected, NEW s \in Slots,
             user_connections' = [user_connections EXCEPT ![c].playing_character_slot = s]
      PROVE  /\ Connected' = Connected
             /\ \A d \in Connected :
                  /\ user_connections'[d].user_id = user_connections[d].user_id
                  /\ user_connections'[d].ws = user_connections[d].ws
  <2>1. user_connections = [d \in Connected |-> user_connections[d]] /\ user_connections[c] \in Session
    BY DEF UwsTypeOK, SharedTypeOK
  <2>2. user_connections' = [d \in Connected |->
           IF d = c THEN [user_connections[c] EXCEPT !.playing_character_slot = s]
                    ELSE user_connections[d]]
    BY <1>2, <2>1
  <2> QED
    BY <2>1, <2>2 DEF Session, Connected
<1> QED
  BY <1>1, <1>2 DEF SlotOnly

\* An answer to a login keeps the invariant: it lists whoever was answered before,
\* and its announcement reaches all of them.
LEMMA AnnounceStep ==
  ASSUME ClientsInv, NEW c \in Connected, NEW u \in Users, NotLoggedIn(c), Announce(c, u),
         UwsTypeOK', UNCHANGED motd,
         user_connections' = [user_connections EXCEPT ![c].user_id = u]
  PROVE  ClientsInv'
<1> USE DEF ClientsInv
<1> DEFINE others == {d \in Open : user_connections[d].user_id # u} \ {c}
<1>1. /\ Connected' = Connected
      /\ user_connections'[c].user_id = u /\ user_connections'[c].ws = "open"
      /\ \A d \in Connected \ {c} : user_connections'[d] = user_connections[d]
  BY DEF PresenceTypeOK, UwsTypeOK, SharedTypeOK, Session, Connected, NotLoggedIn, Dispatched
<1>2. u # NoUser /\ c \in ConnectionIds /\ others \subseteq Connected /\ Connected \subseteq ConnectionIds
  BY ConnectedIds, StateAssumption DEF PresenceTypeOK, UwsTypeOK, Open
<1>3. UsersOn(others) \subseteq Users
  BY <1>2 DEF UsersOn, PresenceTypeOK, UwsTypeOK, SharedTypeOK, Session
<1>4. \A d \in ConnectionIds :
        told'[d] = IF d = c THEN [told[c] EXCEPT !.online = UsersOn(others), !.motd = motd,
                                                 !.welcomed = TRUE]
                   ELSE IF d \in others THEN [told[d] EXCEPT !.online = @ \cup {u}]
                   ELSE told[d]
  BY DEF Announce
<1>5. Open' = Open /\ c \in Open
  BY <1>1 DEF Open, NotLoggedIn, Dispatched
<1>6. \A d \in Open \ {c} : user_connections[d].user_id # u => d \in others
  OBVIOUS
<1>7. \A d \in others : user_connections[d].user_id # NoUser => user_connections[d].user_id \in UsersOn(others)
  BY DEF UsersOn
<1> HIDE DEF others
<1>8. told' \in [ConnectionIds -> View]
  <2>1. \A d \in ConnectionIds : told'[d] \in View
    <3> SUFFICES ASSUME NEW d \in ConnectionIds PROVE told'[d] \in View
      OBVIOUS
    <3>1. told[d] \in View /\ told[c] \in View /\ motd \in Motds
      BY <1>2 DEF PresenceTypeOK
    <3>2. [told[c] EXCEPT !.online = UsersOn(others), !.motd = motd, !.welcomed = TRUE] \in View
      BY <1>3, <3>1 DEF View
    <3>3. [told[d] EXCEPT !.online = @ \cup {u}] \in View
      BY <3>1 DEF View
    <3> QED
      BY <1>4, <3>1, <3>2, <3>3
  <2>2. told' = [d \in ConnectionIds |-> told'[d]]
    BY DEF Announce
  <2> QED
    BY <2>1, <2>2
<1>9. PresenceTypeOK'
  BY <1>8 DEF PresenceTypeOK
<1>10. \A d \in ConnectionIds \ {c} : /\ told'[d].motd = told[d].motd
                                      /\ told'[d].welcomed = told[d].welcomed
                                      /\ told[d].online \subseteq told'[d].online
                                      /\ d \in others => u \in told'[d].online
  <2> SUFFICES ASSUME NEW d \in ConnectionIds \ {c}
               PROVE  /\ told'[d].motd = told[d].motd
                      /\ told'[d].welcomed = told[d].welcomed
                      /\ told[d].online \subseteq told'[d].online
                      /\ d \in others => u \in told'[d].online
    OBVIOUS
  <2>1. told[d] \in View
    BY DEF PresenceTypeOK
  <2>2. /\ [told[d] EXCEPT !.online = @ \cup {u}].motd = told[d].motd
        /\ [told[d] EXCEPT !.online = @ \cup {u}].welcomed = told[d].welcomed
        /\ [told[d] EXCEPT !.online = @ \cup {u}].online = told[d].online \cup {u}
    BY <2>1 DEF View
  <2> QED
    BY <1>4, <2>2
<1>11. /\ told'[c].online = UsersOn(others) /\ told'[c].motd = motd /\ told'[c].welcomed
  BY <1>2, <1>4 DEF PresenceTypeOK, View
<1>12. Informed' = Informed \cup {c}
  BY <1>2, <1>5, <1>10, <1>11 DEF Informed, Open
<1>13. \A d \in Informed : d \in Open /\ d \in Connected /\ user_connections[d].user_id # NoUser
  BY <1>2 DEF Informed, Open, AnsweredLogins
<1>14. AnsweredLogins'
  BY <1>1, <1>2, <1>10 DEF AnsweredLogins
<1>15. OnlineKnown'
  <2> SUFFICES ASSUME NEW d \in Informed \cup {c}, NEW e \in Informed \cup {c}
               PROVE  user_connections'[e].user_id
                        \in told'[d].online \cup {user_connections'[d].user_id}
    BY <1>12 DEF OnlineKnown
  <2>1. CASE d = c /\ e # c
    BY <1>1, <1>6, <1>7, <1>11, <1>13, <2>1
  <2>2. CASE d # c /\ e = c
    BY <1>1, <1>2, <1>6, <1>10, <1>13, <2>2
  <2>3. CASE d # c /\ e # c
    BY <1>1, <1>2, <1>10, <1>13, <2>3 DEF OnlineKnown
  <2> QED
    BY <2>1, <2>2, <2>3
<1>16. MotdAgreed'
  BY <1>2, <1>10, <1>11, <1>12, <1>13 DEF MotdAgreed
<1> QED
  BY <1>9, <1>14, <1>15, <1>16

\* Who plays and who fails to: told of entering, or not at all.
LEMMA PlayTells ==
  ASSUME ClientsInv, NEW c \in Connected, NEW s \in Slots, TellPlay(c, s)
  PROVE  /\ SlotOnly /\ UwsTypeOK'
         /\ c \in LoggedIn /\ c \in Open /\ ~IsPlaying(c) /\ IsPlaying(c)'
         /\ user_connections[c].user_id \in Users
         /\ told' \in [ConnectionIds -> View]
         /\ \A d \in ConnectionIds :
              /\ told'[d].online = told[d].online /\ told'[d].motd = told[d].motd
              /\ told'[d].welcomed = told[d].welcomed
              /\ told'[d].entered \subseteq told[d].entered \cup {user_connections[c].user_id}
<1> USE DEF ClientsInv
<1>1. NotPlaying(c) /\ TakeSlot(c, s) /\ UwsTypeOK'
  BY UwsSteps DEF TellPlay, PlayCharacter, PlayCharacterFails, MayPlay, PresenceTypeOK
<1>2. user_connections[c].user_id \in Users
  BY <1>1 DEF NotPlaying, PresenceTypeOK, UwsTypeOK, SharedTypeOK, Session
<1>3. c \in LoggedIn /\ c \in Open /\ ~IsPlaying(c)
  BY <1>1 DEF NotPlaying, Dispatched, LoggedIn, Open, IsPlaying
<1>4. IsPlaying(c)'
  <2>1. user_connections \in [Connected -> Session] /\ s # Nobody
    BY StateAssumption DEF PresenceTypeOK, UwsTypeOK, SharedTypeOK, Nobody
  <2>2. /\ Connected' = Connected
        /\ user_connections'[c].playing_character_slot = s
    BY <1>1, <2>1 DEF TakeSlot, Session, Connected
  <2> QED
    BY <2>1, <2>2 DEF IsPlaying, Nobody
<1>5. CASE UNCHANGED told
  BY <1>1, <1>2, <1>3, <1>4, <1>5 DEF SlotOnly, TakeSlot, PresenceTypeOK
<1>6. CASE TellEntered(c)
  <2>1. told' = [d \in ConnectionIds |->
                   IF d \in Open
                     THEN [told[d] EXCEPT !.entered = @ \cup {user_connections[c].user_id}]
                     ELSE told[d]]
    BY <1>6 DEF TellEntered, Broadcast
  <2>2. \A d \in ConnectionIds :
          /\ told'[d] \in View
          /\ told'[d].online = told[d].online /\ told'[d].motd = told[d].motd
          /\ told'[d].welcomed = told[d].welcomed
          /\ told'[d].entered \subseteq told[d].entered \cup {user_connections[c].user_id}
    BY <1>2, <2>1 DEF PresenceTypeOK, View
  <2> QED
    BY <1>1, <1>2, <1>3, <1>4, <2>1, <2>2 DEF SlotOnly, TakeSlot
<1> QED
  BY <1>5, <1>6 DEF TellPlay

\* set_motd_handler keeps the invariant: whoever was answered and is there is told.
LEMMA SetMotdStep ==
  ASSUME ClientsInv, NEW c \in Connected, NEW m \in Motds, SetMotd(c, m)
  PROVE  ClientsInv'
<1> USE DEF ClientsInv
<1>1. UNCHANGED uwsVars /\ motd' = m
  BY DEF SetMotd
<1>2. told' = [d \in ConnectionIds |-> IF d \in Open THEN [told[d] EXCEPT !.motd = m]
                                                     ELSE told[d]]
  BY DEF SetMotd, Broadcast
<1>3. \A d \in ConnectionIds : /\ told'[d] \in View
                               /\ told'[d].online = told[d].online
                               /\ told'[d].welcomed = told[d].welcomed
                               /\ d \in Open => told'[d].motd = m
  BY <1>2 DEF PresenceTypeOK, View
<1>4. PresenceTypeOK'
  BY <1>1, <1>2, <1>3 DEF PresenceTypeOK, UwsTypeOK, SharedTypeOK, uwsVars, sharedVars, dbVars, Connected
<1>5. Connected' = Connected /\ Open' = Open /\ UNCHANGED user_connections
  BY <1>1 DEF uwsVars, sharedVars, Connected, Open
<1>6. Open \subseteq ConnectionIds
  BY ConnectedIds DEF Open, PresenceTypeOK, UwsTypeOK
<1>7. Informed' = Informed /\ Informed \subseteq Open
  BY <1>3, <1>5, <1>6 DEF Informed
<1>8. AnsweredLogins'
  BY <1>3, <1>5 DEF AnsweredLogins
<1>9. OnlineKnown'
  BY <1>3, <1>5, <1>6, <1>7 DEF OnlineKnown
<1>10. MotdAgreed'
  BY <1>1, <1>3, <1>6, <1>7 DEF MotdAgreed
<1> QED
  BY <1>4, <1>8, <1>9, <1>10

\* Every callback keeps the invariant.
LEMMA ClientsStep == ClientsInv /\ [PresenceNext]_presenceVars => ClientsInv'
<1> SUFFICES ASSUME ClientsInv, [PresenceNext]_presenceVars PROVE ClientsInv'
  OBVIOUS
<1>1. UwsTypeOK /\ user_connections \in [Connected -> Session] /\ told \in [ConnectionIds -> View]
  BY DEF ClientsInv, PresenceTypeOK, UwsTypeOK, SharedTypeOK
<1>2. ASSUME SlotOnly, UwsTypeOK', TellNobody PROVE ClientsInv'
  BY <1>1, <1>2, SlotOnlyUsers, UntoldStep DEF SameUsers, TellNobody
<1>3. CASE OnOpen /\ TellNobody
  <2>1. \A c \in Connected : c \in Connected' /\ user_connections'[c] = user_connections[c]
    <3>1. connection_id_counter \notin Connected
      BY <1>1 DEF UwsTypeOK, SharedTypeOK
    <3> QED
      BY <1>3, <3>1 DEF OnOpen, Connected
  <2> QED
    BY <1>1, <1>3, <2>1, UwsSteps, UntoldStep DEF SameUsers, TellNobody
<1>4. CASE Forget
  <2>1. \A c \in Connected \ {erasing} : c \in Connected' /\ user_connections'[c] = user_connections[c]
    BY <1>4 DEF Forget, OnCloseErase, Restrict, Connected
  <2>2. erasing \in ConnectionIds
    BY <1>1, <1>4, ConnectedIds DEF Forget, OnCloseErase, UwsTypeOK, SharedTypeOK
  <2>3. told' = [told EXCEPT ![erasing] = NewView] /\ NewView \in View /\ ~NewView.welcomed
    BY <1>4 DEF Forget, NewView, View
  <2>4. Quiet
    BY <1>1, <1>4, <2>1, <2>2, <2>3, UwsSteps DEF Quiet, Forget, ClientsInv, AnsweredLogins
  <2> QED
    BY <2>4, QuietStep
<1>5. ASSUME NEW c \in Connected, OnClose(c), TellNobody PROVE ClientsInv'
  BY <1>1, <1>2, <1>5, UwsSteps DEF SlotOnly, OnClose
<1>6. ASSUME NEW c \in Connected, Dispatched(c), TellNobody, UwsTypeOK',
             user_connections' = [user_connections EXCEPT ![c].ws = "closing"]
      PROVE  ClientsInv'
  <2>1. /\ Connected' = Connected
        /\ user_connections'[c].user_id = user_connections[c].user_id
        /\ user_connections[c].ws = "open"
        /\ \A d \in Connected \ {c} : user_connections'[d] = user_connections[d]
    BY <1>1, <1>6 DEF Dispatched, Connected, Session
  <2> QED
    BY <1>6, <2>1, UntoldStep DEF SameUsers, TellNobody
<1>7. ASSUME NEW c \in Connected, ClientCloses(c), TellNobody PROVE ClientsInv'
  <2>1. UwsTypeOK'
    BY <1>1, <1>7, SessionUpdate DEF ClientCloses, UwsTypeOK, SharedTypeOK, dbVars
  <2> QED
    BY <1>6, <1>7, <2>1 DEF ClientCloses
<1>8. ASSUME NEW c \in Connected, NEW u \in Users, RefuseBanned(c, u), TellNobody PROVE ClientsInv'
  BY <1>1, <1>6, <1>8, UwsSteps DEF RefuseBanned, NotLoggedIn
<1>9. ASSUME NEW c \in Connected, NEW u \in Users, TellLogin(c, u) \/ TellRegister(c, u)
      PROVE  ClientsInv'
  <2>1. /\ NotLoggedIn(c) /\ UNCHANGED motd /\ UwsTypeOK'
        /\ user_connections' = [user_connections EXCEPT ![c].user_id = u]
    BY <1>1, <1>9, UwsSteps DEF TellLogin, TellRegister, Login, Register
  <2>2. CASE Announce(c, u)
    BY <2>1, <2>2, AnnounceStep
  <2>3. CASE UNCHANGED told
    <3>1. Connected' = Connected /\ \A d \in Connected \ {c} : user_connections'[d] = user_connections[d]
      BY <1>1, <2>1 DEF Connected
    <3>2. user_connections[c].user_id = NoUser
      BY <2>1 DEF NotLoggedIn
    <3> QED
      BY <2>1, <2>3, <3>1, <3>2, UntoldStep DEF SameUsers
  <2> QED
    BY <1>9, <2>2, <2>3 DEF TellLogin, TellRegister
<1>10. ASSUME NEW c \in Connected, NEW s \in Slots, TellPlay(c, s) PROVE ClientsInv'
  <2>1. Quiet
    BY <1>1, <1>10, PlayTells, SlotOnlyUsers DEF Quiet, TellPlay, ClientsInv, AnsweredLogins
  <2> QED
    BY <2>1, QuietStep
<1>11. ASSUME NEW c \in Connected, NEW s \in Slots, DeleteCharacter(c, s), TellNobody PROVE ClientsInv'
  BY <1>1, <1>2, <1>11, UwsSteps DEF SlotOnly, DeleteCharacter, sharedVars
<1>12. ASSUME NEW c \in Connected, NEW s \in Slots, NEW name \in Names, NEW served \in BOOLEAN,
              CreateCharacter(c, s, name, served), TellNobody
       PROVE  ClientsInv'
  BY <1>1, <1>2, <1>12, UwsSteps DEF SlotOnly, CreateCharacter, sharedVars
<1>13. ASSUME NEW c \in Connected, NEW t \in MoveTargets, Move(c, t), TellNobody PROVE ClientsInv'
  BY <1>1, <1>2, <1>13, UwsSteps DEF SlotOnly, Move
<1>14. CASE UNCHANGED presenceVars
  <2>1. UwsTypeOK'
    BY <1>1, <1>14 DEF presenceVars, uwsVars, sharedVars, dbVars, UwsTypeOK, SharedTypeOK, Connected
  <2> QED
    BY <1>2, <1>14, <2>1 DEF SlotOnly, TellNobody, presenceVars, uwsVars, sharedVars
<1> QED
  BY <1>3, <1>4, <1>5, <1>7, <1>8, <1>9, <1>10, <1>11, <1>12, <1>13, <1>14, SetMotdStep
  DEF PresenceNext

\* A step of the program is a callback, or none of the clients' concern.
LEMMA CallbackOrNothing == [ServiceNext]_serviceVars => [PresenceNext]_presenceVars
BY DEF ServiceNext, MainNext, ThreadStep, Interrupt, LoadFails, Load, Started, NextRound, BeginTick,
       EndTick, Send, Sent,
       Stop, Join, Listen, Run, RunReturns, Throw, AfterTry, Callback, serviceVars

\* The invariant of the clients holds for good.
LEMMA ClientsInvariant == ServiceSpec => []ClientsInv
<1>1. ServiceInit => ClientsInv
  BY ClientsInit DEF ServiceInit
<1>2. ClientsInv /\ [ServiceNext]_serviceVars => ClientsInv'
  BY ClientsStep, CallbackOrNothing
<1> QED
  BY <1>1, <1>2, PTL DEF ServiceSpec

(***************************************************************************)
(* Every client whose login was answered knows of every other user of whom *)
(* that is true.                                                           *)
(***************************************************************************)
THEOREM EveryoneKnown == ServiceSpec => []OnlineKnown
<1>1. ClientsInv => OnlineKnown
  BY DEF ClientsInv
<1> QED
  BY <1>1, ClientsInvariant, PTL

(***************************************************************************)
(* Every client whose login was answered has the message of the day that   *)
(* is set.                                                                 *)
(***************************************************************************)
THEOREM SameMotd == ServiceSpec => []MotdAgreed
<1>1. ClientsInv => MotdAgreed
  BY DEF ClientsInv
<1> QED
  BY <1>1, ClientsInvariant, PTL

(***************************************************************************)
(* Nobody whose login was answered is told that somebody enters whom it    *)
(* was never told of, unless the login of that one broke off.              *)
(***************************************************************************)
THEOREM EntrantsAnnounced == ServiceSpec => EntrantsKnown
<1> DEFINE Known(d, u) ==
      \/ u \in told[d].online \cup {user_connections[d].user_id}
      \/ \E c \in Connected : EntersUnannounced(c) /\ user_connections[c].user_id = u
<1>1. ASSUME ClientsInv, PresenceNext, NEW d \in Informed, NEW u \in told'[d].entered \ told[d].entered
      PROVE  Known(d, u)
  <2>1. told \in [ConnectionIds -> View] /\ d \in ConnectionIds
    BY <1>1, ConnectedIds DEF ClientsInv, PresenceTypeOK, UwsTypeOK, Informed, Open
  <2>2. ASSUME NEW c \in Connected, NEW s \in Slots, TellPlay(c, s)
        PROVE  Known(d, u)
    <3>1. /\ u = user_connections[c].user_id
          /\ c \in LoggedIn /\ c \in Open /\ ~IsPlaying(c) /\ IsPlaying(c)'
      BY <1>1, <2>1, <2>2, PlayTells
    <3>2. CASE told[c].welcomed
      BY <1>1, <3>1, <3>2 DEF ClientsInv, OnlineKnown, Informed
    <3>3. CASE ~told[c].welcomed
      BY <3>1, <3>3 DEF EntersUnannounced
    <3> QED
      BY <3>2, <3>3
  <2>3. ASSUME told'[d].entered = told[d].entered PROVE FALSE
    BY <1>1, <2>3
  <2>4. ASSUME NEW c \in Connected, NEW v \in Users, Announce(c, v)
        PROVE  told'[d].entered = told[d].entered
    BY <2>1, <2>4 DEF Announce, View
  <2>5. ASSUME NEW c \in Connected, NEW m \in Motds, SetMotd(c, m)
        PROVE  told'[d].entered = told[d].entered
    BY <2>1, <2>5 DEF SetMotd, Broadcast, View
  <2>6. Forget => told'[d].entered \subseteq told[d].entered
    BY <2>1 DEF Forget, NewView, View
  <2>7. UNCHANGED told => told'[d].entered = told[d].entered
    OBVIOUS
  <2> QED
    BY <1>1, <2>2, <2>3, <2>4, <2>5, <2>6, <2>7 DEF PresenceNext, TellLogin, TellRegister, TellNobody
<1>2. ClientsInv /\ [PresenceNext]_presenceVars =>
        [\A c \in Informed : \A u \in told'[c].entered \ told[c].entered :
           \/ u \in told[c].online \cup {user_connections[c].user_id}
           \/ \E d \in Connected : EntersUnannounced(d) /\ user_connections[d].user_id = u]_presenceVars
  BY <1>1
<1> QED
  BY <1>2, ClientsInvariant, CallbackOrNothing, PTL DEF ServiceSpec, EntrantsKnown
=============================================================================
