--------------------------- MODULE UwsThreadProofs ---------------------------
(***************************************************************************)
(* The websocket thread is well-typed: the lemmas that the server's proofs *)
(* and those about the clients share.                                      *)
(***************************************************************************)
EXTENDS UwsThread, TLAPS

\* Enqueuing leaves the earlier messages where they are.
LEMMA AppendFacts ==
  ASSUME NEW S, NEW q \in Seq(S), NEW m \in S
  PROVE  /\ Append(q, m) \in Seq(S)
         /\ DOMAIN Append(q, m) = 1 .. Len(q) + 1
         /\ DOMAIN q = 1 .. Len(q)
         /\ Len(q) \in Nat
         /\ \A i \in 1 .. Len(q) : Append(q, m)[i] = q[i]
         /\ Append(q, m)[Len(q) + 1] = m
OBVIOUS

\* The websocket thread starts well-typed.
LEMMA UwsTypeInit == UwsInit => UwsTypeOK
BY StateAssumption, UwsAssumption
   DEF UwsInit, SharedInit, UwsTypeOK, SharedTypeOK, Connected, Producers

\* on_open gave every open connection its id.
LEMMA ConnectedIds == SharedTypeOK => Connected \subseteq ConnectionIds
BY StateAssumption DEF SharedTypeOK, ConnectionIds

\* A queued message keeps the queue well-typed.
LEMMA EnqueueType ==
  ASSUME game_loop_queue \in [Producers -> Seq(QueueMessages)],
         NEW p \in Producers, NEW m \in QueueMessages, Enqueue(p, m)
  PROVE  game_loop_queue' \in [Producers -> Seq(QueueMessages)]
<1>1. Append(game_loop_queue[p], m) \in Seq(QueueMessages)
  BY AppendFacts
<1> QED
  BY <1>1 DEF Enqueue

\* Writing one field of one session keeps the map a map of sessions.
LEMMA SessionUpdate ==
  ASSUME user_connections \in [Connected -> Session], NEW c \in Connected,
         \/ user_connections' = [user_connections EXCEPT ![c].ws = "closing"]
         \/ \E u \in Users : user_connections' = [user_connections EXCEPT ![c].user_id = u]
         \/ \E s \in Slots :
              user_connections' = [user_connections EXCEPT ![c].playing_character_slot = s]
  PROVE  /\ Connected' = Connected
         /\ user_connections' \in [Connected' -> Session]
<1>1. user_connections[c] \in Session
  OBVIOUS
<1>2. PICK d \in Session : user_connections' = [user_connections EXCEPT ![c] = d]
  <2>1. CASE user_connections' = [user_connections EXCEPT ![c].ws = "closing"]
    <3>1. [user_connections[c] EXCEPT !.ws = "closing"] \in Session
      BY <1>1 DEF Session
    <3> QED
      BY <2>1, <3>1
  <2>2. CASE \E u \in Users : user_connections' = [user_connections EXCEPT ![c].user_id = u]
    <3>1. PICK u \in Users : user_connections' = [user_connections EXCEPT ![c].user_id = u]
      BY <2>2
    <3>2. [user_connections[c] EXCEPT !.user_id = u] \in Session
      BY <1>1 DEF Session
    <3> QED
      BY <3>1, <3>2
  <2>3. CASE \E s \in Slots :
              user_connections' = [user_connections EXCEPT ![c].playing_character_slot = s]
    <3>1. PICK s \in Slots :
            user_connections' = [user_connections EXCEPT ![c].playing_character_slot = s]
      BY <2>3
    <3>2. [user_connections[c] EXCEPT !.playing_character_slot = s] \in Session
      BY <1>1 DEF Session
    <3> QED
      BY <3>1, <3>2
  <2> QED
    BY <2>1, <2>2, <2>3
<1> QED
  BY <1>2 DEF Connected

\* The steps of the websocket thread keep its types.
LEMMA UwsTypeStep == UwsTypeOK /\ UwsNext => UwsTypeOK'
<1> SUFFICES ASSUME UwsTypeOK, UwsNext PROVE UwsTypeOK'
  OBVIOUS
<1> USE DEF UwsTypeOK, SharedTypeOK, sharedVars, dbVars
<1>1. CASE OnOpen
  BY <1>1, StateAssumption
  DEF OnOpen, Idle, NewSession, Session, Connected, Nobody
<1>2. CASE OnCloseErase
  BY <1>2, UwsAssumption DEF OnCloseErase, Restrict, Connected
<1>3. ASSUME NEW c \in Connected, OnClose(c) PROVE UwsTypeOK'
  <2>1. PlayerLeave(c) \in QueueMessages
    BY ConnectedIds DEF PlayerLeave, QueueMessages, LeaveMessages
  <2> QED
    BY <1>3, <2>1, EnqueueType DEF OnClose, Producers, Connected
<1>4. ASSUME NEW c \in Connected, NEW u \in Users, RefuseBanned(c, u) PROVE UwsTypeOK'
  BY <1>4, SessionUpdate DEF RefuseBanned
<1>5. ASSUME NEW c \in Connected, NEW u \in Users, Login(c, u) PROVE UwsTypeOK'
  BY <1>5, SessionUpdate DEF Login
<1>6. ASSUME NEW c \in Connected, NEW u \in Users, Register(c, u) PROVE UwsTypeOK'
  BY <1>6, SessionUpdate DEF Register
<1>7. ASSUME NEW c \in Connected, NEW s \in Slots, PlayCharacter(c, s) PROVE UwsTypeOK'
  <2> DEFINE row == characters[user_connections[c].user_id][s]
  <2>1. row \in Row
    BY <1>7 DEF PlayCharacter, MayPlay, NotPlaying, Rows, Session
  <2>2. PlayerEnter(c, row) \in QueueMessages
    BY <2>1, ConnectedIds DEF PlayerEnter, QueueMessages, EnterMessages, Row
  <2>3. row.loc \in Tiles \cup {OffMap}
    BY <2>1 DEF Row
  <2> QED
    BY <1>7, <2>2, <2>3, SessionUpdate, EnqueueType DEF PlayCharacter, TakeSlot, Producers
<1>8. ASSUME NEW c \in Connected, NEW s \in Slots, PlayCharacterFails(c, s) PROVE UwsTypeOK'
  BY <1>8, SessionUpdate DEF PlayCharacterFails, TakeSlot
<1>9. ASSUME NEW c \in Connected, NEW s \in Slots, DeleteCharacter(c, s) PROVE UwsTypeOK'
  <2>1. user_connections[c].user_id \in Users
    BY <1>9 DEF DeleteCharacter, NotPlaying, Session
  <2> QED
    BY <1>9, <2>1 DEF DeleteCharacter, Rows, Connected
<1>10. ASSUME NEW c \in Connected, NEW s \in Slots, NEW name \in Names, NEW served \in BOOLEAN,
              CreateCharacter(c, s, name, served)
       PROVE  UwsTypeOK'
  <2>1. user_connections[c].user_id \in Users
    BY <1>10 DEF CreateCharacter, NotPlaying, Session
  <2>2. NewRow(name, served) \in Row
    BY UwsAssumption DEF NewRow, Row
  <2> QED
    BY <1>10, <2>1, <2>2 DEF CreateCharacter, Rows, Connected
<1>11. ASSUME NEW c \in Connected, NEW t \in MoveTargets, Move(c, t) PROVE UwsTypeOK'
  <2>1. PlayerMove(c, t) \in QueueMessages
    BY UwsAssumption, ConnectedIds DEF PlayerMove, QueueMessages, MoveMessages
  <2>2. t \in Tiles \cup {OffMap}
    BY UwsAssumption
  <2> QED
    BY <1>11, <2>1, <2>2, EnqueueType DEF Move, Producers, Connected
<1> QED
  BY <1>1, <1>2, <1>3, <1>4, <1>5, <1>6, <1>7, <1>8, <1>9, <1>10, <1>11 DEF UwsNext
=============================================================================
