------------------------------ MODULE WorldEntry ------------------------------
(***************************************************************************)
(* What the server promises about being in the world, without threads,     *)
(* queues or ticks.  A client connects, asks once to enter, waits, is let  *)
(* in under its character's name or turned away, and disconnects when it   *)
(* likes.  A name is in the world at most once.  Only who disconnected is  *)
(* taken out, and that does happen.                                        *)
(***************************************************************************)
CONSTANTS Clients, Names, NoName

VARIABLES
  link,   \* client -> "new", "up" or "down"
  stage,  \* client -> "outside", "waiting", "inside" or "done"
  as      \* client -> the name it is inside under, or NoName

vars == <<link, stage, as>>

Init == /\ link = [c \in Clients |-> "new"]
        /\ stage = [c \in Clients |-> "outside"]
        /\ as = [c \in Clients |-> NoName]

Connect(c) == /\ link[c] = "new"
              /\ link' = [link EXCEPT ![c] = "up"]
              /\ UNCHANGED <<stage, as>>

Ask(c) == /\ link[c] = "up" /\ stage[c] = "outside"
          /\ stage' = [stage EXCEPT ![c] = "waiting"]
          /\ UNCHANGED <<link, as>>

\* The request fails half-way: this client can no longer ask.
Spoil(c) == /\ link[c] = "up" /\ stage[c] = "outside"
            /\ stage' = [stage EXCEPT ![c] = "done"]
            /\ UNCHANGED <<link, as>>

Admit(c, n) == /\ stage[c] = "waiting"
               /\ \A d \in Clients : as[d] # n
               /\ stage' = [stage EXCEPT ![c] = "inside"]
               /\ as' = [as EXCEPT ![c] = n]
               /\ UNCHANGED link

TurnAway(c) == /\ stage[c] = "waiting"
               /\ stage' = [stage EXCEPT ![c] = "done"]
               /\ UNCHANGED <<link, as>>

Disconnect(c) == /\ link[c] = "up"
                 /\ link' = [link EXCEPT ![c] = "down"]
                 /\ stage' = [stage EXCEPT ![c] = IF @ = "outside" THEN "done" ELSE @]
                 /\ UNCHANGED as

TakeOut(c) == /\ link[c] = "down" /\ stage[c] = "inside"
              /\ stage' = [stage EXCEPT ![c] = "done"]
              /\ as' = [as EXCEPT ![c] = NoName]
              /\ UNCHANGED link

Answer(c) == TurnAway(c) \/ \E n \in Names : Admit(c, n)

Next == \E c \in Clients :
          \/ Connect(c) \/ Ask(c) \/ Spoil(c) \/ Answer(c)
          \/ Disconnect(c) \/ TakeOut(c)

\* The server owes an answer to who waits, and the removal of who left.
Fairness == \A c \in Clients : WF_vars(Answer(c)) /\ WF_vars(TakeOut(c))

Spec == Init /\ [][Next]_vars /\ Fairness
=============================================================================
