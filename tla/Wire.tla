--------------------------------- MODULE Wire ---------------------------------
(***************************************************************************)
(* A message on its way from one end of a connection to the other: written *)
(* by one class of Messages, read by another or the same, perhaps as an    *)
(* end of another version wrote it, without one of its keys.  What a       *)
(* client says is cleaned on the way by the filter of Censor, whose tiers  *)
(* can be switched.                                                        *)
(***************************************************************************)
EXTENDS Messages, Censor

CONSTANTS Samples,   \* class -> messages of it that are sent
          Phrases,   \* what clients say
          Nothing

VARIABLES
  _enabled_tiers,
  said,      \* what the client said last
  sent,      \* the message under way and its class
  document,  \* what was written
  received   \* the class that read it, and what it read

wireVars == <<_enabled_tiers, said, sent, document, received>>

Classes == Requests \cup Responses

\* What handle_public_chat makes of a text.
message_of(text) ==
  [user |-> "u", content |-> text, source |-> "game", unix_timestamp |-> UintSize]

\* What is sent are messages, and so is what is said and what the filter leaves of it.
ASSUME SamplesAssumption == \A class \in Classes : \A m \in Samples[class] : Message(class, m)

ASSUME PhrasesAssumption ==
  \A phrase \in Phrases :
    /\ phrase \in Seq(Range(phrase))
    /\ Message(message_request, [content |-> phrase])
    /\ \A tiers \in SUBSET AllTiers :
         Message(message_response, message_of(clean_profanity_ish(phrase, tiers)))

Idle == /\ said = Nothing /\ sent = Nothing
        /\ document = Nothing /\ received = Nothing

WireInit == _enabled_tiers = AllTiers /\ Idle

\* Tiers without a word make no difference, but for the one that is refused.
SwitchTier ==
  /\ Idle
  /\ \E tier \in AllTiers \cup {USER_ADDED + 1} :
       _enabled_tiers' \in {enable_tier(_enabled_tiers, tier), disable_tier(_enabled_tiers, tier)}
  /\ UNCHANGED <<said, sent, document, received>>

Write(class, m) == /\ sent' = [class |-> class, m |-> m]
                   /\ document' = serialize(class, m)
                   /\ received' = Nothing
                   /\ UNCHANGED _enabled_tiers

Send == /\ Idle
        /\ \E class \in Classes : \E m \in Samples[class] : Write(class, m)
        /\ UNCHANGED said

Say == /\ Idle
       /\ \E phrase \in Phrases : /\ Write(message_request, [content |-> phrase])
                                  /\ said' = phrase

\* Every key of the class is in the document.
Whole == DOMAIN document = sent.class.keys \cup {"type"}

\* The other end does not know one of the keys.
LeaveOut ==
  /\ sent # Nothing /\ received = Nothing
  /\ Whole
  /\ \E k \in DOMAIN document : document' = Restrict(document, DOMAIN document \ {k})
  /\ UNCHANGED <<_enabled_tiers, said, sent, received>>

\* The server hands a request to the class that add_routes has for its type.  A
\* client may try any class on a response.
Receive ==
  /\ sent # Nothing /\ received = Nothing
  /\ \E class \in IF sent.class \in Requests /\ "type" \in DOMAIN document
                    THEN {Route(document.type)} ELSE Classes :
       received' = [class |-> class, m |-> deserialize(class, document)]
  /\ UNCHANGED <<_enabled_tiers, said, sent, document>>

\* handle_public_chat
PublicChat ==
  /\ said # Nothing /\ received # Nothing
  /\ received.class = message_request
  /\ received.m # nullopt
  /\ Write(message_response,
           message_of(clean_profanity_ish(received.m.content, _enabled_tiers)))
  /\ UNCHANGED said

Done == /\ received # Nothing
        /\ said' = Nothing /\ sent' = Nothing /\ document' = Nothing /\ received' = Nothing
        /\ UNCHANGED _enabled_tiers

WireNext == SwitchTier \/ Send \/ Say \/ LeaveOut \/ Receive \/ PublicChat \/ Done
WireSpec == WireInit /\ [][WireNext]_wireVars

-----------------------------------------------------------------------------
\* What is written is what is read: every class gets the message back that it
\* wrote, where the stats of characters and items fit uint32 and the items of an
\* allegiance are names (message_serialization_tests.cpp tries one of each).
RoundTrip ==
  received # Nothing /\ received.class = sent.class /\ Whole => received.m = sent.m

\* No class takes the document of another, though generic_ok_response and
\* generic_error_response have one type string, and others the same keys; and a
\* request reaches the class that wrote it.
NoMixUp ==
  received # Nothing /\ Whole =>
    /\ received.class # sent.class => received.m = nullopt
    /\ sent.class \in Requests => received.class = sent.class

\* A document without one of its keys is refused, be it one that the class looks
\* for or, as the online_users of a login_response, one it only reads.
IncompleteRefused == received # Nothing /\ ~Whole => received.m = nullopt

\* What comes out of the chat.
Heard == said # Nothing /\ received # Nothing /\ received.class = message_response
           /\ received.m # nullopt

\* A word of an enabled tier that a phrase holds once does not come through the
\* filter, in whatever case it was written and whichever words overlap it.
OnceIsMasked ==
  Heard =>
    \A n \in DOMAIN Dictionary :
      LET word == Dictionary[n].word
      IN  /\ Dictionary[n].tier \in _enabled_tiers
          /\ Cardinality(Occurrences(string_tolower(said), word)) = 1
          => Occurrences(string_tolower(received.m.content), word) = {}

\* The parts of the filter agree, whichever tiers are enabled: what registration and
\* character creation refuse is just what chat changes, and a phrase of which a
\* whole word is profane is among it.
FilterAgrees ==
  Heard =>
    /\ is_profane_ish(said, _enabled_tiers) <=> received.m.content # string_tolower(said)
    /\ is_profane(said, _enabled_tiers) => is_profane_ish(said, _enabled_tiers)

\* The filter holds, where no word of the dictionary has a star in it: a word that is
\* there once is masked, and what registration refuses is what chat masks
\* (censor_sensor.cpp:103-187).
FilterHolds == OnceIsMasked /\ FilterAgrees
=============================================================================
