------------------------------ MODULE MCStores ------------------------------
(* The stores of the server for TLC: small instances of LiveImageHistory,   *)
(* ConversationLog, Media and Contacts, which share no state.  TLC explores *)
(* them side by side: each initial state belongs to one of them, and in its *)
(* behaviours the others stand still.                                       *)
EXTENDS Stores, TLC

CONSTANTS c1, c2    \* conversations

(* Contacts: two persons, imported together or one alone.                   *)
Card(phone, email) == [phone |-> phone, email |-> email]
New(card)   == [id |-> Nothing, card |-> card]
MCCards     == {Card("p", Nothing), Card("q", "e")}
MCBatches   == {<<New(Card("p", Nothing)), New(Card("q", "e"))>>, <<New(Card("q", "e"))>>}

VARIABLE part

-----------------------------------------------------------------------------
PartsInit == /\ part \in {"images", "log", "media", "contacts"}
             /\ HInit /\ LogInit /\ MediaInit /\ ContactsInit

PartsNext ==
    \/ part = "images" /\ HNext /\ UNCHANGED <<part, logVars, mediaVars, contactVars>>
    \/ part = "log" /\ LogNext /\ UNCHANGED <<part, vars, mediaVars, contactVars>>
    \/ part = "media" /\ MediaNext /\ UNCHANGED <<part, vars, logVars, contactVars>>
    \/ part = "contacts" /\ ContactsNext /\ UNCHANGED <<part, vars, logVars, mediaVars>>

PartsSpec == PartsInit /\ [][PartsNext]_<<part, vars, logVars, mediaVars, contactVars>>

(* ConversationLog treats all conversations alike.                          *)
Symmetry == Permutations({c1, c2})
=============================================================================
