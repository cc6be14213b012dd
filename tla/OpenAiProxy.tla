---------------------------- MODULE OpenAiProxy ----------------------------
(* bin/openai-proxy.rs: a chat client of the OpenAI interface sends its     *)
(* messages to the proxy, which passes them to Understand as turns.  The    *)
(* turns carry no run id, and the last question is not among them: it goes  *)
(* beside them.                                                             *)
EXTENDS Conversations

CONSTANTS Texts, Answers,   \* what is asked (never Silence) and answered
          MaxMessages       \* bound on a chat

VARIABLES
    messages,   \* the client's chat
    pc,         \* what the client waits for
    heard       \* what the agent was given

vars == <<messages, pc, heard>>

Unheard == [utterance |-> Silence, history |-> << >>]

Init == messages = << >> /\ pc = "write" /\ heard = Unheard

(* The client adds a message of any role; empty ones are allowed.           *)
Write(turn) == /\ pc = "write" /\ Len(messages) < MaxMessages
               /\ messages' = Append(messages, turn)
               /\ UNCHANGED <<pc, heard>>

(* openai_messages_to_understand, and Understand's extract_history.  The    *)
(* chat needs a question; a streaming or ill-formed request is refused.     *)
Turns == Spoken(messages)

Request == /\ pc = "write" /\ UserIndices(Turns) # {}
           /\ heard' = [utterance |-> Turns[LastUser(Turns)].text, history |-> History(Earlier(Turns))]
           /\ pc' = "wait"
           /\ UNCHANGED messages

(* The answer; a failure or an action that is no Respond is an error, and   *)
(* leaves the chat as it is.                                                *)
Answer(text) == /\ pc = "wait" /\ pc' = "write"
                /\ messages' = Append(messages, AnswerTurn(text))
                /\ heard' = Unheard

Refuse == /\ pc = "wait" /\ pc' = "write" /\ heard' = Unheard
          /\ UNCHANGED messages

Next == \/ \E t \in Texts \cup {Silence} : Write(UserTurn(NoRun, t)) \/ Write(SystemTurn(t))
        \/ Request \/ Refuse
        \/ \E a \in Answers : Answer(a)

Spec == Init /\ [][Next]_vars

-----------------------------------------------------------------------------
(* "Skip the current run's user_request": the agent hears everything else   *)
(* the client sent.                                                         *)
ProxyHearsConversation == pc = "wait" => heard.history = Pairs(Earlier(Turns))
=============================================================================
