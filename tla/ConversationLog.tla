--------------------------- MODULE ConversationLog ---------------------------
(* The log of the conversations (db.rs): each answered question is written  *)
(* by a task of its own, detached from the request, which looks for the row *)
(* of its conversation by the last thing said before, and rewrites it.      *)
(*                                                                          *)
(* How the answers come about is in Understand; here a question is asked,   *)
(* heard and answered, or given up.  A tick is ten minutes.                 *)
EXTENDS Conversations

CONSTANTS
    Convs, Texts, Answers,  \* conversations; what is asked (never Silence) and answered
    Recent,                 \* how old a row a save may rewrite
    MaxRuns, MaxLogTime, MaxLosses     \* bounds on questions, time and losses

ASSUME LogAssumption ==
    /\ Silence \notin Texts /\ Recent \in Nat
    /\ MaxRuns \in Nat /\ MaxLogTime \in Nat /\ MaxLosses \in Nat

VARIABLES
    talk,       \* the device's turns of each conversation
    waiting,    \* conversations with a question that is not answered
    rows,       \* the tables conversations and conversation_messages
    saves,      \* tasks spawned to write the log
    latest,     \* history: the last run of each conversation that was saved
    said,       \* history: what each conversation gave to the log, and at which place
    disturbed,  \* history: conversations whose saves failed or overtook each other
    clock, losses

logDevice == <<talk, waiting>>
log    == <<rows, saves, latest, said, disturbed>>
logVars   == <<logDevice, log, clock, losses>>

(* Runs are numbered as they come, whatever their conversation.             *)
RunsSoFar ==
    Max({0} \cup UNION {{talk[c][i].run : i \in UserIndices(talk[c])} : c \in Convs})

LogInit == /\ talk = [c \in Convs |-> << >>] /\ waiting = {}
           /\ rows = << >> /\ saves = {}
           /\ latest = [c \in Convs |-> 0] /\ disturbed = {}
           /\ said = [c \in Convs |-> {}]
           /\ clock = 0 /\ losses = 0

Lose == losses < MaxLosses /\ losses' = losses + 1

Ask(c, text) == /\ c \notin waiting /\ RunsSoFar < MaxRuns
                /\ waiting' = waiting \cup {c}
                /\ talk' = [talk EXCEPT ![c] = Append(@, UserTurn(RunsSoFar + 1, text))]
                /\ UNCHANGED <<log, clock, losses>>

GiveUp(c) == /\ c \in waiting /\ Lose
             /\ waiting' = waiting \ {c}
             /\ UNCHANGED <<talk, log, clock>>

(* The reply and the task are independent: the reply may be lost.           *)
Task(c, answer) ==
    LET question == talk[c][LastUser(talk[c])]
    IN [conversation |-> c, run |-> question.run, history |-> History(talk[c]),
        text |-> question.text, answer |-> answer]

Placed(messages) == {<<i, messages[i]>> : i \in DOMAIN messages}

Answer(c, answer, arrives) ==
    /\ c \in waiting /\ waiting' = waiting \ {c}
    /\ LET s == Task(c, answer)
       IN saves' = saves \cup {s} /\ said' = [said EXCEPT ![c] = @ \cup Placed(Saved(s))]
    /\ IF arrives THEN UNCHANGED losses ELSE Lose
    /\ talk' = IF arrives THEN [talk EXCEPT ![c] = Append(@, AnswerTurn(answer))] ELSE talk
    /\ UNCHANGED <<rows, latest, disturbed, clock>>

-----------------------------------------------------------------------------
Done(s) == /\ saves' = saves \ {s}
           /\ latest' = [latest EXCEPT ![s.conversation] = Max({@, s.run})]
           /\ disturbed' = IF latest[s.conversation] > s.run
                             THEN disturbed \cup {s.conversation} ELSE disturbed
           /\ UNCHANGED <<logDevice, said, clock, losses>>

Save(s) == /\ Done(s)
           /\ LET found == Candidates(rows, s, clock - Recent)
              IN IF found = {} THEN rows' = Inserted(rows, s, clock)
                 ELSE \E i \in found : rows' = Merged(rows, s, i)

SaveFails(s) == /\ saves' = saves \ {s} /\ Lose
                /\ disturbed' = disturbed \cup {s.conversation}
                /\ UNCHANGED <<logDevice, rows, latest, said, clock>>

LogTick == clock < MaxLogTime /\ clock' = clock + 1 /\ UNCHANGED <<logDevice, log, losses>>

LogNext == \/ \E c \in Convs : \/ \E t \in Texts : Ask(c, t)
                               \/ \E a \in Answers, arrives \in BOOLEAN : Answer(c, a, arrives)
                               \/ GiveUp(c)
           \/ \E s \in saves : Save(s) \/ SaveFails(s)
           \/ LogTick

LogSpec == LogInit /\ [][LogNext]_logVars

-----------------------------------------------------------------------------
Turns    == [role : {"user", "assistant"}, run : 1..MaxRuns \cup {NoRun}, text : Texts \cup Answers]
Messages == {"user", "assistant"} \X (Texts \cup Answers)
Tasks    == [conversation : Convs, run : 1..MaxRuns, history : Seq(Messages),
             text : Texts, answer : Answers]

(* Turns, rows and tasks have the types the code gives them, and a row has  *)
(* at least an exchange.                                                    *)
LogTypeOK ==
    /\ talk \in [Convs -> Seq(Turns)] /\ waiting \subseteq Convs
    /\ rows \in Seq([created : 0..clock, messages : Seq(Messages)])
    /\ \A k \in DOMAIN rows : Len(rows[k].messages) >= 2
    /\ saves \subseteq Tasks
    /\ latest \in [Convs -> 0..MaxRuns] /\ disturbed \subseteq Convs
    /\ said \in [Convs -> SUBSET (Nat \X Messages)]
    /\ clock \in 0..MaxLogTime /\ losses \in 0..MaxLosses

(* Two conversations are alike when they gave the log the same message for  *)
(* the same place: it cannot tell them apart there.                         *)
Apart(c) == \A d \in Convs \ {c} : said[c] \cap said[d] = {}

Exchange(c, i) == << <<"user", talk[c][i].text>>, <<"assistant", talk[c][i + 1].text>> >>
Written(x) == \E k \in DOMAIN rows : \E i \in 1 .. (Len(rows[k].messages) - 1) :
                  SubSeq(rows[k].messages, i, i + 1) = x

(* Every exchange that was saved can be found in the log, as long as the    *)
(* saves of its conversation came in order and no other is like it.         *)
ExchangesKept ==
    \A c \in Convs \ disturbed : Apart(c) =>
        \A i \in DOMAIN talk[c] :
            /\ i + 1 \in DOMAIN talk[c]
            /\ talk[c][i].role = "user" /\ talk[c][i + 1].role = "assistant"
            /\ talk[c][i + 1].text # Silence
            /\ \A s \in saves : s.run # talk[c][i].run
            => Written(Exchange(c, i))
=============================================================================
