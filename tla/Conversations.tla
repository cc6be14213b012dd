---------------------------- MODULE Conversations ----------------------------
(* What the server makes of the turns of a conversation: the history it     *)
(* hands to the language model (synapse/conversation.rs) and the messages   *)
(* it writes to the conversation log (db.rs).                               *)
(*                                                                          *)
(* A turn is a user's request, a Respond action or something a model never  *)
(* hears (another action, an observation, the end of a run).                *)
EXTENDS Integers, Sequences, FiniteSets, SequencesExt

CONSTANTS NoRun,    \* no run
          Silence   \* the empty text

UserTurn(run, text)   == [role |-> "user", run |-> run, text |-> text]
AnswerTurn(text)      == [role |-> "assistant", run |-> NoRun, text |-> text]
SystemTurn(text)      == [role |-> "system", run |-> NoRun, text |-> text]

UserIndices(turns) == {i \in DOMAIN turns : turns[i].role = "user"}
LastUser(turns)  == Max(UserIndices(turns))
FirstUser(turns) == Min({i \in UserIndices(turns) : turns[i].run # NoRun})

(* Mutated forms (named ..._) of a definition stand before it: each is a    *)
(* bug the properties have to notice.                                       *)
Earlier_SkipsFirst(turns) ==
    IF UserIndices(turns) = {} THEN turns ELSE RemoveAt(turns, Min(UserIndices(turns)))

(* extract_history leaves out the last request of the user.                 *)
Earlier(turns) ==
    IF UserIndices(turns) = {} THEN turns ELSE RemoveAt(turns, LastUser(turns))

(* The turns that have a text.                                              *)
Spoken(turns) ==
    LET heard[n \in 0 .. Len(turns)] ==
            IF n = 0 THEN << >>
            ELSE IF turns[n].text = Silence THEN heard[n - 1] ELSE Append(heard[n - 1], turns[n])
    IN heard[Len(turns)]

Pairs(turns)   == [i \in DOMAIN turns |-> <<turns[i].role, turns[i].text>>]
History(turns) == Pairs(Spoken(Earlier(turns)))

(* The runs whose pictures extract_history looks for.                       *)
Pictured(turns) ==
    {t.run : t \in {u \in ToSet(Earlier(turns)) : u.role = "user" /\ u.text # Silence}} \ {NoRun}

(* extract_conversation_id.                                                 *)
ConversationId(turns, run) ==
    IF \A i \in UserIndices(turns) : turns[i].run = NoRun THEN run ELSE turns[FirstUser(turns)].run

-----------------------------------------------------------------------------
(* save_understand_conversation.  A row of the log holds the messages and   *)
(* when it was created.                                                     *)
Saved(s) == s.history \o << <<"user", s.text>>, <<"assistant", s.answer>> >>

(* The last message of the history that is not the system's, and the place  *)
(* of the first that equals it.                                             *)
Previous(history) ==
    LET said == {i \in DOMAIN history : history[i][1] # "system"}
        last == history[Max(said)]
    IN IF said = {} THEN {}
       ELSE {[message |-> last, seq |-> Min({i \in DOMAIN history : history[i] = last})]}

Holds_AnyText(row, previous) ==
    /\ previous.seq \in DOMAIN row.messages
    /\ row.messages[previous.seq][1] = previous.message[1]

Holds(row, previous) ==
    /\ previous.seq \in DOMAIN row.messages
    /\ row.messages[previous.seq] = previous.message

(* The rows a save may rewrite: the latest of those that hold the previous  *)
(* message; the order of equally old ones is the database's choice.         *)
Candidates(rows, s, since) ==
    LET match == {i \in DOMAIN rows : /\ rows[i].created >= since
                                      /\ \E p \in Previous(s.history) : Holds(rows[i], p)}
    IN {i \in match : \A j \in match : rows[j].created <= rows[i].created}

Merged(rows, s, i) == [rows EXCEPT ![i].messages = Saved(s)]

Inserted_RowOnly(rows, s, time) == Append(rows, [created |-> time, messages |-> << >>])
Inserted(rows, s, time) == Append(rows, [created |-> time, messages |-> Saved(s)])
=============================================================================
