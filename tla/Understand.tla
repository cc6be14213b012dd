----------------------------- MODULE Understand -----------------------------
(* A device in conversation with the AiBus handlers: Understand, which      *)
(* answers a question or sends the device to its camera, and AnalyzeImage,  *)
(* which brings the picture.  Composed of Conversations and LiveImageStore. *)
(*                                                                          *)
(* The device keeps the turns of each conversation and sends all of them    *)
(* with every request; a question is one run, with one run id, also when it *)
(* is sent again with a picture.  The picture of a run is named like the    *)
(* run; it waits in the image store, or the device sends it inline, in the  *)
(* turn of its question.  A settings reload starts with an empty image      *)
(* store; calls it finds half done end with the one they began with.        *)
EXTENDS Conversations, LiveImageStore

CONSTANTS
    Convs, Texts, Answers,  \* conversations; what is asked and answered in them
    MaxReloads, MaxLosses   \* bounds on the settings reloads and on what is lost

ASSUME UnderstandAssumption ==
    /\ Runs \subseteq Nat \ {0} /\ Frames = Runs /\ NoRun = NONE /\ NONE \notin Nat
    /\ Silence \notin Texts /\ MaxReloads \in Nat /\ MaxLosses \in Nat

VARIABLES
    talk,       \* the device's turns of each conversation
    run,        \* the run of the last question of each conversation, or NONE
    inline,     \* the runs of each conversation whose turn carries its picture
    pc,         \* what each conversation waits for
    request,    \* what the agent is given for the conversation's question
    looks,      \* the runs whose pictures the call has still to look for
    old,        \* what the image store of a call's replaced handlers held, or NONE
    used,       \* history: when a run's picture was stored or found last
    reloads, losses

images_ == <<images, now>>
device  == <<talk, run, inline>>
call    == <<request, looks, old>>
counts  == <<reloads, losses>>
vars == <<images_, device, pc, call, used, counts>>

NoRequest == [history |-> << >>, id |-> NONE, pictures |-> {}, image |-> NONE]

UInit == /\ Init
         /\ talk = [c \in Convs |-> << >>] /\ run = [c \in Convs |-> NONE]
         /\ inline = [c \in Convs |-> {}] /\ pc = [c \in Convs |-> "idle"]
         /\ request = [c \in Convs |-> NoRequest] /\ looks = [c \in Convs |-> {}]
         /\ old = [c \in Convs |-> NONE] /\ used = [r \in Runs |-> NONE]
         /\ reloads = 0 /\ losses = 0

Lose == losses < MaxLosses /\ losses' = losses + 1 /\ UNCHANGED reloads
To(c, step) == pc' = [pc EXCEPT ![c] = step]

(* The call of a conversation is over, or left to the replaced handlers.    *)
Forget(c) == /\ request' = [request EXCEPT ![c] = NoRequest]
             /\ looks' = [looks EXCEPT ![c] = {}] /\ old' = [old EXCEPT ![c] = NONE]

-----------------------------------------------------------------------------
(* The device: a question, one conversation at a time or both at once.      *)
Ask(c, text) ==
    /\ pc[c] = "idle"
    /\ \E r \in Runs : /\ \A q \in Runs : q < r <=> \E d \in Convs :
                                \E i \in DOMAIN talk[d] : talk[d][i].run = q
                       /\ run' = [run EXCEPT ![c] = r]
                       /\ talk' = [talk EXCEPT ![c] = Append(@, UserTurn(r, text))]
    /\ To(c, "asked")
    /\ UNCHANGED <<images_, inline, call, used, counts>>

(* A device whose hook does so puts the picture into the turn.              *)
Attach(c) == /\ pc[c] = "asked" /\ run[c] \notin inline[c]
             /\ inline' = [inline EXCEPT ![c] = @ \cup {run[c]}]
             /\ UNCHANGED <<images_, talk, run, pc, call, used, counts>>

-----------------------------------------------------------------------------
(* understand_inner.  A picture sent inline comes before any in the store:  *)
(* for an earlier question its own, for the current one the most recent of  *)
(* all turns.                                                               *)
Inlined(c) == {i \in UserIndices(talk[c]) : talk[c][i].run \in inline[c]}
MostRecent(c) == IF Inlined(c) = {} THEN NONE ELSE talk[c][Max(Inlined(c))].run

OfEarlier(c) == Pictured(talk[c]) \ inline[c]

Start(c, left) ==
    /\ pc[c] = "asked" /\ To(c, IF left = {} THEN "chat" ELSE "looking")
    /\ looks' = [looks EXCEPT ![c] = left]
    /\ request' = [request EXCEPT ![c] =
          [history |-> History(talk[c]), id |-> ConversationId(talk[c], run[c]),
           pictures |-> {<<r, r>> : r \in Pictured(talk[c]) \cap inline[c]},
           image |-> MostRecent(c)]]
    /\ UNCHANGED <<images_, device, old, used, counts>>

Receive_ForgetsRun(c) == Start(c, OfEarlier(c))
Receive(c) ==
    Start(c, OfEarlier(c) \cup IF Inlined(c) = {} THEN {run[c]} ELSE {})

(* One look at the image store, which prunes it and refreshes what it       *)
(* finds: the earlier questions in their order, then the current one.       *)
IsNext(c, r) == /\ r \in looks[c] /\ (r = run[c] => looks[c] = {r})
                /\ \A q \in looks[c] \ {run[c]} : r <= q

FindOld(c, r, found) == /\ found \in {NONE} \cup (old[c] \cap {r})
                        /\ UNCHANGED <<images_, used>>
Find(r, found) == /\ GetRefresh(r, found)
                  /\ used' = IF found = NONE THEN used ELSE [used EXCEPT ![r] = now]

Look(c, r) ==
    /\ pc[c] = "looking" /\ IsNext(c, r)
    /\ \E found \in Frames \cup {NONE} :
          /\ IF old[c] = NONE THEN Find(r, found) ELSE FindOld(c, r, found)
          /\ request' = IF found = NONE THEN request
                        ELSE IF r = run[c] THEN [request EXCEPT ![c].image = found]
                        ELSE [request EXCEPT ![c].pictures = @ \cup {<<r, found>>}]
    /\ looks' = [looks EXCEPT ![c] = @ \ {r}]
    /\ IF looks[c] = {r} THEN To(c, "chat") /\ old' = [old EXCEPT ![c] = NONE]
                         ELSE UNCHANGED <<pc, old>>
    /\ UNCHANGED <<device, counts>>

(* The agent answers, with a text or the text of an error; the reply may    *)
(* not reach the device.  What the log makes of it is in ConversationLog.   *)
Respond(c, answer, arrives) ==
    /\ pc[c] = "chat" /\ To(c, "idle") /\ Forget(c)
    /\ IF arrives THEN UNCHANGED counts ELSE Lose
    /\ talk' = IF arrives THEN [talk EXCEPT ![c] = Append(@, AnswerTurn(answer))] ELSE talk
    /\ UNCHANGED <<images_, run, inline, used>>

(* An explicit request to look, or the agent's: UnderstandScene, and no     *)
(* save.  A question with a picture gets there only by the agent.           *)
Scene(c) == /\ pc[c] = "chat" /\ To(c, "scene") /\ Forget(c)
            /\ UNCHANGED <<images_, device, used, counts>>

(* The client goes away, and the question stays without an answer.          *)
Abandon(c) == /\ pc[c] # "idle" /\ To(c, "idle") /\ Lose /\ Forget(c)
              /\ UNCHANGED <<images_, device, used>>

(* analyze_image, which stores the picture where its handlers look for it.  *)
Photograph(c) == /\ pc[c] = "scene" /\ To(c, "photo")
                 /\ UNCHANGED <<images_, device, call, used, counts>>

Analyze(c) == /\ pc[c] = "photo" /\ To(c, "asked") /\ Forget(c)
              /\ IF old[c] = NONE THEN /\ Put(run[c], run[c])
                                       /\ used' = [used EXCEPT ![run[c]] = now]
                                  ELSE UNCHANGED <<images_, used>>
              /\ UNCHANGED <<device, counts>>

-----------------------------------------------------------------------------
(* update_settings replaces the handlers.                                   *)
Reload == /\ reloads < MaxReloads /\ reloads' = reloads + 1
          /\ images' = [r \in Runs |-> NONE] /\ used' = [r \in Runs |-> NONE]
          /\ old' = [c \in Convs |-> IF pc[c] \in {"looking", "photo"} /\ old[c] = NONE
                                     THEN Held ELSE old[c]]
          /\ UNCHANGED <<now, device, pc, request, looks, losses>>

Pass == Tick /\ UNCHANGED <<device, pc, call, used, counts>>

UNext == \/ \E c \in Convs :
               \/ \E t \in Texts : Ask(c, t)
               \/ \E r \in Runs : Look(c, r)
               \/ Attach(c) \/ Receive(c) \/ Scene(c) \/ Abandon(c)
               \/ \E a \in Answers, arrives \in BOOLEAN : Respond(c, a, arrives)
               \/ Photograph(c) \/ Analyze(c)
         \/ Reload \/ Pass

USpec == UInit /\ [][UNext]_vars

-----------------------------------------------------------------------------
(* What was said in a conversation before the question it waits for.        *)
Said(c, r) == LET before == {i \in DOMAIN talk[c] : \A j \in 1..i : talk[c][j].run # r}
              IN Pairs(Spoken(SubSeq(talk[c], 1, Cardinality(before))))

(* The agent hears all of the conversation before the question, under the   *)
(* id of the conversation's first run.  A picture it is shown with an       *)
(* earlier question was taken for that question, and each one sent inline   *)
(* is shown.  With the question itself it is shown the question's own       *)
(* picture or none: but where turns carry pictures inline, the last of      *)
(* those, which may be an older question's (extract_most_recent_image_data  *)
(* does not ask whose it is).                                               *)
AgentHearsConversation ==
    \A c \in Convs : pc[c] = "chat" =>
        LET carrying == {i \in DOMAIN talk[c] : talk[c][i].run \in inline[c]}
        IN /\ request[c].history = Said(c, run[c])
           /\ request[c].id = talk[c][1].run
           /\ \A p \in request[c].pictures :
                 /\ p[1] = p[2]
                 /\ \E i \in 1 .. Len(talk[c]) - 1 : talk[c][i].run = p[1]
           /\ \A i \in carrying : talk[c][i].text # Silence /\ i < Len(talk[c])
                                    => <<talk[c][i].run, talk[c][i].run>> \in request[c].pictures
           /\ IF carrying = {} THEN request[c].image \in {NONE, run[c]}
              ELSE \A i \in carrying : (\A j \in carrying : j <= i)
                                          => request[c].image = talk[c][i].run

(* A question whose picture was taken under the present handlers is put to  *)
(* the agent with it, unless the picture has grown old or enough other runs *)
(* came after it, or a picture sent inline takes its place.                 *)
Owed(r) == /\ used[r] # NONE /\ now - used[r] < TTL
           /\ Cardinality({q \in Runs \ {r} : used[q] # NONE /\ used[q] >= used[r]}) < MaxImages
PictureIsUsed ==
    [][\A c \in Convs :
          /\ pc[c] # "chat" /\ pc'[c] = "chat" /\ old[c] = NONE /\ Owed(run[c])
          /\ \A i \in DOMAIN talk[c] : talk[c][i].run \notin inline[c]
          => request'[c].image = run[c]]_vars
=============================================================================
