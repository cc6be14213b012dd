--------------------------- MODULE UnderstandProofs ---------------------------
(* Proofs about Understand: the turns the agent hears and the pictures it   *)
(* is shown, for any number of conversations and runs, any cap and any      *)
(* lifetime of the image store.                                             *)
EXTENDS Understand, FiniteSetTheorems, TLAPS

Waiting == {"asked", "looking", "chat", "scene", "photo"}

Typed == TypeOK /\ used \in [Runs -> Nat \cup {NONE}]

(* Every conversation has its part of each variable.                        *)
Kinds == /\ DOMAIN pc = Convs /\ DOMAIN run = Convs /\ DOMAIN talk = Convs
         /\ DOMAIN inline = Convs /\ DOMAIN request = Convs
         /\ DOMAIN looks = Convs /\ DOMAIN old = Convs
         /\ \A c \in Convs : pc[c] \in Waiting \cup {"idle"} /\ inline[c] \subseteq Runs

(* A conversation that waits has its run.                                   *)
HasRun == \A c \in Convs : pc[c] \in Waiting => run[c] \in Runs

(* A picture in the store is its run's own, stored or found when noted.     *)
Recorded == \A r \in Runs : images[r] # NONE =>
    images[r].bytes = r /\ images[r].last_access = used[r]

UsedBefore == \A r \in Runs : used[r] # NONE => used[r] <= now

(* What the store no longer holds, it does not owe.                         *)
Forgotten == \A r \in Runs : images[r] = NONE => ~ Owed(r)

StoreInv == Typed /\ Recorded /\ UsedBefore /\ Forgotten
IInv == StoreInv /\ Kinds /\ HasRun

USE ImagesAssumption, UnderstandAssumption

-----------------------------------------------------------------------------
Rivals(r) == {q \in Runs \ {r} : used[q] # NONE /\ used[q] >= used[r]}

LEMMA RivalsFinite == \A r \in Runs : IsFiniteSet(Rivals(r)) /\ Cardinality(Rivals(r)) \in Nat
<1> TAKE r \in Runs
<1>1. IsFiniteSet(Rivals(r))
  BY FS_Subset DEF Rivals
<1> QED
  BY <1>1, FS_CardinalityType

(* A picture that pruning does not keep is owed to nobody.                  *)
LEMMA DroppedNotOwed ==
    ASSUME StoreInv, NEW keep, Pruned(keep), NEW r \in Runs, r \notin keep
    PROVE  ~ Owed(r)
<1> USE DEF StoreInv, Typed, TypeOK
<1>1. CASE images[r] = NONE
  BY <1>1 DEF Forgotten
<1>2. CASE images[r] # NONE /\ r \notin Fresh
  <2>1. images[r] \in Entry
    BY <1>2
  <2>2. images[r].last_access \in Nat
    BY <2>1 DEF Entry
  <2>3. ~ (now - images[r].last_access < TTL)
    BY <1>2 DEF Fresh, Held
  <2>4. images[r].last_access = used[r]
    BY <1>2 DEF Recorded
  <2> QED
    BY <2>3, <2>4 DEF Owed
<1>3. CASE images[r] # NONE /\ r \in Fresh
  <2>1. /\ Cardinality(keep) = MaxImages /\ keep \subseteq Fresh
        /\ \A k \in keep : images[k].last_access >= images[r].last_access
    BY <1>3 DEF Pruned
  <2>2. keep \subseteq Rivals(r)
    <3> SUFFICES ASSUME NEW k \in keep PROVE k \in Rivals(r)
      OBVIOUS
    <3>1. k \in Runs /\ images[k] \in Entry /\ images[k] # NONE
      BY <2>1 DEF Fresh, Held
    <3>2. used[k] \in Nat /\ used[k] >= used[r]
      BY <3>1, <2>1, <1>3 DEF Recorded, Entry
    <3> QED
      BY <3>1, <3>2 DEF Rivals
  <2>3. Cardinality(keep) <= Cardinality(Rivals(r))
    BY <2>2, RivalsFinite, FS_Subset
  <2>4. Cardinality(Rivals(r)) >= MaxImages
    BY <2>1, <2>3
  <2> QED
    BY <2>4, RivalsFinite DEF Owed, Rivals
<1> QED
  BY <1>1, <1>2, <1>3

(* Time passing and other runs being used do not bring a debt back.         *)
LEMMA NotOwedStays ==
    ASSUME Typed, Typed', NEW r \in Runs, ~ Owed(r),
           now <= now', used'[r] = used[r],
           \A q \in Runs : used[q] # NONE => used'[q] # NONE /\ used'[q] >= used[q]
    PROVE  ~ Owed(r)'
<1> USE DEF Typed, TypeOK
<1>1. CASE used[r] = NONE
  BY <1>1 DEF Owed
<1>2. CASE used[r] # NONE /\ now - used[r] >= TTL
  BY <1>2 DEF Owed
<1>3. CASE used[r] # NONE /\ Cardinality(Rivals(r)) >= MaxImages
  <2>1. Rivals(r) \subseteq Rivals(r)'
    <3> SUFFICES ASSUME NEW q \in Runs \ {r}, used[q] # NONE, used[q] >= used[r]
                 PROVE  used'[q] # NONE /\ used'[q] >= used'[r]
      BY DEF Rivals
    <3>1. used'[q] # NONE /\ used'[q] >= used[q]
      OBVIOUS
    <3>2. used[q] \in Nat /\ used'[q] \in Nat /\ used[r] \in Nat
      BY <1>3, <3>1
    <3> QED
      BY <3>1, <3>2
  <2>2. IsFiniteSet(Rivals(r)')
    BY FS_Subset DEF Rivals
  <2>3. Cardinality(Rivals(r)) <= Cardinality(Rivals(r)')
    BY <2>1, <2>2, FS_Subset
  <2>4. Cardinality(Rivals(r)') \in Nat
    BY <2>2, FS_CardinalityType
  <2>5. Cardinality(Rivals(r)) \in Nat /\ MaxImages \in Nat
    BY RivalsFinite
  <2>6. Cardinality(Rivals(r)') >= MaxImages
    BY <1>3, <2>3, <2>4, <2>5
  <2> QED
    BY <2>4, <2>5, <2>6 DEF Owed, Rivals
<1> QED
  BY <1>1, <1>2, <1>3, RivalsFinite DEF Owed, Rivals

-----------------------------------------------------------------------------
LEMMA InitIInv == UInit => IInv
BY DEF UInit, Init, IInv, StoreInv, Kinds, Typed, TypeOK, HasRun, Recorded, UsedBefore, Forgotten,
       Owed, Waiting

(* The store's part of the invariant, operation by operation.  A look       *)
(* notes when it found what it found.                                       *)
LEMMA FindKeeps ==
    ASSUME StoreInv, NEW r \in Runs, NEW found, Find(r, found)
    PROVE  StoreInv'
<1> USE DEF StoreInv, Typed, TypeOK
<1> PICK keep \in SUBSET Runs :
        /\ Pruned(keep)
        /\ found = IF r \in keep THEN images[r].bytes ELSE NONE
        /\ images' = IF r \in keep THEN [Kept(keep) EXCEPT ![r].last_access = now]
                                    ELSE Kept(keep)
  BY DEF Find, GetRefresh
<1>1. now' = now /\ used' = IF found = NONE THEN used ELSE [used EXCEPT ![r] = now]
  BY DEF Find, GetRefresh
<1>2. keep \subseteq Held
  BY DEF Pruned, Fresh
<1>3. \A q \in keep : images[q] \in Entry
  BY <1>2 DEF Held
<1>4. found # NONE <=> r \in keep
  BY <1>3 DEF Entry
<1>5. \A q \in Runs \ {r} : images'[q] = IF q \in keep THEN images[q] ELSE NONE
  BY DEF Kept
<1>6. /\ r \in keep => images'[r] = [bytes |-> images[r].bytes, last_access |-> now]
      /\ r \notin keep => images'[r] = NONE
  <2>1. CASE r \in keep
    <3>1. images'[r] = [images[r] EXCEPT !.last_access = now]
      BY <2>1 DEF Kept
    <3> QED
      BY <2>1, <3>1, <1>3 DEF Entry
  <2>2. CASE r \notin keep
    BY <2>2 DEF Kept
  <2> QED
    BY <2>1, <2>2
<1>7. Typed'
  <2>1. \A q \in Runs : images'[q] \in Entry \cup {NONE}
    BY <1>3, <1>5, <1>6 DEF Entry
  <2>2. images' = [q \in Runs |-> images'[q]]
    BY DEF Kept
  <2> QED
    BY <1>1, <2>1, <2>2
<1>8. \A q \in Runs \ {r} : used'[q] = used[q]
  BY <1>1
<1>9. used'[r] = IF r \in keep THEN now ELSE used[r]
  BY <1>1, <1>4
<1>10. Recorded'
  <2>1. r \in keep => images'[r].bytes = r /\ images'[r].last_access = used'[r]
    BY <1>2, <1>6, <1>9 DEF Recorded, Held
  <2>2. \A q \in Runs \ {r} : images'[q] # NONE =>
           images'[q].bytes = q /\ images'[q].last_access = used'[q]
    BY <1>5, <1>8 DEF Recorded
  <2> QED
    BY <2>1, <2>2, <1>6 DEF Recorded
<1>11. UsedBefore'
  BY <1>1, <1>8, <1>9 DEF UsedBefore
<1>12. \A q \in Runs : used[q] # NONE => used'[q] # NONE /\ used'[q] >= used[q]
  BY <1>8, <1>9 DEF UsedBefore
<1>13. Forgotten'
  <2> SUFFICES ASSUME NEW q \in Runs, images'[q] = NONE PROVE ~ Owed(q)'
    BY DEF Forgotten
  <2>1. q \notin keep
    BY <1>2, <1>3, <1>5, <1>6 DEF Held, Entry
  <2>2. ~ Owed(q) /\ used'[q] = used[q]
    BY <2>1, <1>8, <1>9, DroppedNotOwed
  <2> QED
    BY <2>2, <1>1, <1>7, <1>12, NotOwedStays
<1> QED
  BY <1>7, <1>10, <1>11, <1>13

LEMMA PutKeeps ==
    ASSUME StoreInv, NEW r \in Runs, Put(r, r), used' = [used EXCEPT ![r] = now]
    PROVE  StoreInv'
<1> USE DEF StoreInv, Typed, TypeOK
<1>1. PICK keep \in SUBSET Runs :
        /\ Pruned(keep)
        /\ images' = [Kept(keep) EXCEPT ![r] = [bytes |-> r, last_access |-> now]]
  BY DEF Put
<1>2. now' = now
  BY DEF Put
<1>3. keep \subseteq Held
  BY <1>1 DEF Pruned, Fresh
<1>4. images'[r] = [bytes |-> r, last_access |-> now]
  BY <1>1 DEF Kept
<1>5. \A q \in Runs \ {r} : images'[q] = IF q \in keep THEN images[q] ELSE NONE
  BY <1>1 DEF Kept
<1>6. [bytes |-> r, last_access |-> now] \in Entry
  BY DEF Entry
<1>7. Typed'
  BY <1>1, <1>2, <1>6 DEF Kept
<1>8. used'[r] = now /\ \A q \in Runs \ {r} : used'[q] = used[q]
  OBVIOUS
<1>9. Recorded'
  <2>1. \A q \in Runs \ {r} : images'[q] # NONE =>
           images'[q].bytes = q /\ images'[q].last_access = used'[q]
    BY <1>5, <1>8 DEF Recorded
  <2> QED
    BY <1>4, <1>8, <2>1 DEF Recorded
<1>10. UsedBefore'
  BY <1>2, <1>8 DEF UsedBefore
<1>11. \A q \in Runs : used[q] # NONE => used'[q] # NONE /\ used'[q] >= used[q]
  BY <1>8 DEF UsedBefore
<1>12. Forgotten'
  <2> SUFFICES ASSUME NEW q \in Runs, images'[q] = NONE PROVE ~ Owed(q)'
    BY DEF Forgotten
  <2>1. q # r
    BY <1>4, <1>6
  <2>2. q \notin keep
    BY <2>1, <1>3, <1>5 DEF Held
  <2>3. ~ Owed(q)
    BY <2>2, <1>1, DroppedNotOwed
  <2> QED
    BY <2>1, <2>3, <1>2, <1>7, <1>8, <1>11, NotOwedStays
<1> QED
  BY <1>7, <1>9, <1>10, <1>12

LEMMA StoreUntouched ==
    ASSUME StoreInv, UNCHANGED <<images_, used>>
    PROVE  StoreInv'
<1> USE DEF StoreInv, images_
<1>1. Typed' /\ Recorded' /\ UsedBefore'
  BY DEF Typed, TypeOK, Recorded, UsedBefore
<1>2. \A r \in Runs : Owed(r)' = Owed(r)
  BY DEF Owed
<1> QED
  BY <1>1, <1>2 DEF Forgotten

LEMMA PassKeeps ==
    ASSUME StoreInv, Pass
    PROVE  StoreInv'
<1> USE DEF StoreInv, Pass, Tick
<1>2. images' = images /\ used' = used /\ now' = now + 1 /\ now \in Nat /\ now <= now'
  BY DEF Typed, TypeOK
<1>1. Typed' /\ Recorded' /\ UsedBefore'
  <2>1. Typed' /\ Recorded'
    BY <1>2 DEF Recorded, Typed, TypeOK
  <2>2. \A r \in Runs : used[r] # NONE => used[r] \in Nat /\ used[r] <= now
    BY DEF UsedBefore, Typed
  <2> QED
    BY <1>2, <2>1, <2>2 DEF UsedBefore
<1>3. \A q \in Runs : used[q] # NONE => used'[q] # NONE /\ used'[q] >= used[q]
  <2>1. used \in [Runs -> Nat \cup {NONE}]
    BY DEF Typed
  <2> QED
    BY ONLY <1>2, <2>1
<1>4. Forgotten'
  <2> SUFFICES ASSUME NEW r \in Runs, images'[r] = NONE PROVE ~ Owed(r)'
    BY DEF Forgotten
  <2>1. ~ Owed(r)
    BY <1>2 DEF Forgotten
  <2> QED
    BY <2>1, <1>1, <1>2, <1>3, NotOwedStays
<1> QED
  BY <1>1, <1>4

LEMMA ReloadKeeps ==
    ASSUME StoreInv, Reload
    PROVE  StoreInv'
BY DEF StoreInv, Reload, Typed, TypeOK, Recorded, UsedBefore, Forgotten, Owed

LEMMA NextStore ==
    ASSUME IInv, [UNext]_vars
    PROVE  StoreInv'
<1> USE DEF IInv
<1>1. ASSUME NEW c \in Convs, NEW r \in Runs, Look(c, r) PROVE StoreInv'
  <2>1. \E found : Find(r, found) \/ FindOld(c, r, found)
    BY <1>1 DEF Look
  <2> QED
    BY <2>1, FindKeeps, StoreUntouched DEF FindOld
<1>2. ASSUME NEW c \in Convs, Analyze(c) PROVE StoreInv'
  <2>1. run[c] \in Runs
    BY <1>2 DEF Analyze, HasRun, Waiting
  <2> QED
    BY <2>1, <1>2, PutKeeps, StoreUntouched DEF Analyze
<1>3. ASSUME NEW c \in Convs,
             \/ \E t \in Texts : Ask(c, t)
             \/ Attach(c) \/ Receive(c) \/ Scene(c) \/ Abandon(c) \/ Photograph(c)
             \/ \E a \in Answers, arrives \in BOOLEAN : Respond(c, a, arrives)
      PROVE  StoreInv'
  <2>1. UNCHANGED <<images_, used>>
    BY <1>3 DEF Ask, Attach, Receive, Start, Scene, Abandon, Photograph, Respond
  <2> QED
    BY <2>1, StoreUntouched
<1>4. CASE UNCHANGED vars
  BY <1>4, StoreUntouched DEF vars
<1> QED
  BY <1>1, <1>2, <1>3, <1>4, PassKeeps, ReloadKeeps DEF UNext

(* The conversations' part: nobody waits without a run.                     *)
LEMMA NextKinds ==
    ASSUME IInv, [UNext]_vars
    PROVE  Kinds' /\ HasRun'
<1> USE DEF IInv, Kinds
<1>1. ASSUME NEW c \in Convs, NEW t \in Texts, Ask(c, t) PROVE Kinds' /\ HasRun'
  <2>1. \E r \in Runs : run' = [run EXCEPT ![c] = r]
    BY <1>1 DEF Ask
  <2>2. pc' = [pc EXCEPT ![c] = "asked"] /\ DOMAIN talk' = Convs
           /\ UNCHANGED <<inline, request, looks, old>>
    BY <1>1 DEF Ask, To, call
  <2> QED
    BY <2>1, <2>2 DEF Waiting, HasRun
<1>2. ASSUME NEW c \in Convs, pc[c] # "idle", run' = run,
             \E step \in Waiting \cup {"idle"} : To(c, step)
      PROVE  HasRun' /\ DOMAIN pc' = Convs /\ DOMAIN run' = Convs
                /\ \A d \in Convs : pc'[d] \in Waiting \cup {"idle"}
  BY <1>2 DEF To, HasRun
<1>3. ASSUME NEW c \in Convs,
             Attach(c) \/ Receive(c) \/ Scene(c) \/ Abandon(c) \/ Photograph(c) \/ Analyze(c)
      PROVE  Kinds' /\ HasRun'
  <2>1. /\ UNCHANGED <<talk, run>> /\ DOMAIN inline' = Convs /\ DOMAIN request' = Convs
        /\ DOMAIN looks' = Convs /\ DOMAIN old' = Convs
        /\ \A d \in Convs : inline'[d] \subseteq Runs
    <3>1. Attach(c) => inline' = [inline EXCEPT ![c] = inline[c] \cup {run[c]}] /\ run[c] \in Runs
      BY DEF Attach, HasRun, Waiting
    <3> QED
      BY <1>3, <3>1 DEF Attach, Receive, Start, Scene, Abandon, Photograph, Analyze, Forget, device, call
  <2>2. CASE Attach(c)
    BY <2>1, <2>2 DEF Attach, HasRun
  <2>3. CASE ~ Attach(c)
    <3>1. pc[c] # "idle" /\ \E step \in Waiting \cup {"idle"} : To(c, step)
      BY <1>3, <2>3 DEF Receive, Start, Scene, Abandon, Photograph, Analyze, Waiting
    <3> QED
      BY <2>1, <3>1, <1>2
  <2> QED
    BY <2>2, <2>3
<1>4. ASSUME NEW c \in Convs, NEW a \in Answers, NEW arrives \in BOOLEAN, Respond(c, a, arrives)
      PROVE  Kinds' /\ HasRun'
  <2>1. /\ UNCHANGED <<inline, run>> /\ DOMAIN talk' = Convs /\ DOMAIN request' = Convs
        /\ DOMAIN looks' = Convs /\ DOMAIN old' = Convs
        /\ pc[c] # "idle" /\ To(c, "idle")
    BY <1>4 DEF Respond, Forget
  <2> QED
    BY <2>1, <1>2
<1>5. ASSUME NEW c \in Convs, NEW r \in Runs, Look(c, r) PROVE Kinds' /\ HasRun'
  <2>1. /\ UNCHANGED device /\ DOMAIN request' = Convs
        /\ DOMAIN looks' = Convs /\ DOMAIN old' = Convs /\ pc[c] = "looking"
    BY <1>5 DEF Look
  <2>2. To(c, "chat") \/ pc' = pc
    BY <1>5 DEF Look
  <2>3. CASE To(c, "chat")
    BY <2>1, <2>3, <1>2 DEF Waiting, device
  <2>4. CASE pc' = pc
    BY <2>1, <2>4 DEF HasRun, device
  <2> QED
    BY <2>2, <2>3, <2>4
<1>6. CASE Reload \/ Pass \/ UNCHANGED vars
  BY <1>6 DEF Reload, Pass, vars, device, call, HasRun
<1> QED
  BY <1>1, <1>3, <1>4, <1>5, <1>6 DEF UNext

LEMMA Invariance == USpec => []IInv
<1>1. IInv /\ [UNext]_vars => IInv'
  BY NextStore, NextKinds DEF IInv
<1> QED
  BY <1>1, InitIInv, PTL DEF USpec

-----------------------------------------------------------------------------
(* The device's turns: requests with a run each and answers without one, a  *)
(* request first; the question a conversation waits for is its last turn,   *)
(* and no earlier turn is of its run.                                       *)
Turn == {t \in [role : {"user", "assistant"}, run : Runs \cup {NoRun}, text : Texts \cup Answers] :
            t.role = "user" <=> t.run # NoRun}

TalkOf(turns, r, step) ==
    /\ turns \in Seq(Turn)
    /\ turns # << >> => turns[1].role = "user"
    /\ step \in Waiting => /\ turns # << >> /\ turns[Len(turns)].run = r
                           /\ \A i \in 1 .. Len(turns) - 1 : turns[i].run # r

TalkOK == DOMAIN talk = Convs /\ \A c \in Convs : TalkOf(talk[c], run[c], pc[c])

LEMMA Appended ==
    ASSUME NEW turns \in Seq(Turn), NEW u \in Turn
    PROVE  /\ Append(turns, u) \in Seq(Turn) /\ Append(turns, u) # << >>
           /\ Len(Append(turns, u)) = Len(turns) + 1 /\ Append(turns, u)[Len(turns) + 1] = u
           /\ \A i \in 1 .. Len(turns) : Append(turns, u)[i] = turns[i]
           /\ Len(turns) \in Nat
<1> HIDE DEF Turn
<1> QED OBVIOUS

LEMMA NoRunIsNoRun == NoRun \notin Runs
OBVIOUS

LEMMA AskTalk ==
    ASSUME IInv, TalkOK, NEW c \in Convs, NEW t \in Texts, Ask(c, t)
    PROVE  TalkOK'
<1> USE DEF IInv, Kinds, TalkOK
<1>1. PICK r \in Runs :
         /\ \A q \in Runs : q < r <=> \E d \in Convs : \E i \in DOMAIN talk[d] : talk[d][i].run = q
         /\ run' = [run EXCEPT ![c] = r]
         /\ talk' = [talk EXCEPT ![c] = Append(talk[c], UserTurn(r, t))]
      BY DEF Ask
<1>2. pc' = [pc EXCEPT ![c] = "asked"] BY DEF Ask, To
<1>3. \A i \in 1 .. Len(talk[c]) : talk[c][i].run # r
  <2>1. ~ (r < r) BY <1>1
  <2>2. ~ \E i \in DOMAIN talk[c] : talk[c][i].run = r BY <1>1, <2>1
  <2>3. DOMAIN talk[c] = 1 .. Len(talk[c]) BY DEF TalkOf
  <2> QED BY <2>2, <2>3
<1>4. PICK u : u = UserTurn(r, t) OBVIOUS
<1>5. u \in Turn /\ u.run = r /\ u.role = "user"
      BY <1>4, NoRunIsNoRun DEF UserTurn, Turn
<1>6. talk'[c] = Append(talk[c], u) /\ run'[c] = r /\ pc'[c] = "asked" BY <1>1, <1>2, <1>4
<1>7. /\ talk'[c] \in Seq(Turn) /\ talk'[c] # << >> /\ Len(talk'[c]) = Len(talk[c]) + 1
      /\ talk'[c][Len(talk'[c])] = u
      /\ \A i \in 1 .. Len(talk[c]) : talk'[c][i] = talk[c][i]
      BY <1>5, <1>6, Appended DEF TalkOf
<1>8. talk'[c][1].role = "user"
  <2>1. CASE talk[c] = << >> BY <2>1, <1>5, <1>7
  <2>2. CASE talk[c] # << >>
    <3>1. 1 \in 1 .. Len(talk[c]) /\ talk[c][1].role = "user" BY <2>2 DEF TalkOf
    <3> QED BY <3>1, <1>7
  <2> QED BY <2>1, <2>2
<1>9. \A d \in Convs \ {c} : talk'[d] = talk[d] /\ run'[d] = run[d] /\ pc'[d] = pc[d]
      BY <1>1, <1>2
<1>10. \A i \in 1 .. Len(talk'[c]) - 1 : talk'[c][i].run # run'[c] BY <1>3, <1>6, <1>7
<1>11. DOMAIN talk' = Convs BY <1>1
<1>12. TalkOf(talk'[c], run'[c], pc'[c]) BY <1>5, <1>6, <1>7, <1>8, <1>10 DEF TalkOf
<1> QED BY <1>9, <1>11, <1>12

LEMMA RespondTalk ==
    ASSUME IInv, TalkOK, NEW c \in Convs, NEW a \in Answers, NEW arrives \in BOOLEAN,
           Respond(c, a, arrives)
    PROVE  TalkOK'
<1> USE DEF IInv, Kinds, TalkOK
<1>1. pc[c] = "chat" /\ pc' = [pc EXCEPT ![c] = "idle"] /\ run' = run BY DEF Respond, To
<1>2. talk' = talk \/ talk' = [talk EXCEPT ![c] = Append(talk[c], AnswerTurn(a))]
      BY DEF Respond
<1>3. pc'[c] = "idle" /\ "idle" \notin Waiting BY <1>1 DEF Waiting
<1>4. \A d \in Convs \ {c} : talk'[d] = talk[d] /\ run'[d] = run[d] /\ pc'[d] = pc[d]
      BY <1>1, <1>2
<1>5. talk'[c] \in Seq(Turn) /\ (talk'[c] # << >> => talk'[c][1].role = "user")
  <2>1. talk[c] \in Seq(Turn) /\ talk[c] # << >> /\ talk[c][1].role = "user"
        BY <1>1 DEF Waiting, TalkOf
  <2>2. AnswerTurn(a) \in Turn BY DEF AnswerTurn, Turn
  <2>3. Append(talk[c], AnswerTurn(a)) \in Seq(Turn)
        /\ Append(talk[c], AnswerTurn(a))[1] = talk[c][1]
        BY <2>1, <2>2, Appended
  <2> QED BY <2>1, <2>3, <1>2
<1>6. DOMAIN talk' = Convs BY <1>2
<1>7. TalkOf(talk'[c], run'[c], pc'[c]) BY <1>3, <1>5 DEF TalkOf
<1> QED BY <1>4, <1>6, <1>7

(* A step that leaves turns and runs alone, and sets nobody waiting.        *)
LEMMA QuietTalk ==
    ASSUME TalkOK, UNCHANGED <<talk, run>>,
           \A c \in Convs : pc'[c] \in Waiting => pc[c] \in Waiting
    PROVE  TalkOK'
BY DEF TalkOK, TalkOf

LEMMA NextTalk == IInv /\ TalkOK /\ [UNext]_vars => TalkOK'
<1> SUFFICES ASSUME IInv, TalkOK, [UNext]_vars PROVE TalkOK'
  OBVIOUS
<1>1. ASSUME NEW c \in Convs,
             \/ Attach(c) \/ Receive(c) \/ Scene(c) \/ Abandon(c) \/ Photograph(c) \/ Analyze(c)
             \/ \E r \in Runs : Look(c, r)
      PROVE  TalkOK'
  <2>1. UNCHANGED <<talk, run>> /\ pc[c] \in Waiting /\ (pc' = pc \/ \E step : To(c, step))
        BY <1>1 DEF Attach, Receive, Start, Scene, Abandon, Photograph, Analyze, Look, Waiting,
                    device, IInv, Kinds
  <2>2. \A d \in Convs : pc'[d] \in Waiting => pc[d] \in Waiting
        BY <2>1 DEF To, IInv, Kinds
  <2> QED BY <2>1, <2>2, QuietTalk
<1>2. CASE Reload \/ Pass \/ UNCHANGED vars
      BY <1>2, QuietTalk DEF Reload, Pass, vars, device
<1> QED BY <1>1, <1>2, AskTalk, RespondTalk DEF UNext

LEMMA TalkInvariance == USpec => []TalkOK
<1>1. UInit => TalkOK
      BY DEF UInit, TalkOK, TalkOf, Waiting
<1> QED BY <1>1, Invariance, NextTalk, PTL DEF USpec

-----------------------------------------------------------------------------
(* What extract_history and extract_conversation_id make of the turns of a  *)
(* conversation that waits.                                                 *)
LEMMA EarlierIsFront ==
    ASSUME IInv, TalkOK, NEW c \in Convs, pc[c] \in Waiting
    PROVE  /\ Earlier(talk[c]) = SubSeq(talk[c], 1, Len(talk[c]) - 1)
           /\ History(talk[c]) = Said(c, run[c])
<1> DEFINE t == talk[c]
           n == Len(t)
<1>1. t \in Seq(Turn) /\ n \in Nat \ {0} /\ t[n] \in Turn /\ DOMAIN t = 1 .. n /\ t[n].run = run[c]
      /\ \A i \in 1 .. n - 1 : t[i].run # run[c]
      BY DEF TalkOK, TalkOf
<1>2. t[n].role = "user"
      BY <1>1, NoRunIsNoRun DEF IInv, HasRun, Turn
<1>3. n \in UserIndices(t) /\ UserIndices(t) \subseteq 1 .. n BY <1>1, <1>2 DEF UserIndices
<1> HIDE DEF t, n
<1>4. LastUser(t) = n
  <2>1. \A i \in UserIndices(t) : n >= i BY <1>3, <1>1
  <2>2. \A x \in UserIndices(t) : (\A i \in UserIndices(t) : x >= i) => x = n
        BY <2>1, <1>3, <1>1
  <2> QED BY <2>1, <2>2, <1>3 DEF LastUser, Max
<1>5. Earlier(t) = SubSeq(t, 1, n - 1)
  <2>1. Earlier(t) = RemoveAt(t, n) BY <1>3, <1>4 DEF Earlier
  <2>2. RemoveAt(t, n) = SubSeq(t, 1, n - 1) \o SubSeq(t, n + 1, n) BY <1>1 DEF RemoveAt, n
  <2>3. SubSeq(t, n + 1, n) = << >> BY <1>1
  <2>4. SubSeq(t, 1, n - 1) \in Seq(Turn) BY <1>1
  <2>5. SubSeq(t, 1, n - 1) \o << >> = SubSeq(t, 1, n - 1) BY <2>4
  <2> QED BY <2>1, <2>2, <2>3, <2>5
<1>6. {i \in DOMAIN t : \A j \in 1 .. i : t[j].run # run[c]} = 1 .. n - 1
      BY <1>1
<1>7. Cardinality(1 .. n - 1) = n - 1
  <2>1. Cardinality(1 .. n - 1) = IF 1 > n - 1 THEN 0 ELSE (n - 1) - 1 + 1
        BY <1>1, FS_Interval
  <2> QED BY <2>1, <1>1
<1>8. Said(c, run[c]) = Pairs(Spoken(SubSeq(t, 1, n - 1))) BY <1>6, <1>7 DEF Said, t
<1>9. History(t) = Pairs(Spoken(SubSeq(t, 1, n - 1))) BY <1>5 DEF History
<1> QED BY <1>5, <1>8, <1>9 DEF t, n

LEMMA IdIsFirst ==
    ASSUME IInv, TalkOK, NEW c \in Convs, pc[c] \in Waiting
    PROVE  ConversationId(talk[c], run[c]) = talk[c][1].run
<1> DEFINE t == talk[c]
           named == {i \in UserIndices(t) : t[i].run # NoRun}
<1>1. t \in Seq(Turn) /\ t # << >> /\ t[1].role = "user" BY DEF TalkOK, TalkOf
<1>2. 1 \in DOMAIN t /\ DOMAIN t = 1 .. Len(t) /\ Len(t) \in Nat BY <1>1
<1>3. t[1] \in Turn BY <1>1, <1>2
<1>4. t[1].run # NoRun BY <1>1, <1>3 DEF Turn
<1>5. 1 \in named BY <1>1, <1>2, <1>4 DEF UserIndices
<1>6. \A i \in named : i \in Nat /\ 1 <= i BY <1>2 DEF UserIndices
<1> HIDE DEF t, named
<1>7. Min(named) = 1
  <2>1. \A x \in named : (\A i \in named : x <= i) => x = 1 BY <1>5, <1>6
  <2> QED BY <2>1, <1>5, <1>6 DEF Min
<1>8. FirstUser(t) = 1 BY <1>7 DEF FirstUser, named
<1>9. ~ \A i \in UserIndices(t) : t[i].run = NoRun BY <1>5 DEF named
<1> QED BY <1>8, <1>9 DEF ConversationId, t

(* The earlier questions are turns before the last, and of other runs.      *)
LEMMA EarlierRuns ==
    ASSUME IInv, TalkOK, NEW c \in Convs, pc[c] \in Waiting
    PROVE  /\ run[c] \notin Pictured(talk[c])
           /\ \A r \in Pictured(talk[c]) : \E i \in 1 .. Len(talk[c]) - 1 : talk[c][i].run = r
           /\ \A i \in 1 .. Len(talk[c]) - 1 :
                 talk[c][i].run \in Runs /\ talk[c][i].text # Silence
                     => talk[c][i].run \in Pictured(talk[c])
<1> DEFINE t == talk[c]
           n == Len(t)
           e == SubSeq(t, 1, n - 1)
<1>1. t \in Seq(Turn) /\ n \in Nat \ {0} /\ \A i \in 1 .. n - 1 : t[i].run # run[c] /\ t[i] \in Turn
      BY DEF TalkOK, TalkOf
<1>2. Earlier(t) = e BY EarlierIsFront
<1>3. Len(e) = n - 1 /\ \A i \in 1 .. n - 1 : e[i] = t[i] BY <1>1
<1>4. ToSet(e) = {t[i] : i \in 1 .. n - 1}
  <2>1. DOMAIN e = 1 .. n - 1 BY <1>1
  <2> QED BY <2>1, <1>3 DEF ToSet
<1>5. Pictured(t) = {u.run : u \in {v \in ToSet(e) : v.role = "user" /\ v.text # Silence}} \ {NoRun}
      BY <1>2 DEF Pictured
<1> HIDE DEF t, n, e
<1>6. \A r \in Pictured(t) : \E i \in 1 .. n - 1 : t[i].run = r BY <1>4, <1>5
<1>7. \A i \in 1 .. n - 1 : t[i].run \in Runs => t[i].role = "user" /\ t[i].run # NoRun
      BY <1>1, NoRunIsNoRun DEF Turn
<1>8. \A i \in 1 .. n - 1 : t[i].run \in Runs /\ t[i].text # Silence => t[i].run \in Pictured(t)
      BY <1>4, <1>5, <1>7
<1> QED BY <1>1, <1>6, <1>8 DEF t, n

-----------------------------------------------------------------------------
(* A conversation's call is left alone by every step that is not its own    *)
(* look or its end.                                                         *)
Called(c) == pc[c] \in {"looking", "chat"}

LEMMA Steady ==
    ASSUME IInv, [UNext]_vars, NEW c \in Convs, Called(c), Called(c)',
           \A r \in Runs : ~ Look(c, r)
    PROVE  /\ request'[c] = request[c] /\ looks'[c] = looks[c] /\ pc'[c] = pc[c]
           /\ talk'[c] = talk[c] /\ run'[c] = run[c] /\ inline'[c] = inline[c]
<1> USE DEF IInv, Kinds, Called
<1>1. CASE Reload \/ Pass \/ UNCHANGED vars
  BY <1>1 DEF Reload, Pass, vars, device, call
<1>2. ASSUME NEW d \in Convs,
             \/ \E t \in Texts : Ask(d, t)
             \/ Attach(d) \/ Receive(d) \/ Scene(d) \/ Abandon(d) \/ Photograph(d) \/ Analyze(d)
             \/ \E a \in Answers, arrives \in BOOLEAN : Respond(d, a, arrives)
      PROVE  /\ d # c /\ talk'[c] = talk[c] /\ run'[c] = run[c] /\ inline'[c] = inline[c]
             /\ request'[c] = request[c] /\ looks'[c] = looks[c] /\ pc'[c] = pc[c]
  <2>1. d # c
    <3>1. ~ \E step \in {"idle", "scene", "photo", "asked"} : To(c, step)
      BY DEF To
    <3>2. ~ Receive(c) /\ ~ Attach(c)
      BY DEF Receive, Start, Attach
    <3> QED
      BY <3>1, <3>2, <1>2 DEF Ask, Scene, Abandon, Photograph, Analyze, Respond
  <2> QED
    BY <2>1, <1>2 DEF Ask, Attach, Receive, Start, Scene, Abandon, Photograph, Analyze, Respond,
                      To, Forget, device, call
<1>3. ASSUME NEW d \in Convs, NEW r \in Runs, Look(d, r)
      PROVE  /\ d # c /\ talk'[c] = talk[c] /\ run'[c] = run[c] /\ inline'[c] = inline[c]
             /\ request'[c] = request[c] /\ looks'[c] = looks[c] /\ pc'[c] = pc[c]
  <2>1. d # c
    BY <1>3
  <2>2. UNCHANGED device /\ looks' = [looks EXCEPT ![d] = @ \ {r}]
           /\ (pc' = pc \/ pc' = [pc EXCEPT ![d] = "chat"])
    BY <1>3 DEF Look, To
  <2>3. request'[c] = request[c]
    BY <1>3, <2>1 DEF Look
  <2> QED
    BY <2>1, <2>2, <2>3 DEF device
<1> QED
  BY <1>1, <1>2, <1>3 DEF UNext

(* Only a request and its looks take a question to the agent.               *)
LEMMA OnlyCalls ==
    ASSUME IInv, [UNext]_vars, NEW c \in Convs, ~ Called(c), Called(c)'
    PROVE  Receive(c)
<1> USE DEF IInv, Kinds, Called
<1>1. ASSUME NEW d \in Convs, NEW step, To(d, step), step \notin {"looking", "chat"} PROVE FALSE
  BY <1>1 DEF To
<1>2. ASSUME NEW d \in Convs, Receive(d) PROVE d = c
  BY <1>2 DEF Receive, Start, To
<1>3. ~ Reload /\ ~ Pass /\ ~ UNCHANGED vars /\ \A d \in Convs : ~ Attach(d)
  BY DEF Reload, Pass, vars, Attach
<1>4. ASSUME NEW d \in Convs,
             \/ \E t \in Texts : Ask(d, t)
             \/ Scene(d) \/ Abandon(d) \/ Photograph(d) \/ Analyze(d)
             \/ \E a \in Answers, arrives \in BOOLEAN : Respond(d, a, arrives)
      PROVE  FALSE
  BY <1>1, <1>4 DEF Ask, Scene, Abandon, Photograph, Analyze, Respond
<1>5. ASSUME NEW d \in Convs, NEW r \in Runs, Look(d, r) PROVE FALSE
  <2>1. pc[d] = "looking" /\ d # c /\ (pc' = pc \/ To(d, "chat"))
    BY <1>5 DEF Look
  <2> QED
    BY <2>1 DEF To
<1> QED
  BY <1>2, <1>3, <1>4, <1>5 DEF UNext

(* What a look finds is the run's own picture.                              *)
LEMMA FoundIsOwn ==
    ASSUME IInv, NEW c, NEW r \in Runs, NEW found,
           IF old[c] = NONE THEN Find(r, found) ELSE FindOld(c, r, found)
    PROVE  found \in {NONE, r}
<1>1. CASE Find(r, found)
  <2>1. PICK keep \in SUBSET Runs :
           Pruned(keep) /\ found = IF r \in keep THEN images[r].bytes ELSE NONE
    BY <1>1 DEF Find, GetRefresh
  <2>2. r \in keep => images[r] # NONE
    BY <2>1 DEF Pruned, Fresh, Held
  <2> QED
    BY <2>1, <2>2 DEF IInv, StoreInv, Recorded
<1>2. CASE FindOld(c, r, found)
  BY <1>2 DEF FindOld
<1> QED
  BY <1>1, <1>2

(* What a call has for the agent so far, and what it has still to look for: *)
(* pictures of earlier questions only beside the history, and the           *)
(* question's own look last, unless a picture was sent inline.              *)
ShownIn(c, q, left) ==
    /\ q = [history |-> History(talk[c]), id |-> ConversationId(talk[c], run[c]),
            pictures |-> q.pictures, image |-> q.image]
    /\ \A p \in q.pictures : \E r \in Pictured(talk[c]) : p = <<r, r>>
    /\ \A r \in Pictured(talk[c]) \cap inline[c] : <<r, r>> \in q.pictures
    /\ left \subseteq Pictured(talk[c]) \cup {run[c]}
    /\ IF Inlined(c) = {} THEN q.image \in {NONE, run[c]}
       ELSE q.image = MostRecent(c) /\ run[c] \notin left

Shown == \A c \in Convs : Called(c) =>
            /\ ShownIn(c, request[c], looks[c])
            /\ pc[c] = "looking" /\ Inlined(c) = {} => run[c] \in looks[c]

LEMMA StartShows ==
    ASSUME IInv, TalkOK, NEW c \in Convs, Receive(c)
    PROVE  /\ ShownIn(c, request'[c], looks'[c])
           /\ pc'[c] = "looking" /\ Inlined(c) = {} => run[c] \in looks'[c]
           /\ Inlined(c) = {} => pc'[c] = "looking"
<1> DEFINE left == OfEarlier(c) \cup IF Inlined(c) = {} THEN {run[c]} ELSE {}
<1>1. Start(c, left) /\ DOMAIN request = Convs /\ DOMAIN looks = Convs /\ DOMAIN pc = Convs
  BY DEF Receive, IInv, Kinds
<1>2. /\ looks'[c] = left /\ pc'[c] = IF left = {} THEN "chat" ELSE "looking"
      /\ request'[c] = [history |-> History(talk[c]), id |-> ConversationId(talk[c], run[c]),
                        pictures |-> {<<r, r>> : r \in Pictured(talk[c]) \cap inline[c]},
                        image |-> MostRecent(c)]
  BY <1>1 DEF Start, To
<1>3. run[c] \notin Pictured(talk[c])
  BY EarlierRuns DEF Start, Receive, Waiting
<1>4. Inlined(c) = {} => MostRecent(c) = NONE
  BY DEF MostRecent
<1>5. ShownIn(c, request'[c], looks'[c])
  BY <1>2, <1>3, <1>4 DEF ShownIn, OfEarlier
<1> QED
  BY <1>2, <1>5

LEMMA LookShows ==
    ASSUME IInv, NEW c \in Convs, NEW r \in Runs, Look(c, r), ShownIn(c, request[c], looks[c]),
           Inlined(c) = {} => run[c] \in looks[c]
    PROVE  /\ ShownIn(c, request'[c], looks'[c])
           /\ pc'[c] = "looking" /\ Inlined(c) = {} => run[c] \in looks'[c]
<1> DEFINE q == request[c]
<1>1. PICK found \in Frames \cup {NONE} :
        /\ IF old[c] = NONE THEN Find(r, found) ELSE FindOld(c, r, found)
        /\ request' = IF found = NONE THEN request
                      ELSE IF r = run[c] THEN [request EXCEPT ![c].image = found]
                      ELSE [request EXCEPT ![c].pictures = @ \cup {<<r, found>>}]
  BY DEF Look
<1>2. found \in {NONE, r}
  BY <1>1, FoundIsOwn
<1>3. DOMAIN request = Convs /\ looks'[c] = looks[c] \ {r} /\ pc[c] = "looking" /\ DOMAIN pc = Convs
  BY DEF Look, IInv, Kinds
<1>4. IsNext(c, r)
  BY DEF Look
<1>5. q = [history |-> q.history, id |-> q.id, pictures |-> q.pictures, image |-> q.image]
  BY DEF ShownIn
<1>6. ASSUME found = NONE PROVE ShownIn(c, request'[c], looks'[c])
  BY <1>1, <1>3, <1>6 DEF ShownIn
<1>7. ASSUME found # NONE, r = run[c] PROVE ShownIn(c, request'[c], looks'[c])
  <2>1. request'[c] = [q EXCEPT !.image = r]
    BY <1>1, <1>2, <1>3, <1>7
  <2>2. request'[c] = [history |-> q.history, id |-> q.id, pictures |-> q.pictures, image |-> r]
    BY <2>1, <1>5
  <2>3. Inlined(c) = {}
    BY <1>4, <1>7 DEF ShownIn, IsNext
  <2> QED
    BY <1>3, <1>7, <2>2, <2>3 DEF ShownIn
<1>8. ASSUME found # NONE, r # run[c] PROVE ShownIn(c, request'[c], looks'[c])
  <2>1. request'[c] = [q EXCEPT !.pictures = q.pictures \cup {<<r, r>>}]
    BY <1>1, <1>2, <1>3, <1>8
  <2>2. request'[c] = [history |-> q.history, id |-> q.id,
                       pictures |-> q.pictures \cup {<<r, r>>}, image |-> q.image]
    BY <2>1, <1>5
  <2>3. r \in Pictured(talk[c])
    BY <1>4, <1>8 DEF ShownIn, IsNext
  <2>4. /\ request'[c].pictures = q.pictures \cup {<<r, r>>} /\ request'[c].image = q.image
        /\ request'[c].history = q.history /\ request'[c].id = q.id
    BY <2>2
  <2>5. \A p \in request'[c].pictures : \E u \in Pictured(talk[c]) : p = <<u, u>>
    BY <2>3, <2>4 DEF ShownIn
  <2>6. request'[c] = [history |-> History(talk[c]), id |-> ConversationId(talk[c], run[c]),
                       pictures |-> request'[c].pictures, image |-> request'[c].image]
    BY <2>2, <2>4 DEF ShownIn
  <2> QED
    BY <1>3, <2>4, <2>5, <2>6 DEF ShownIn
<1>9. pc'[c] = "looking" => looks[c] # {r}
  BY <1>3 DEF Look, To
<1>10. pc'[c] = "looking" /\ Inlined(c) = {} => run[c] \in looks'[c]
  BY <1>3, <1>4, <1>9 DEF IsNext
<1> QED
  BY <1>6, <1>7, <1>8, <1>10

LEMMA NextShown == IInv /\ TalkOK /\ Shown /\ [UNext]_vars => Shown'
<1> SUFFICES ASSUME IInv, TalkOK, Shown, [UNext]_vars, NEW c \in Convs, Called(c)'
             PROVE  /\ ShownIn(c, request[c], looks[c])'
                    /\ (pc[c] = "looking" /\ Inlined(c) = {} => run[c] \in looks[c])'
  BY DEF Shown
<1>1. ASSUME talk'[c] = talk[c], run'[c] = run[c], inline'[c] = inline[c]
      PROVE  Inlined(c)' = Inlined(c) /\ MostRecent(c)' = MostRecent(c)
  <2>1. Inlined(c)' = Inlined(c)
    BY <1>1 DEF Inlined
  <2> QED
    BY <1>1, <2>1 DEF MostRecent
<1>2. CASE Receive(c)
  <2>1. talk' = talk /\ run' = run /\ inline' = inline
    BY <1>2 DEF Receive, Start, device
  <2> QED
    BY <1>1, <1>2, <2>1, StartShows DEF ShownIn
<1>3. ASSUME NEW r \in Runs, Look(c, r)
      PROVE  /\ ShownIn(c, request[c], looks[c])'
             /\ (pc[c] = "looking" /\ Inlined(c) = {} => run[c] \in looks[c])'
  <2>1. talk' = talk /\ run' = run /\ inline' = inline /\ pc[c] = "looking"
    BY <1>3 DEF Look, device
  <2>2. ShownIn(c, request[c], looks[c]) /\ (Inlined(c) = {} => run[c] \in looks[c])
    BY <2>1 DEF Shown, Called
  <2> QED
    BY <1>1, <1>3, <2>1, <2>2, LookShows DEF ShownIn
<1>4. CASE ~ Receive(c) /\ \A r \in Runs : ~ Look(c, r)
  <2>1. Called(c)
    BY <1>4, OnlyCalls
  <2>2. /\ request'[c] = request[c] /\ looks'[c] = looks[c] /\ pc'[c] = pc[c]
        /\ talk'[c] = talk[c] /\ run'[c] = run[c] /\ inline'[c] = inline[c]
    BY <1>4, <2>1, Steady
  <2> QED
    BY <1>1, <2>1, <2>2 DEF Shown, ShownIn
<1> QED
  BY <1>2, <1>3, <1>4

LEMMA ShownInvariance == USpec => []Shown
<1>1. UInit => Shown
  BY DEF UInit, Shown, Called
<1> QED
  BY <1>1, NextShown, Invariance, TalkInvariance, PTL DEF USpec

-----------------------------------------------------------------------------
(* A question whose picture was taken under the present handlers reaches    *)
(* the agent with it, unless the picture is too old or enough other runs    *)
(* were used since, or one was sent inline: whatever the other              *)
(* conversations store and look up between this question's own looks, and   *)
(* however the store breaks ties.                                           *)
THEOREM PicturesAreUsed == USpec => PictureIsUsed
<1>1. ASSUME IInv, TalkOK, Shown, [UNext]_vars
      PROVE  [\A c \in Convs :
                 /\ pc[c] # "chat" /\ pc'[c] = "chat" /\ old[c] = NONE /\ Owed(run[c])
                 /\ \A i \in DOMAIN talk[c] : talk[c][i].run \notin inline[c]
                 => request'[c].image = run[c]]_vars
  <2> SUFFICES ASSUME NEW c \in Convs, pc[c] # "chat", pc'[c] = "chat", old[c] = NONE,
                      Owed(run[c]), \A i \in DOMAIN talk[c] : talk[c][i].run \notin inline[c]
               PROVE  request'[c].image = run[c]
    BY <1>1
  <2>1. Inlined(c) = {}
    BY DEF Inlined, UserIndices
  <2>2. ~ Receive(c)
    BY <1>1, <2>1, StartShows
  <2>3. Called(c) /\ Called(c)'
    BY <1>1, <2>2, OnlyCalls DEF Called
  <2>4. PICK r \in Runs : Look(c, r)
    BY <1>1, <2>3, Steady
  <2>5. ShownIn(c, request[c], looks[c]) /\ run[c] \in looks[c]
    BY <1>1, <2>1, <2>3, <2>4 DEF Shown, Look
  <2>6. looks[c] = {r}
    BY <2>4 DEF Look
  <2>7. r = run[c]
    BY <2>5, <2>6
  <2>8. PICK found \in Frames \cup {NONE} :
          /\ Find(r, found)
          /\ request' = IF found = NONE THEN request ELSE [request EXCEPT ![c].image = found]
    BY <2>4, <2>7 DEF Look
  <2>9. PICK keep \in SUBSET Runs :
          Pruned(keep) /\ found = IF r \in keep THEN images[r].bytes ELSE NONE
    BY <2>8 DEF Find, GetRefresh
  <2>10. r \in keep /\ images[r] # NONE
    BY <1>1, <2>7, <2>9, DroppedNotOwed DEF IInv, Pruned, Fresh, Held
  <2>11. found = r
    BY <1>1, <2>9, <2>10 DEF IInv, StoreInv, Recorded
  <2>12. request'[c] = [request[c] EXCEPT !.image = r]
    BY <1>1, <2>8, <2>11 DEF IInv, Kinds
  <2> QED
    BY <2>5, <2>7, <2>12 DEF ShownIn
<1> QED
  BY <1>1, Invariance, TalkInvariance, ShownInvariance, PTL DEF USpec, PictureIsUsed

(* What the agent is given for a question is all that was said before it,   *)
(* in order, under the id of the conversation's first run, with pictures of *)
(* the earlier questions beside their own words; with the question it is    *)
(* shown its own picture or none, or the last one sent inline               *)
(* (understand_inner).                                                      *)
THEOREM HearsConversation == USpec => []AgentHearsConversation
<1>1. ASSUME IInv, TalkOK, Shown PROVE AgentHearsConversation
  <2> SUFFICES ASSUME NEW c \in Convs, pc[c] = "chat"
               PROVE  LET carrying == {i \in DOMAIN talk[c] : talk[c][i].run \in inline[c]}
                      IN /\ request[c].history = Said(c, run[c])
                         /\ request[c].id = talk[c][1].run
                         /\ \A p \in request[c].pictures :
                               /\ p[1] = p[2]
                               /\ \E i \in 1 .. Len(talk[c]) - 1 : talk[c][i].run = p[1]
                         /\ \A i \in carrying : talk[c][i].text # Silence /\ i < Len(talk[c])
                               => <<talk[c][i].run, talk[c][i].run>> \in request[c].pictures
                         /\ IF carrying = {} THEN request[c].image \in {NONE, run[c]}
                            ELSE \A i \in carrying : (\A j \in carrying : j <= i)
                                                        => request[c].image = talk[c][i].run
    BY DEF AgentHearsConversation
  <2> DEFINE carrying == {i \in DOMAIN talk[c] : talk[c][i].run \in inline[c]}
  <2>1. ShownIn(c, request[c], looks[c])
    BY <1>1 DEF Shown, Called
  <2>2. pc[c] \in Waiting /\ inline[c] \subseteq Runs /\ talk[c] \in Seq(Turn)
    BY <1>1 DEF Waiting, IInv, Kinds, TalkOK, TalkOf
  <2>3. DOMAIN talk[c] = 1 .. Len(talk[c]) /\ Len(talk[c]) \in Nat
    BY <2>2
  <2>4. request[c].history = Said(c, run[c]) /\ request[c].id = talk[c][1].run
    <3>1. request[c].history = History(talk[c]) /\ request[c].id = ConversationId(talk[c], run[c])
      BY <2>1 DEF ShownIn
    <3> QED
      BY <1>1, <2>2, <3>1, EarlierIsFront, IdIsFirst
  <2>5. ASSUME NEW p \in request[c].pictures
        PROVE  p[1] = p[2] /\ \E i \in 1 .. Len(talk[c]) - 1 : talk[c][i].run = p[1]
    <3>1. PICK r \in Pictured(talk[c]) : p = <<r, r>>
      BY <2>1 DEF ShownIn
    <3> QED
      BY <1>1, <2>2, <3>1, EarlierRuns
  <2>6. ASSUME NEW i \in carrying, talk[c][i].text # Silence, i < Len(talk[c])
        PROVE  <<talk[c][i].run, talk[c][i].run>> \in request[c].pictures
    <3>1. i \in 1 .. Len(talk[c]) - 1 /\ talk[c][i].run \in Runs
      BY <2>2, <2>3, <2>6
    <3>2. talk[c][i].run \in Pictured(talk[c]) \cap inline[c]
      BY <1>1, <2>2, <2>6, <3>1, EarlierRuns
    <3> QED
      BY <2>1, <3>2 DEF ShownIn
  <2>7. carrying = Inlined(c)
    <3>1. \A i \in DOMAIN talk[c] : talk[c][i] \in Turn
      BY <2>2
    <3>2. \A i \in carrying : talk[c][i].role = "user"
      BY <2>2, <3>1, NoRunIsNoRun DEF Turn
    <3> QED
      BY <3>2 DEF Inlined, UserIndices
  <2>8. CASE carrying = {}
    BY <2>1, <2>4, <2>5, <2>6, <2>7, <2>8 DEF ShownIn
  <2>9. CASE carrying # {}
    <3>1. request[c].image = talk[c][Max(carrying)].run
      BY <2>1, <2>7, <2>9 DEF ShownIn, MostRecent
    <3>2. ASSUME NEW m \in carrying, \A j \in carrying : j <= m PROVE Max(carrying) = m
      <4>1. \A x \in carrying : (\A j \in carrying : x >= j) => x = m
        BY <2>3, <3>2
      <4>2. \A j \in carrying : m >= j
        BY <2>3, <3>2
      <4> QED
        BY <4>1, <4>2 DEF Max
    <3>3. \A i \in carrying : (\A j \in carrying : j <= i) => request[c].image = talk[c][i].run
      BY <3>1, <3>2
    <3> QED
      BY <2>4, <2>5, <2>6, <2>9, <3>3
    <2> QED
    BY <2>8, <2>9
<1> QED
  BY <1>1, Invariance, TalkInvariance, ShownInvariance, PTL
=============================================================================
