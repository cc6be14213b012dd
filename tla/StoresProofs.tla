---------------------------- MODULE StoresProofs ----------------------------
(* Proofs about the stores of the server: the live images, the log of the   *)
(* conversations, the memories of a device and the contacts, for any sets   *)
(* and bounds that the assumptions of their modules allow.                  *)
EXTENDS Stores, FiniteSetTheorems, WellFoundedInduction, SequenceTheorems, TLAPS

HistoryOK == /\ put \in [Runs -> Frames \cup {NONE}]
             /\ used \in [Runs -> Nat]
             /\ answer \in [Runs -> Frames \cup {NONE}]

(* An entry holds the last frame put for its run and the run's last use.    *)
ImagesRecorded == \A r \in Runs : images[r] # NONE =>
    /\ images[r].bytes = put[r]
    /\ images[r].last_access = used[r]

UsedBefore == \A r \in Runs : used[r] <= now

(* What the store no longer holds, it may forget.                           *)
ImagesForgotten == \A r \in Runs : images[r] = NONE => Promise!MayForget(r)

ImagesInv == /\ TypeOK /\ HistoryOK /\ ImagesRecorded /\ UsedBefore /\ ImagesForgotten
        /\ BoundedByOneMore

-----------------------------------------------------------------------------
LEMMA ImagesBegin == HInit => ImagesInv
<1> SUFFICES ASSUME HInit PROVE ImagesInv OBVIOUS
<1> USE ImagesAssumption DEF HInit, Init
<1>1. TypeOK /\ HistoryOK BY DEF TypeOK, HistoryOK
<1>2. ImagesRecorded /\ UsedBefore BY DEF ImagesRecorded, UsedBefore
<1>3. ImagesForgotten BY DEF ImagesForgotten, Promise!MayForget
<1>4. Held = {} BY DEF Held
<1>5. BoundedByOneMore BY <1>4, FS_EmptySet DEF BoundedByOneMore
<1> QED BY <1>1, <1>2, <1>3, <1>5 DEF ImagesInv

-----------------------------------------------------------------------------
(* The promise counts as FiniteSets does.                                   *)
LEMMA SameCount == \A S : Promise!Cardinality(S) = Cardinality(S)
BY DEF Promise!Cardinality, Cardinality, Promise!IsFiniteSet, IsFiniteSet

(* What pruning keeps is fresh, held, and no more than the cap.             *)
LEMMA KeptIsBounded ==
    ASSUME TypeOK, NEW keep, Pruned(keep)
    PROVE  /\ keep \subseteq Fresh /\ keep \subseteq Held /\ keep \subseteq Runs
           /\ IsFiniteSet(keep)
           /\ Cardinality(keep) \in Nat /\ Cardinality(keep) <= MaxImages
<1>1. keep \subseteq Fresh /\ keep \subseteq Held /\ keep \subseteq Runs
      BY DEF Pruned, Fresh, Held
<1>2. IsFiniteSet(keep) BY <1>1, ImagesAssumption, FS_Subset
<1>3. Cardinality(keep) \in Nat BY <1>2, FS_CardinalityType
<1>4. Cardinality(keep) <= MaxImages BY <1>3, ImagesAssumption DEF Pruned
<1> QED BY <1>1, <1>2, <1>3, <1>4

(* What pruning drops may be forgotten: it is too old, or everything kept   *)
(* was used no earlier.                                                     *)
LEMMA DroppedMayBeForgotten ==
    ASSUME ImagesInv, NEW keep, Pruned(keep), NEW d \in Runs, d \notin keep
    PROVE  Promise!MayForget(d)
<1> USE ImagesAssumption DEF ImagesInv
<1>1. CASE images[d] = NONE BY <1>1 DEF ImagesForgotten
<1>2. CASE images[d] # NONE /\ d \notin Fresh
  <2>1. now - images[d].last_access >= TTL
        BY <1>2 DEF Fresh, Held, TypeOK, Entry
  <2> QED BY <2>1, <1>2 DEF ImagesRecorded, Promise!MayForget, Promise!Expired
<1>3. CASE images[d] # NONE /\ d \in Fresh
  <2>1. /\ Cardinality(keep) = MaxImages
        /\ \A k \in keep : images[k].last_access >= images[d].last_access
        BY <1>3 DEF Pruned
  <2>2. keep \subseteq Promise!Rivals(d)
    <3> SUFFICES ASSUME NEW k \in keep PROVE k \in Promise!Rivals(d) OBVIOUS
    <3>1. k \in Runs /\ images[k] # NONE BY KeptIsBounded DEF Held
    <3>2. images[k] \in Entry BY <3>1 DEF TypeOK
    <3>3. put[k] # NONE BY <3>1, <3>2 DEF ImagesRecorded, Entry
    <3>4. used[k] >= used[d] BY <2>1, <3>1, <1>3 DEF ImagesRecorded
    <3> QED BY <3>1, <3>3, <3>4 DEF Promise!Rivals
  <2>3. IsFiniteSet(Promise!Rivals(d))
        BY FS_Subset DEF Promise!Rivals
  <2>4. Cardinality(Promise!Rivals(d)) >= MaxImages
    <3>1. Cardinality(keep) <= Cardinality(Promise!Rivals(d))
          BY <2>2, <2>3, FS_Subset
    <3> QED BY <3>1, <2>1
  <2> QED BY <2>4, SameCount DEF Promise!MayForget
<1> QED BY <1>1, <1>2, <1>3

(* Other runs being used and time passing never take the excuse away.       *)
LEMMA ExcuseStays ==
    ASSUME ImagesInv, NEW d \in Runs, Promise!MayForget(d),
           now' \in Nat, now <= now', used' \in [Runs -> Nat],
           put'[d] = put[d], used'[d] = used[d],
           \A q \in Runs : put[q] # NONE => put'[q] # NONE,
           \A q \in Runs : used[q] <= used'[q]
    PROVE  Promise!MayForget(d)'
<1> USE ImagesAssumption DEF ImagesInv, TypeOK, HistoryOK
<1>1. CASE put[d] = NONE BY <1>1 DEF Promise!MayForget
<1>2. CASE Promise!Expired(d)
  <2>1. Promise!Expired(d)' BY <1>2 DEF Promise!Expired
  <2> QED BY <2>1 DEF Promise!MayForget
<1>3. CASE Cardinality(Promise!Rivals(d)) >= MaxImages
  <2>1. Promise!Rivals(d) \subseteq Promise!Rivals(d)' BY DEF Promise!Rivals
  <2>2. IsFiniteSet(Promise!Rivals(d)') BY FS_Subset DEF Promise!Rivals
  <2>3. /\ Cardinality(Promise!Rivals(d)) <= Cardinality(Promise!Rivals(d)')
        /\ IsFiniteSet(Promise!Rivals(d))
        BY <2>1, <2>2, FS_Subset
  <2>4. /\ Cardinality(Promise!Rivals(d)) \in Nat
        /\ Cardinality(Promise!Rivals(d)') \in Nat
        BY <2>2, <2>3, FS_CardinalityType
  <2>5. Cardinality(Promise!Rivals(d)') >= MaxImages BY <1>3, <2>3, <2>4
  <2>6. Cardinality(Promise!Rivals(d))' >= MaxImages BY <2>5
  <2> QED BY <2>6, SameCount DEF Promise!MayForget
<1> QED BY <1>1, <1>2, <1>3, SameCount DEF Promise!MayForget

-----------------------------------------------------------------------------
LEMMA PutKeepsImagesInv ==
    ASSUME ImagesInv, NEW r \in Runs, NEW f \in Frames, HPut(r, f)
    PROVE  ImagesInv'
<1> USE ImagesAssumption DEF ImagesInv, HPut, Put
<1> PICK keep \in SUBSET Runs :
        /\ Pruned(keep)
        /\ images' = [Kept(keep) EXCEPT ![r] = [bytes |-> f, last_access |-> now]]
    OBVIOUS
<1>1. keep \subseteq Held /\ IsFiniteSet(keep) /\ Cardinality(keep) \in Nat
      /\ Cardinality(keep) <= MaxImages
      BY KeptIsBounded
<1>2. TypeOK'
  <2>1. [bytes |-> f, last_access |-> now] \in Entry BY DEF TypeOK, Entry
  <2> QED BY <2>1 DEF TypeOK, Kept
<1>3. HistoryOK' BY DEF HistoryOK, TypeOK
<1>4. \A q \in Runs \ {r} : images'[q] = IF q \in keep THEN images[q] ELSE NONE
      BY DEF Kept
<1>5. images'[r] = [bytes |-> f, last_access |-> now] BY DEF Kept
<1>6. ImagesRecorded' BY <1>4, <1>5 DEF ImagesRecorded, HistoryOK, TypeOK
<1>7. UsedBefore' BY DEF UsedBefore, HistoryOK, TypeOK
<1>8. ImagesForgotten'
  <2> SUFFICES ASSUME NEW d \in Runs, images'[d] = NONE
               PROVE  Promise!MayForget(d)'
      BY DEF ImagesForgotten
  <2>1. d # r BY <1>5, <1>2 DEF TypeOK, Entry
  <2>2. d \notin keep BY <2>1, <1>1, <1>4 DEF Held
  <2>3. Promise!MayForget(d) BY <2>2, DroppedMayBeForgotten
  <2>4. /\ put'[d] = put[d] /\ used'[d] = used[d]
        /\ \A q \in Runs : put[q] # NONE => put'[q] # NONE
        /\ \A q \in Runs : used[q] <= used'[q]
        BY <2>1 DEF HistoryOK, UsedBefore, TypeOK
  <2> QED BY <2>3, <2>4, <1>3, ExcuseStays DEF TypeOK, HistoryOK
<1>9. BoundedByOneMore'
  <2>1. Held' = keep \cup {r} BY <1>1, <1>2, <1>4, <1>5 DEF Held, TypeOK, Entry
  <2>2. Cardinality(keep \cup {r}) \in {Cardinality(keep), Cardinality(keep) + 1}
        BY <1>1, FS_AddElement
  <2> QED BY <2>1, <2>2, <1>1 DEF BoundedByOneMore
<1> QED BY <1>2, <1>3, <1>6, <1>7, <1>8, <1>9

LEMMA GetKeepsImagesInv ==
    ASSUME ImagesInv, NEW r \in Runs, NEW found \in Frames \cup {NONE}, HGet(r, found)
    PROVE  ImagesInv'
<1> USE ImagesAssumption DEF ImagesInv, HGet, GetRefresh
<1> PICK keep \in SUBSET Runs :
        /\ Pruned(keep)
        /\ found = IF r \in keep THEN images[r].bytes ELSE NONE
        /\ images' = IF r \in keep THEN [Kept(keep) EXCEPT ![r].last_access = now]
                                   ELSE Kept(keep)
    OBVIOUS
<1>1. keep \subseteq Held /\ IsFiniteSet(keep) /\ Cardinality(keep) \in Nat
      /\ Cardinality(keep) <= MaxImages
      BY KeptIsBounded
<1>2. \A q \in keep : images[q] \in Entry BY <1>1 DEF Held, TypeOK
<1>3. \A q \in Runs \ {r} : images'[q] = IF q \in keep THEN images[q] ELSE NONE
      BY DEF Kept
<1>4. r \notin keep => images'[r] = NONE BY DEF Kept
<1>5. r \in keep => images'[r] = [bytes |-> images[r].bytes, last_access |-> now]
      BY <1>2 DEF Kept, Entry
<1>6. r \in keep <=> found # NONE BY <1>2 DEF Entry
<1>7. \A q \in Runs : images'[q] \in Entry \cup {NONE}
  <2>1. r \in keep => images'[r] \in Entry BY <1>2, <1>5 DEF Entry, TypeOK
  <2> QED BY <1>2, <1>3, <1>4, <2>1
<1>8. TypeOK'
  <2>1. images' \in [Runs -> Entry \cup {NONE}] BY <1>7 DEF Kept
  <2> QED BY <2>1 DEF TypeOK
<1>9. HistoryOK' BY DEF HistoryOK, TypeOK
<1>10. ImagesRecorded'
       BY <1>2, <1>3, <1>4, <1>5, <1>6 DEF ImagesRecorded, HistoryOK, TypeOK, Held
<1>11. UsedBefore' BY DEF UsedBefore, HistoryOK, TypeOK
<1>12. ImagesForgotten'
  <2> SUFFICES ASSUME NEW d \in Runs, images'[d] = NONE
               PROVE  Promise!MayForget(d)'
      BY DEF ImagesForgotten
  <2>1. d \notin keep
    <3>1. CASE d = r BY <3>1, <1>2, <1>5, <1>8 DEF Entry, TypeOK
    <3>2. CASE d # r BY <3>2, <1>1, <1>3 DEF Held
    <3> QED BY <3>1, <3>2
  <2>2. Promise!MayForget(d) BY <2>1, DroppedMayBeForgotten
  <2>3. used'[d] = used[d] BY <1>6, <2>1 DEF HistoryOK
  <2>4. \A q \in Runs : used[q] <= used'[q] BY DEF HistoryOK, UsedBefore, TypeOK
  <2> QED BY <2>2, <2>3, <2>4, <1>9, ExcuseStays DEF TypeOK, HistoryOK
<1>13. BoundedByOneMore'
  <2>1. Held' = keep
    <3>1. \A q \in Runs : images'[q] # NONE <=> q \in keep
      <4>1. r \in keep => images'[r] # NONE BY <1>2, <1>5 DEF Entry, TypeOK
      <4> QED BY <1>1, <1>3, <1>4, <4>1 DEF Held
    <3> QED BY <3>1 DEF Held
  <2> QED BY <2>1, <1>1 DEF BoundedByOneMore
<1> QED BY <1>8, <1>9, <1>10, <1>11, <1>12, <1>13

LEMMA TickKeepsImagesInv == ImagesInv /\ HTick => ImagesInv'
<1> SUFFICES ASSUME ImagesInv, HTick PROVE ImagesInv' OBVIOUS
<1> USE DEF ImagesInv, HTick, Tick, history
<1>1. TypeOK' /\ HistoryOK' BY DEF TypeOK, HistoryOK
<1>2. ImagesRecorded' /\ UsedBefore' BY DEF ImagesRecorded, UsedBefore, TypeOK, HistoryOK
<1>3. ImagesForgotten'
  <2> SUFFICES ASSUME NEW d \in Runs, images'[d] = NONE
               PROVE  Promise!MayForget(d)'
      BY DEF ImagesForgotten
  <2>1. Promise!MayForget(d) BY DEF ImagesForgotten
  <2> QED BY <2>1, <1>1, ExcuseStays DEF TypeOK, HistoryOK
<1>4. BoundedByOneMore' BY DEF BoundedByOneMore, Held
<1> QED BY <1>1, <1>2, <1>3, <1>4

LEMMA ImagesGoOn == ImagesInv /\ [HNext]_vars => ImagesInv'
<1> SUFFICES ASSUME ImagesInv, [HNext]_vars PROVE ImagesInv' OBVIOUS
<1>1. CASE HNext
      BY <1>1, PutKeepsImagesInv, GetKeepsImagesInv, TickKeepsImagesInv DEF HNext
<1>2. CASE UNCHANGED vars
  <2> USE <1>2 DEF vars, ImagesInv
  <2>1. TypeOK' /\ HistoryOK' BY DEF TypeOK, HistoryOK
  <2>2. ImagesRecorded' /\ UsedBefore' BY DEF ImagesRecorded, UsedBefore
  <2>3. ImagesForgotten' BY DEF ImagesForgotten, Promise!MayForget, Promise!Expired, Promise!Rivals
  <2>4. BoundedByOneMore' BY DEF BoundedByOneMore, Held
  <2> QED BY <2>1, <2>2, <2>3, <2>4
<1> QED BY <1>1, <1>2

LEMMA ImagesInvariance == HSpec => []ImagesInv
BY ImagesBegin, ImagesGoOn, PTL DEF HSpec

-----------------------------------------------------------------------------
(* The store's variables keep the types of image_store.rs.                  *)
THEOREM ImageTypes == HSpec => []TypeOK
<1>1. ImagesInv => TypeOK BY DEF ImagesInv
<1> QED BY <1>1, ImagesInvariance, PTL

(* Whatever is put and looked for, the store holds at most MAX_IMAGES + 1.  *)
THEOREM StoreIsBounded == HSpec => []BoundedByOneMore
<1>1. ImagesInv => BoundedByOneMore BY DEF ImagesInv
<1> QED BY <1>1, ImagesInvariance, PTL

(* Each step of the store is a step of the promise, or invisible to it.     *)
LEMMA StepRefines == ImagesInv /\ [HNext]_vars => [Promise!Next]_(Promise!vars)
<1> SUFFICES ASSUME ImagesInv, [HNext]_vars
             PROVE  Promise!Next \/ UNCHANGED Promise!vars
    OBVIOUS
<1>1. ASSUME NEW r \in Runs, NEW f \in Frames, HPut(r, f) PROVE Promise!Next
  <2>1. Promise!Put(r, f) BY <1>1 DEF HPut, Put, Promise!Put
  <2> QED BY <2>1 DEF Promise!Next
<1>2. ASSUME NEW r \in Runs, NEW found \in Frames \cup {NONE}, HGet(r, found)
      PROVE  Promise!Next
  <2> USE ImagesAssumption DEF ImagesInv
  <2> PICK keep \in SUBSET Runs :
          /\ Pruned(keep)
          /\ found = IF r \in keep THEN images[r].bytes ELSE NONE
      BY <1>2 DEF HGet, GetRefresh
  <2>1. now' = now /\ put' = put /\ answer' = [answer EXCEPT ![r] = found]
        BY <1>2 DEF HGet, GetRefresh
  <2>2. CASE r \in keep
    <3>1. r \in Fresh /\ images[r] # NONE BY <2>2, KeptIsBounded DEF Fresh, Held
    <3>2. images[r] \in Entry BY <3>1 DEF TypeOK
    <3>3. found = put[r] /\ found # NONE BY <2>2, <3>1, <3>2 DEF ImagesRecorded, Entry
    <3>4. ~ Promise!Expired(r)
          BY <3>1, <3>2 DEF ImagesRecorded, Fresh, TypeOK, Entry, Promise!Expired
    <3>5. used' = [used EXCEPT ![r] = now] BY <1>2, <3>3 DEF HGet
    <3>6. Promise!Hit(r) BY <2>1, <3>3, <3>4, <3>5 DEF Promise!Hit
    <3> QED BY <3>6 DEF Promise!Next
  <2>3. CASE r \notin keep
    <3>1. found = NONE BY <2>3
    <3>2. used' = used BY <1>2, <3>1 DEF HGet
    <3>3. Promise!MayForget(r) BY <2>3, DroppedMayBeForgotten
    <3>4. Promise!Miss(r) BY <2>1, <3>1, <3>2, <3>3 DEF Promise!Miss
    <3> QED BY <3>4 DEF Promise!Next
  <2> QED BY <2>2, <2>3
<1>3. ASSUME HTick PROVE Promise!Next
      BY <1>3 DEF HTick, Tick, history, Promise!Next, Promise!Tick
<1>4. CASE UNCHANGED vars BY <1>4 DEF vars, Promise!vars
<1> QED BY <1>1, <1>2, <1>3, <1>4 DEF HNext

(* The store of image_store.rs implements the promise AnalyzeImage and      *)
(* Understand rely on: a fresh image is forgotten only if at least          *)
(* MAX_IMAGES other runs have been used since.                              *)
THEOREM StoreImplementsPromise == HSpec => ImplementsRunImages
<1>1. HInit => Promise!Init BY DEF HInit, Init, Promise!Init
<1> QED BY <1>1, ImagesInvariance, StepRefines, PTL
        DEF HSpec, ImplementsRunImages, Promise!Spec

(* Induction on numbers, and the greatest of some.                          *)
NatLess == {p \in Nat \X Nat : p[1] < p[2]}

LEMMA NatLessWF == IsWellFoundedOn(NatLess, Nat)
<1>1. OpToRel(<, Nat) = NatLess
  BY DEF OpToRel, NatLess
<1> QED BY <1>1, NatLessThanWellFounded

LEMMA SetInduction ==
    ASSUME NEW S, 0 \in S, \A n \in Nat : n \in S => n + 1 \in S
    PROVE  Nat \subseteq S
<1> SUFFICES ASSUME Nat \ S # {} PROVE FALSE
  OBVIOUS
<1>1. \E x \in Nat \ S : \A y \in Nat \ S : ~ (<<y, x>> \in NatLess)
  BY NatLessWF, WFMin, Nat \ S \subseteq Nat
<1>2. PICK x \in Nat \ S : \A y \in Nat \ S : ~ (y < x)
  <2>1. PICK x \in Nat \ S : \A y \in Nat \ S : ~ (<<y, x>> \in NatLess) BY <1>1
  <2>2. \A y \in Nat \ S : ~ (y < x)
    <3> TAKE y \in Nat \ S
    <3>1. <<y, x>> \notin NatLess BY <2>1
    <3> QED BY <3>1 DEF NatLess
  <2> QED BY <2>2
<1>3. x # 0 BY <1>2
<1>4. x - 1 \in Nat /\ x - 1 < x /\ x - 1 + 1 = x BY <1>2, <1>3
<1>5. x - 1 \in S BY <1>2, <1>4
<1> QED BY <1>2, <1>4, <1>5

LEMMA GreatestOfSome ==
    ASSUME NEW n \in Nat, NEW S \in SUBSET (0 .. n), S # {}
    PROVE  Max(S) \in S /\ \A x \in S : x <= Max(S)
<1>1. \E m \in S : \A x \in S : m >= x
  <2>1. PICK R : R = {n - x : x \in S} OBVIOUS
  <2>0. \A x \in S : n - x \in Nat OBVIOUS
  <2>2. R \subseteq Nat /\ R # {} BY <2>0, <2>1
  <2>3. \E r \in R : \A t \in R : ~ (<<t, r>> \in NatLess) BY <2>2, NatLessWF, WFMin
  <2>4. PICK r \in R : \A t \in R : ~ (<<t, r>> \in NatLess) BY <2>3
  <2>5. \A t \in R : r <= t
    <3> TAKE t \in R
    <3>1. r \in Nat /\ t \in Nat BY <2>2
    <3>2. ~ (t < r) BY <2>4, <3>1 DEF NatLess
    <3> QED BY <3>1, <3>2
  <2>6. PICK m \in S : r = n - m BY <2>1
  <2>7. \A x \in S : m >= x
    <3> TAKE x \in S
    <3>1. n - x \in R BY <2>1
    <3>2. r <= n - x BY <2>5, <3>1
    <3>3. m \in 0 .. n /\ x \in 0 .. n OBVIOUS
    <3> QED BY <2>6, <3>2, <3>3
  <2> QED BY <2>7
<1>2. PICK g : g = Max(S) OBVIOUS
<1>3. g \in S /\ \A x \in S : g >= x BY <1>1, <1>2 DEF Max
<1> QED BY <1>2, <1>3

LEMMA GreaterOfTwo ==
    ASSUME NEW x \in Nat, NEW y \in Nat
    PROVE  Max({x, y}) = IF x <= y THEN y ELSE x
<1>1. PICK S : S = {x, y} OBVIOUS
<1>2. PICK n : n = IF x <= y THEN y ELSE x OBVIOUS
<1>3. n \in Nat /\ S \in SUBSET (0 .. n) /\ S # {} BY <1>1, <1>2
<1>4. Max(S) \in S /\ \A z \in S : z <= Max(S) BY <1>3, GreatestOfSome
<1>5. Max(S) = n BY <1>1, <1>2, <1>4
<1> QED BY <1>1, <1>2, <1>5

-----------------------------------------------------------------------------
(* Media.  What a call needs to be there when it is carried out, by its     *)
(* handler or later.                                                        *)
Whole(d, n)   == disk[d] # Absent /\ disk[d][n] = "whole"
Excused(m, a) == m \in doomed \/ <<m, a>> \in spoiled
AllSent(m)    == \A a \in Assets : <<m, a>> \in sent

Doings == {"mkdir", "insert", "truncate", "write", "count", "add", "status", "remove", "delete"}
OfFiles == {"mkdir", "truncate", "write"}

CallTyped(c) ==
    /\ c.do \in Doings /\ c.at \in Dirs
    /\ c.do \notin OfFiles => c.at \in Memories
    /\ c.do = "insert" => c.on \subseteq Names
    /\ c.do = "truncate" => c.on \in Names \ 1..Thumbs
    /\ c.do \in {"write", "add"} => c.on \in Names
    /\ c.do = "count" => c.on \in 1..Thumbs
    /\ c.do = "status" => c.on \in {"complete", "failed"}

Ready(c) ==
    /\ c.do = "insert" => disk[c.at] # Absent \/ c.at \in doomed
    /\ c.do = "count" => Whole(c.at, c.on) \/ c.at \in doomed
    /\ c.do = "status" /\ c.on = "complete" => AllSent(c.at)

MediaTyped ==
    /\ table \in [Memories -> MemoryRows \cup {Absent}]
    /\ disk \in [Dirs -> Directories \cup {Absent}]
    /\ shown \in [Memories -> {"none", "pending", "complete"}]
    /\ url \in [Memories -> [Assets -> Dirs \cup {Absent}]]
    /\ \A m \in Memories : \A a \in Assets : url[m][a] \in {m, Unknown, Absent}
    /\ sent \subseteq Memories \X Assets /\ spoiled \subseteq Dirs \X Names
    /\ known \subseteq born /\ born \subseteq Memories /\ doomed \subseteq born
    /\ unseen \subseteq Memories

(* What was dropped is carried out later, on a memory the portal has not    *)
(* seen the last of.                                                        *)
LateOK == \A c \in late : /\ CallTyped(c) /\ Ready(c)
                          /\ c.at \in Memories => c.at \in born /\ c.at \in unseen

-----------------------------------------------------------------------------
(* The handlers: what each may still have to do.                            *)
Creating(h) ==
    LET m == h.memory IN
    /\ h.on \in {Assets, {}} /\ h.more \subseteq 1..Thumbs
    /\ \/ \E body \in {<< >>, Upload(m, Body, 1)} :
             \/ h.todo = Registered(m, h.on) \o body
             \/ h.todo = << Call("insert", m, h.on, 0) >> \o body
       \/ h.todo \in {Upload(m, Body, 1), << Call("write", m, Body, 1) >>}
       \/ \E i \in 1..Thumbs :
             /\ h.todo \in {Thumbnail(m, i), << Call("count", m, i, i), Call("add", m, i, i) >>,
                            << Call("add", m, i, i) >>}
             /\ \A j \in h.more : i < j
       \/ h.todo = << >> /\ h.more = {}

Putting(h) ==
    LET d == url[h.memory][h.on] IN
    /\ h.on \in Assets /\ h.more = {} /\ d \in {h.memory, Unknown}
    /\ h.todo \in {<< Call("mkdir", d, Absent, 0) >> \o Upload(d, h.on, 0), Upload(d, h.on, 0),
                   << Call("write", d, h.on, 0) >>, << >>}

Completing(h) == h.more = {} /\ h.todo \in {<< Call("status", h.memory, "complete", 0) >>, << >>}
Failing(h)    == h.more = {} /\ h.todo \in {<< Call("status", h.memory, "failed", 0) >>, << >>}
Deleting(h) ==
    /\ h.more = {}
    /\ h.todo \in {<< Call("remove", h.memory, Absent, 0), Call("delete", h.memory, Absent, 0) >>,
                   << Call("delete", h.memory, Absent, 0) >>, << >>}

Handler(op, m, on, todo, more, changed) ==
    [op |-> op, memory |-> m, on |-> on, todo |-> todo, more |-> more, changed |-> changed]

HolderOK ==
    \/ holder = Free
    \/ /\ holder = Handler(holder.op, holder.memory, holder.on, holder.todo, holder.more,
                           holder.changed)
       /\ holder.memory \in born /\ holder.changed \in BOOLEAN
       /\ \/ holder.op = "create" /\ Creating(holder)
          \/ holder.op = "put" /\ Putting(holder)
          \/ holder.op = "complete" /\ Completing(holder)
          \/ holder.op = "fail" /\ Failing(holder)
          \/ holder.op = "delete" /\ Deleting(holder)

-----------------------------------------------------------------------------
Untouched(m) == /\ m \notin known /\ m \notin doomed /\ shown[m] = "none"
                /\ \A a \in Assets : url[m][a] = Absent
                /\ \A c \in late : c.at # m

Unborn == \A m \in Memories \ born : Untouched(m) /\ table[m] = Absent /\ disk[m] = Absent

(* Nothing else touches a memory that is being created, and its thumbnails  *)
(* are counted in order.                                                    *)
Doing(do) == Busy /\ Next1.do = do

CreationAlone ==
    holder.op = "create" =>
        LET m == holder.memory IN
        /\ Untouched(m)
        /\ IF Doing("mkdir") THEN table[m] = Absent /\ disk[m] = Absent
           ELSE IF Doing("insert") THEN table[m] = Absent /\ disk[m] # Absent
           ELSE /\ table[m] # Absent /\ disk[m] # Absent /\ table[m].status = "pending"
                /\ \A j \in holder.more : table[m].thumbs < j
                /\ Busy /\ Next1.do \in {"write", "count", "add"} /\ Next1.on \in 1..Thumbs =>
                      /\ Next1.do # "add" => table[m].thumbs < Next1.on
                      /\ Next1.do = "add" => table[m].thumbs <= Next1.on
                      /\ Next1.do = "count" => Whole(m, Next1.on)

(* An upload is whole once it was sent, and so is what a PUT has written.   *)
SentOK == \A m \in Memories : \A a \in Assets : <<m, a>> \in sent => Whole(m, a) \/ Excused(m, a)

Writing ==
    /\ Doing("write") /\ <<Next1.at, Next1.on>> \in sent => Excused(Next1.at, Next1.on)
    /\ Doing("status") /\ Next1.on = "complete" => AllSent(Next1.at)
    /\ holder.op = "put" /\ holder.todo = << >> /\ url[holder.memory][holder.on] = holder.memory
          => Whole(holder.memory, holder.on) \/ Excused(holder.memory, holder.on)

CompleteSent == \A m \in Memories : table[m] # Absent /\ table[m].status = "complete" => AllSent(m)

(* The portal agrees on every memory no handler is at work on.              *)
Agrees(m) == /\ table[m] = Absent <=> shown[m] = "none"
             /\ table[m] # Absent /\ table[m].status = "complete" => shown[m] = "complete"

AtWork(m) == /\ holder.memory = m
             /\ holder.op = "create" \/ (holder.op \in {"complete", "delete"} /\ ~ Busy)

AgreesBut ==
    \A m \in Memories \ unseen :
        /\ ~ AtWork(m) => Agrees(m)
        /\ AtWork(m) /\ holder.op = "complete" =>
              /\ table[m] = Absent <=> shown[m] = "none"
              /\ holder.changed <=> table[m] # Absent
        /\ AtWork(m) /\ holder.op = "delete" =>
              /\ table[m] = Absent
              /\ ~ holder.changed => shown[m] = "none"

MediaInv == /\ MediaTyped /\ LateOK /\ HolderOK /\ Unborn /\ CreationAlone
            /\ RowsHaveFiles /\ SentOK /\ Writing /\ CompleteSent /\ AgreesBut

-----------------------------------------------------------------------------
LEMMA Tails ==
    /\ \A a : Tail(<<a>>) = << >> /\ Head(<<a>>) = a /\ <<a>> # << >>
    /\ \A a, b : Tail(<<a, b>>) = <<b>> /\ Head(<<a, b>>) = a /\ <<a, b>> # << >>
    /\ \A a, b, c : Tail(<<a, b, c>>) = <<b, c>> /\ Head(<<a, b, c>>) = a /\ <<a, b, c>> # << >>
    /\ \A a, b, c, d : /\ Tail(<<a, b, c, d>>) = <<b, c, d>> /\ Head(<<a, b, c, d>>) = a
                       /\ <<a, b, c, d>> # << >>
<1>1. \A a : Tail(<<a>>) = << >> /\ Head(<<a>>) = a /\ <<a>> # << >>
  OBVIOUS
<1>2. \A a, b : Tail(<<a, b>>) = <<b>> /\ Head(<<a, b>>) = a /\ <<a, b>> # << >>
  OBVIOUS
<1>3. \A a, b, c : Tail(<<a, b, c>>) = <<b, c>> /\ Head(<<a, b, c>>) = a /\ <<a, b, c>> # << >>
  OBVIOUS
<1>4. \A a, b, c, d : /\ Tail(<<a, b, c, d>>) = <<b, c, d>> /\ Head(<<a, b, c, d>>) = a
                     /\ <<a, b, c, d>> # << >>
  OBVIOUS
<1> QED BY <1>1, <1>2, <1>3, <1>4

LEMMA Joins ==
    /\ \A a : <<a>> \o << >> = <<a>>
    /\ \A a, b : <<a, b>> \o << >> = <<a, b>> /\ <<a>> \o <<b>> = <<a, b>>
    /\ \A a, b, c : <<a>> \o <<b, c>> = <<a, b, c>>
    /\ \A a, b, c, d : <<a, b>> \o <<c, d>> = <<a, b, c, d>>
    /\ \A a, b : << >> \o <<a, b>> = <<a, b>>
<1>1. ASSUME NEW a PROVE <<a>> \o <<>> = <<a>>
  <2>1. <<a>> \in Seq({a}) /\ <<>> \in Seq({a}) /\ <<a>> \in Seq({a}) OBVIOUS
  <2>2. <<a>> \o <<>> \in Seq({a}) /\ Len(<<a>> \o <<>>) = 1 BY <2>1
  <2>3. ASSUME NEW i \in 1 .. 1 PROVE (<<a>> \o <<>>)[i] = <<a>>[i]
    <3>1. i = 1 OBVIOUS
    <3> QED BY <2>1, <3>1
  <2>4. Len(<<a>>) = 1 OBVIOUS
  <2> QED BY <2>1, <2>2, <2>3, <2>4, SeqEqual
<1>2. ASSUME NEW a, NEW b PROVE <<a, b>> \o <<>> = <<a, b>>
  <2>1. <<a, b>> \in Seq({a, b}) /\ <<>> \in Seq({a, b}) /\ <<a, b>> \in Seq({a, b}) OBVIOUS
  <2>2. <<a, b>> \o <<>> \in Seq({a, b}) /\ Len(<<a, b>> \o <<>>) = 2 BY <2>1
  <2>3. ASSUME NEW i \in 1 .. 2 PROVE (<<a, b>> \o <<>>)[i] = <<a, b>>[i]
    <3>1. i = 1 \/ i = 2 OBVIOUS
    <3> QED BY <2>1, <3>1
  <2>4. Len(<<a, b>>) = 2 OBVIOUS
  <2> QED BY <2>1, <2>2, <2>3, <2>4, SeqEqual
<1>3. ASSUME NEW a, NEW b PROVE <<a>> \o <<b>> = <<a, b>>
  <2>1. <<a>> \in Seq({a, b}) /\ <<b>> \in Seq({a, b}) /\ <<a, b>> \in Seq({a, b}) OBVIOUS
  <2>2. <<a>> \o <<b>> \in Seq({a, b}) /\ Len(<<a>> \o <<b>>) = 2 BY <2>1
  <2>3. ASSUME NEW i \in 1 .. 2 PROVE (<<a>> \o <<b>>)[i] = <<a, b>>[i]
    <3>1. i = 1 \/ i = 2 OBVIOUS
    <3> QED BY <2>1, <3>1
  <2>4. Len(<<a, b>>) = 2 OBVIOUS
  <2> QED BY <2>1, <2>2, <2>3, <2>4, SeqEqual
<1>4. ASSUME NEW a, NEW b, NEW c PROVE <<a>> \o <<b, c>> = <<a, b, c>>
  <2>1. <<a>> \in Seq({a, b, c}) /\ <<b, c>> \in Seq({a, b, c}) /\ <<a, b, c>> \in Seq({a, b, c}) OBVIOUS
  <2>2. <<a>> \o <<b, c>> \in Seq({a, b, c}) /\ Len(<<a>> \o <<b, c>>) = 3 BY <2>1
  <2>3. ASSUME NEW i \in 1 .. 3 PROVE (<<a>> \o <<b, c>>)[i] = <<a, b, c>>[i]
    <3>1. i = 1 \/ i = 2 \/ i = 3 OBVIOUS
    <3> QED BY <2>1, <3>1
  <2>4. Len(<<a, b, c>>) = 3 OBVIOUS
  <2> QED BY <2>1, <2>2, <2>3, <2>4, SeqEqual
<1>5. ASSUME NEW a, NEW b, NEW c, NEW d PROVE <<a, b>> \o <<c, d>> = <<a, b, c, d>>
  <2>1. <<a, b>> \in Seq({a, b, c, d}) /\ <<c, d>> \in Seq({a, b, c, d}) /\ <<a, b, c, d>> \in Seq({a, b, c, d}) OBVIOUS
  <2>2. <<a, b>> \o <<c, d>> \in Seq({a, b, c, d}) /\ Len(<<a, b>> \o <<c, d>>) = 4 BY <2>1
  <2>3. ASSUME NEW i \in 1 .. 4 PROVE (<<a, b>> \o <<c, d>>)[i] = <<a, b, c, d>>[i]
    <3>1. i = 1 \/ i = 2 \/ i = 3 \/ i = 4 OBVIOUS
    <3> QED BY <2>1, <3>1
  <2>4. Len(<<a, b, c, d>>) = 4 OBVIOUS
  <2> QED BY <2>1, <2>2, <2>3, <2>4, SeqEqual
<1>6. ASSUME NEW a, NEW b PROVE <<>> \o <<a, b>> = <<a, b>>
  <2>1. <<>> \in Seq({a, b}) /\ <<a, b>> \in Seq({a, b}) /\ <<a, b>> \in Seq({a, b}) OBVIOUS
  <2>2. <<>> \o <<a, b>> \in Seq({a, b}) /\ Len(<<>> \o <<a, b>>) = 2 BY <2>1
  <2>3. ASSUME NEW i \in 1 .. 2 PROVE (<<>> \o <<a, b>>)[i] = <<a, b>>[i]
    <3>1. i = 1 \/ i = 2 OBVIOUS
    <3> QED BY <2>1, <3>1
  <2>4. Len(<<a, b>>) = 2 OBVIOUS
  <2> QED BY <2>1, <2>2, <2>3, <2>4, SeqEqual
<1> QED BY <1>1, <1>2, <1>3, <1>4, <1>5, <1>6

LEMMA FieldsOfCall ==
    \A do, at, on, part :
        /\ Call(do, at, on, part).do = do /\ Call(do, at, on, part).at = at
        /\ Call(do, at, on, part).on = on /\ Call(do, at, on, part).part = part
BY DEF Call

LEMMA FieldsOfHandler ==
    \A op, m, on, todo, more, changed :
        LET h == Handler(op, m, on, todo, more, changed) IN
        /\ h.op = op /\ h.memory = m /\ h.on = on /\ h.todo = todo /\ h.more = more
        /\ h.changed = changed
BY DEF Handler

LEMMA LeastOf ==
    ASSUME NEW S \in SUBSET (1..Thumbs), S # {}
    PROVE  Min(S) \in S /\ \A j \in S \ {Min(S)} : Min(S) < j
<1>1. \E i \in S : \A j \in S : i <= j
  <2>1. PICK n \in S : TRUE OBVIOUS
  <2>2. S \subseteq Nat BY MediaAssumption
  <2>3. \E i \in S : \A j \in S : ~ (<<j, i>> \in NatLess) BY <2>2, NatLessWF, WFMin
  <2>4. PICK i \in S : \A j \in S : ~ (<<j, i>> \in NatLess) BY <2>3
  <2>5. \A j \in S : i <= j
    <3> TAKE j \in S
    <3>1. i \in Nat /\ j \in Nat BY <2>2
    <3>2. ~ (j < i) BY <2>4, <3>1 DEF NatLess
    <3> QED BY <3>1, <3>2
  <2> QED BY <2>5
<1>2. Min(S) \in S /\ \A j \in S : Min(S) <= j BY <1>1 DEF Min
<1>3. \A j \in S : j \in Nat BY MediaAssumption
<1>4. PICK x : x = Min(S) OBVIOUS
<1>5. x \in S /\ \A j \in S : x <= j BY <1>2, <1>4
<1>6. \A j \in S \ {x} : x < j BY <1>3, <1>5
<1> QED BY <1>4, <1>5, <1>6

-----------------------------------------------------------------------------
(* What a call does to the memory it is for, and to nothing else.           *)
StoreTyped == /\ table \in [Memories -> MemoryRows \cup {Absent}]
              /\ disk \in [Dirs -> Directories \cup {Absent}]

Elsewhere(c) == /\ \A m \in Memories : m # c.at => table'[m] = table[m]
                /\ \A d \in Dirs : d # c.at => disk'[d] = disk[d]

OfDisk(c) ==
    /\ c.do = "mkdir" => /\ table' = table /\ disk'[c.at] # Absent
                         /\ disk[c.at] # Absent => disk' = disk
    /\ c.do = "truncate" =>
          /\ table' = table /\ disk'[c.at] # Absent
          /\ \A n \in Names \ {c.on} : disk'[c.at][n] = disk[c.at][n]
    /\ c.do = "write" =>
          /\ table' = table /\ disk'[c.at] # Absent /\ disk'[c.at][c.on] = "whole"
          /\ \A n \in Names \ {c.on} : disk'[c.at][n] = disk[c.at][n]
    /\ c.do = "remove" => table' = table /\ disk'[c.at] = Absent

OfTable(c) ==
    /\ c.do = "insert" => disk' = disk /\ table'[c.at] = NewRow(c.on)
    /\ c.do = "count" =>
          /\ disk' = disk
          /\ table[c.at] = Absent => table' = table
          /\ table[c.at] # Absent => /\ table'[c.at] # Absent /\ table'[c.at].thumbs = c.on
                                     /\ table'[c.at].status = table[c.at].status
    /\ c.do = "add" =>
          /\ disk' = disk
          /\ table'[c.at] # Absent /\ table'[c.at].thumbs = table[c.at].thumbs
          /\ table'[c.at].status = table[c.at].status
    /\ c.do = "status" =>
          /\ disk' = disk
          /\ table[c.at] = Absent => table' = table
          /\ table[c.at] # Absent => /\ table'[c.at] # Absent /\ table'[c.at].status = c.on
                                     /\ table'[c.at].thumbs = table[c.at].thumbs
    /\ c.do = "delete" => disk' = disk /\ table'[c.at] = Absent

LEMMA Counted ==
    ASSUME NEW r \in MemoryRows, NEW k \in 0 .. Thumbs, NEW w, w = [r EXCEPT !.thumbs = k]
    PROVE  w \in MemoryRows /\ w.thumbs = k /\ w.status = r.status
BY DEF MemoryRows

LEMMA Restated ==
    ASSUME NEW r \in MemoryRows, NEW k \in Statuses, NEW w, w = [r EXCEPT !.status = k]
    PROVE  w \in MemoryRows /\ w.thumbs = r.thumbs /\ w.status = k
BY DEF MemoryRows

LEMMA Refiled ==
    ASSUME NEW r \in MemoryRows, NEW f \in SUBSET Names, NEW w, w = [r EXCEPT !.files = f]
    PROVE  w \in MemoryRows /\ w.thumbs = r.thumbs /\ w.status = r.status
BY DEF MemoryRows

LEMMA NewRows ==
    ASSUME NEW f \in SUBSET Names
    PROVE  /\ NewRow(f) \in MemoryRows /\ NewRow(f) # Absent
           /\ NewRow(f).status = "pending" /\ NewRow(f).thumbs = 0
BY MediaAssumption DEF NewRow, MemoryRows, Statuses

LEMMA Putted ==
    ASSUME NEW c, c.at \in Memories, StoreTyped, NEW r \in MemoryRows \cup {Absent}, Row(c, r)
    PROVE  table'[c.at] = r /\ disk' = disk /\ Elsewhere(c) /\ StoreTyped'
BY DEF StoreTyped, Row, Elsewhere

LEMMA Filed ==
    ASSUME NEW c, c.at \in Dirs, c.on \in Names, StoreTyped, disk[c.at] # Absent,
           NEW x \in {"cut", "whole"}, File(c, x)
    PROVE  /\ table' = table /\ disk'[c.at] # Absent /\ disk'[c.at][c.on] = x
           /\ \A n \in Names \ {c.on} : disk'[c.at][n] = disk[c.at][n]
           /\ Elsewhere(c) /\ StoreTyped'
<1>1. disk[c.at] \in Directories BY DEF StoreTyped
<1>2. PICK f : f = [disk[c.at] EXCEPT ![c.on] = x] OBVIOUS
<1>3. f \in Directories /\ f[c.on] = x /\ \A n \in Names \ {c.on} : f[n] = disk[c.at][n]
  BY <1>1, <1>2 DEF Directories
<1>4. disk' = [disk EXCEPT ![c.at] = f] /\ table' = table
  <2>1. disk' = [disk EXCEPT ![c.at][c.on] = x] /\ table' = table BY Zenon DEF File
  <2>2. [disk EXCEPT ![c.at][c.on] = x] = [disk EXCEPT ![c.at] = [disk[c.at] EXCEPT ![c.on] = x]]
    BY DEF StoreTyped
  <2> QED BY <1>2, <2>1, <2>2, Zenon
<1>5. disk'[c.at] = f /\ Elsewhere(c) /\ StoreTyped' BY <1>3, <1>4 DEF StoreTyped, Elsewhere
<1>6. f # Absent BY <1>3, MediaAssumption
<1> QED BY <1>3, <1>4, <1>5, <1>6

LEMMA Effect ==
    ASSUME NEW c, CallTyped(c), StoreTyped, Possible(c), Do(c)
    PROVE  Elsewhere(c) /\ StoreTyped' /\ OfDisk(c) /\ OfTable(c)
<1>t. c.at \in Dirs /\ (c.do \notin OfFiles => c.at \in Memories) BY DEF CallTyped
<1>u. ASSUME c.at \in Memories
      PROVE  table[c.at] # Absent => table[c.at] \in MemoryRows
  BY <1>u DEF StoreTyped
<1>1. CASE c.do = "mkdir"
  <2>1. /\ disk' = [disk EXCEPT ![c.at] = IF disk[c.at] = Absent THEN Empty ELSE disk[c.at]]
        /\ table' = table
    BY <1>1 DEF Do
  <2>2. PICK d : d = IF disk[c.at] = Absent THEN Empty ELSE disk[c.at] OBVIOUS
  <2>3. Empty \in Directories BY DEF Empty, Directories
  <2>4. d \in Directories BY <1>t, <2>2, <2>3 DEF StoreTyped
  <2>5. disk' = [disk EXCEPT ![c.at] = d] BY <2>1, <2>2
  <2>6. disk'[c.at] = d /\ Elsewhere(c) /\ StoreTyped'
    BY <1>t, <2>1, <2>4, <2>5 DEF StoreTyped, Elsewhere
  <2>7. d # Absent BY <2>4, MediaAssumption
  <2>8. disk[c.at] # Absent => disk' = disk BY <2>2, <2>5, <1>t DEF StoreTyped
  <2> QED BY <1>1, <2>1, <2>6, <2>7, <2>8 DEF OfDisk, OfTable
<1>2. CASE c.do \in {"truncate", "write"}
  <2>1. disk[c.at] # Absent BY <1>2 DEF Possible
  <2>2. c.on \in Names BY <1>2 DEF CallTyped
  <2>3. CASE c.do = "truncate"
    <3>1. File(c, "cut") BY <2>3 DEF Do
    <3> QED BY <1>t, <2>1, <2>2, <2>3, <3>1, Filed DEF OfDisk, OfTable
  <2>4. CASE c.do = "write"
    <3>1. File(c, "whole") BY <2>4 DEF Do
    <3> QED BY <1>t, <2>1, <2>2, <2>4, <3>1, Filed DEF OfDisk, OfTable
  <2> QED BY <1>2, <2>3, <2>4
<1>3. CASE c.do = "remove"
  <2>1. disk' = [disk EXCEPT ![c.at] = Absent] /\ table' = table BY <1>3 DEF Do
  <2>2. Elsewhere(c) /\ StoreTyped' /\ disk'[c.at] = Absent
    BY <1>t, <2>1 DEF StoreTyped, Elsewhere
  <2> QED BY <1>3, <2>1, <2>2 DEF OfDisk, OfTable
<1>4. CASE c.do = "insert"
  <2>1. Row(c, NewRow(c.on)) BY <1>4 DEF Do
  <2>2. c.at \in Memories /\ c.on \in SUBSET Names BY <1>4 DEF CallTyped, OfFiles
  <2>3. NewRow(c.on) \in MemoryRows BY <2>2, NewRows
  <2>4. PICK r : r = NewRow(c.on) OBVIOUS
  <2>5. table'[c.at] = r /\ disk' = disk /\ Elsewhere(c) /\ StoreTyped'
    BY <2>1, <2>2, <2>3, <2>4, Putted
  <2> QED BY <1>4, <2>4, <2>5 DEF OfDisk, OfTable
<1>5. CASE c.do = "delete"
  <2>1. Row(c, Absent) BY <1>5 DEF Do
  <2>2. c.at \in Memories BY <1>5 DEF CallTyped, OfFiles
  <2>3. table'[c.at] = Absent /\ disk' = disk /\ Elsewhere(c) /\ StoreTyped'
    BY <2>1, <2>2, Putted
  <2> QED BY <1>5, <2>3 DEF OfDisk, OfTable
<1>6. CASE c.do = "add"
  <2>2. c.at \in Memories /\ c.on \in Names BY <1>6 DEF CallTyped, OfFiles
  <2>3. table[c.at] \in MemoryRows \cup {Absent} /\ table[c.at] # Absent
    BY <1>6, <2>2 DEF Possible, StoreTyped
  <2>4. PICK r, w : r = table[c.at] /\ w = [r EXCEPT !.files = @ \cup {c.on}] OBVIOUS
  <2>5. Row(c, w) BY <1>6, <2>4 DEF Do
  <2>6. w \in MemoryRows /\ w.thumbs = r.thumbs /\ w.status = r.status
    <3>1. r \in MemoryRows BY <2>3, <2>4
    <3>2. r.files \subseteq Names BY <3>1 DEF MemoryRows
    <3>3. PICK f \in SUBSET Names : f = r.files \cup {c.on} BY <2>2, <3>2
    <3>4. w = [r EXCEPT !.files = f] BY <2>4, <3>3
    <3> QED BY <3>1, <3>4, Refiled
  <2>7. table'[c.at] = w /\ disk' = disk /\ Elsewhere(c) /\ StoreTyped'
    BY <2>2, <2>5, <2>6, Putted
  <2>8. w # Absent BY <2>6, MediaAssumption
  <2> QED BY <1>6, <2>4, <2>6, <2>7, <2>8 DEF OfDisk, OfTable
<1>7. CASE c.do = "count"
  <2>2. c.at \in Memories /\ c.on \in 1 .. Thumbs BY <1>7 DEF CallTyped, OfFiles
  <2>3. PICK r, w : r = table[c.at] /\ w = [r EXCEPT !.thumbs = c.on] OBVIOUS
  <2>4. Update(c, w) BY <1>7, <2>3 DEF Do
  <2>5. CASE r = Absent
    <3>1. table' = table /\ disk' = disk BY <2>3, <2>4, <2>5 DEF Update, mediaStore
    <3> QED BY <1>7, <2>3, <2>5, <3>1 DEF OfDisk, OfTable, Elsewhere, StoreTyped
  <2>6. CASE r # Absent
    <3>1. Row(c, w) BY <2>3, <2>4, <2>6 DEF Update
    <3>2. r \in MemoryRows /\ c.on \in 0 .. Thumbs BY <2>2, <2>3, <2>6 DEF StoreTyped
    <3>4. w \in MemoryRows /\ w.thumbs = c.on /\ w.status = r.status
      BY <2>3, <3>2, Counted
    <3>5. table'[c.at] = w /\ disk' = disk /\ Elsewhere(c) /\ StoreTyped'
      BY <2>2, <3>1, <3>4, Putted
    <3>6. w # Absent BY <3>4, MediaAssumption
    <3> QED BY <1>7, <2>3, <2>6, <3>4, <3>5, <3>6 DEF OfDisk, OfTable
  <2> QED BY <2>5, <2>6
<1>8. CASE c.do = "status"
  <2>2. c.at \in Memories /\ c.on \in Statuses BY <1>8 DEF CallTyped, OfFiles, Statuses
  <2>3. PICK r, w : r = table[c.at] /\ w = [r EXCEPT !.status = c.on] OBVIOUS
  <2>4. Update(c, w) BY <1>8, <2>3 DEF Do
  <2>5. CASE r = Absent
    <3>1. table' = table /\ disk' = disk BY <2>3, <2>4, <2>5 DEF Update, mediaStore
    <3> QED BY <1>8, <2>3, <2>5, <3>1 DEF OfDisk, OfTable, Elsewhere, StoreTyped
  <2>6. CASE r # Absent
    <3>1. Row(c, w) BY <2>3, <2>4, <2>6 DEF Update
    <3>2. r \in MemoryRows BY <2>2, <2>3, <2>6 DEF StoreTyped
    <3>3. w \in MemoryRows /\ w.status = c.on /\ w.thumbs = r.thumbs
      BY <2>2, <2>3, <3>2, Restated
    <3>4. table'[c.at] = w /\ disk' = disk /\ Elsewhere(c) /\ StoreTyped'
      BY <2>2, <3>1, <3>3, Putted
    <3>5. w # Absent BY <3>3, MediaAssumption
    <3> QED BY <1>8, <2>3, <2>6, <3>3, <3>4, <3>5 DEF OfDisk, OfTable
  <2> QED BY <2>5, <2>6
<1> QED BY <1>1, <1>2, <1>3, <1>4, <1>5, <1>6, <1>7, <1>8 DEF CallTyped, Doings

-----------------------------------------------------------------------------
(* What a call keeps, whoever makes it.                                     *)
Recorded(c) ==
    /\ sent' = sent /\ doomed' = doomed \cup Doom(c)
    /\ Cut(c) \cap sent \subseteq spoiled'
    /\ spoiled \ {<<c.at, c.on>>} \subseteq spoiled'
    /\ c.do # "write" => spoiled \subseteq spoiled'

LEMMA WholeStays ==
    ASSUME NEW c, CallTyped(c), StoreTyped, Possible(c), Do(c),
           NEW d \in Dirs, NEW n \in Names, Whole(d, n)
    PROVE  \/ Whole(d, n)'
           \/ c.do = "truncate" /\ c.at = d /\ c.on = n
           \/ c.do = "remove" /\ c.at = d
<1>1. Elsewhere(c) /\ OfDisk(c) /\ OfTable(c) BY Effect
<1>2. CASE c.at # d BY <1>1, <1>2 DEF Elsewhere, Whole
<1>3. CASE c.at = d /\ c.do \notin {"mkdir", "truncate", "write", "remove"}
  <2>1. disk' = disk BY <1>1, <1>3 DEF OfTable, CallTyped, Doings
  <2> QED BY <2>1 DEF Whole
<1>4. CASE c.at = d /\ c.do = "mkdir"
  <2>1. disk' = disk BY <1>1, <1>4 DEF OfDisk, Whole
  <2> QED BY <2>1 DEF Whole
<1>5. CASE c.at = d /\ c.do \in {"truncate", "write"}
  BY <1>1, <1>5 DEF OfDisk, Whole
<1>6. CASE c.at = d /\ c.do = "remove" BY <1>6
<1> QED BY <1>2, <1>3, <1>4, <1>5, <1>6

LEMMA DirStays ==
    ASSUME NEW c, CallTyped(c), StoreTyped, Possible(c), Do(c),
           NEW d \in Dirs, disk[d] # Absent
    PROVE  disk'[d] # Absent \/ (c.do = "remove" /\ c.at = d)
<1>1. Elsewhere(c) /\ OfDisk(c) /\ OfTable(c) BY Effect
<1>2. CASE c.at # d BY <1>1, <1>2 DEF Elsewhere
<1>3. CASE c.at = d /\ c.do \notin {"mkdir", "truncate", "write", "remove"}
  <2>1. disk' = disk BY <1>1, <1>3 DEF OfTable, CallTyped, Doings
  <2> QED BY <2>1
<1>4. CASE c.at = d /\ c.do \in {"mkdir", "truncate", "write"}
  BY <1>1, <1>4 DEF OfDisk
<1> QED BY <1>2, <1>3, <1>4

LEMMA RowChange ==
    ASSUME NEW c, CallTyped(c), StoreTyped, Possible(c), Do(c), NEW m \in Memories,
           table'[m] # Absent
    PROVE  \/ /\ table[m] # Absent /\ table'[m].thumbs = table[m].thumbs
              /\ table'[m].status = table[m].status
           \/ c.at = m /\ c.do = "insert" /\ table'[m].thumbs = 0 /\ table'[m].status = "pending"
           \/ /\ c.at = m /\ c.do = "count" /\ table[m] # Absent
              /\ table'[m].thumbs = c.on /\ table'[m].status = table[m].status
           \/ /\ c.at = m /\ c.do = "status" /\ table[m] # Absent
              /\ table'[m].thumbs = table[m].thumbs /\ table'[m].status = c.on
<1>1. Elsewhere(c) /\ OfDisk(c) /\ OfTable(c) BY Effect
<1>2. CASE c.at # m BY <1>1, <1>2 DEF Elsewhere
<1>3. CASE c.at = m /\ c.do \in {"mkdir", "truncate", "write", "remove"}
  <2>1. table' = table BY <1>1, <1>3 DEF OfDisk
  <2> QED BY <2>1
<1>4. CASE c.at = m /\ c.do = "insert"
  <2>1. c.on \in SUBSET Names BY <1>4 DEF CallTyped
  <2>2. PICK r : r = NewRow(c.on) OBVIOUS
  <2>3. table'[m] = r BY <1>1, <1>4, <2>2 DEF OfTable
  <2>4. r.thumbs = 0 /\ r.status = "pending" BY <2>1, <2>2, NewRows
  <2> QED BY <1>4, <2>3, <2>4
<1>5. CASE c.at = m /\ c.do \in {"count", "status"}
  BY <1>1, <1>5 DEF OfTable
<1>6. CASE c.at = m /\ c.do = "add"
  <2>1. table[m] # Absent BY <1>6 DEF Possible
  <2> QED BY <1>1, <1>6, <2>1 DEF OfTable
<1>7. CASE c.at = m /\ c.do = "delete" BY <1>1, <1>7 DEF OfTable
<1> QED BY <1>2, <1>3, <1>4, <1>5, <1>6, <1>7 DEF CallTyped, Doings

LEMMA ReadyStays ==
    ASSUME NEW c, CallTyped(c), StoreTyped, Possible(c), Do(c), Recorded(c),
           NEW d, CallTyped(d), Ready(d)
    PROVE  Ready(d)'
<1>1. c.do = "remove" => c.at \in doomed' BY DEF Recorded, Doom
<1>2. doomed \subseteq doomed' BY DEF Recorded
<1>3. d.do = "insert" => disk'[d.at] # Absent \/ d.at \in doomed'
  <2> SUFFICES ASSUME d.do = "insert", d.at \notin doomed' PROVE disk'[d.at] # Absent OBVIOUS
  <2>1. d.at \in Dirs /\ disk[d.at] # Absent BY <1>2 DEF CallTyped, Ready
  <2> QED BY <1>1, <2>1, DirStays
<1>4. d.do = "count" => Whole(d.at, d.on)' \/ d.at \in doomed'
  <2> SUFFICES ASSUME d.do = "count", d.at \notin doomed' PROVE Whole(d.at, d.on)' OBVIOUS
  <2>1. d.at \in Dirs /\ d.on \in 1 .. Thumbs /\ d.on \in Names /\ Whole(d.at, d.on)
    BY <1>2 DEF CallTyped, Ready, Names
  <2>2. ~ (c.do = "truncate" /\ c.on = d.on) BY <2>1 DEF CallTyped
  <2>3. ~ (c.do = "remove" /\ c.at = d.at) BY <1>1
  <2> QED BY <2>1, <2>2, <2>3, WholeStays
<1>5. d.do = "status" /\ d.on = "complete" => AllSent(d.at)'
  BY DEF Ready, AllSent, Recorded
<1> QED BY <1>3, <1>4, <1>5 DEF Ready

LEMMA FilesKept ==
    ASSUME NEW c, CallTyped(c), StoreTyped, Possible(c), Do(c), Ready(c), Recorded(c),
           RowsHaveFiles
    PROVE  RowsHaveFiles'
<1> SUFFICES ASSUME NEW m \in Memories, table'[m] # Absent, m \notin doomed'
             PROVE  /\ disk'[m] # Absent
                    /\ table'[m].thumbs > 0 => disk'[m][table'[m].thumbs] = "whole"
  BY DEF RowsHaveFiles, Listed
<1>a. m \in Dirs /\ m \notin doomed BY DEF Recorded, Dirs
<1>b. ~ (c.do = "remove" /\ c.at = m) BY DEF Recorded, Doom
<1>c. StoreTyped' BY Effect
<1>1. disk'[m] # Absent
  <2>1. CASE table[m] # Absent
    <3>1. disk[m] # Absent BY <1>a, <2>1 DEF RowsHaveFiles, Listed
    <3> QED BY <1>a, <1>b, <3>1, DirStays
  <2>2. CASE table[m] = Absent
    <3>1. c.at = m /\ c.do = "insert" BY <2>2, RowChange
    <3>2. disk[m] # Absent BY <1>a, <3>1 DEF Ready
    <3> QED BY <1>a, <1>b, <3>2, DirStays
  <2> QED BY <2>1, <2>2
<1>2. ASSUME table'[m].thumbs > 0 PROVE disk'[m][table'[m].thumbs] = "whole"
  <2>1. PICK k : k = table'[m].thumbs OBVIOUS
  <2>2. k \in 1 .. Thumbs
    <3>1. table'[m] \in MemoryRows BY <1>c DEF StoreTyped
    <3>2. k \in 0 .. Thumbs BY <2>1, <3>1 DEF MemoryRows
    <3> QED BY <1>2, <2>1, <3>2, MediaAssumption
  <2>3. k \in Names /\ ~ (c.do = "truncate" /\ c.on = k) BY <2>2 DEF Names, CallTyped
  <2>4. Whole(m, k)
    <3>1. CASE table[m] # Absent /\ table[m].thumbs = k
      <4>1. Listed(m) /\ k > 0 BY <1>a, <2>2, <3>1, MediaAssumption DEF Listed
      <4> QED BY <3>1, <4>1 DEF RowsHaveFiles, Whole
    <3>2. CASE c.at = m /\ c.do = "count" /\ c.on = k
      BY <1>a, <3>2 DEF Ready
    <3> QED BY <2>1, <2>2, <3>1, <3>2, RowChange, MediaAssumption
  <2>5. Whole(m, k)' BY <1>a, <1>b, <2>3, <2>4, WholeStays
  <2> QED BY <2>1, <2>5 DEF Whole
<1> QED BY <1>1, <1>2

LEMMA SentKept ==
    ASSUME NEW c, CallTyped(c), StoreTyped, Possible(c), Do(c), Recorded(c), SentOK
    PROVE  SentOK'
<1> SUFFICES ASSUME NEW m \in Memories, NEW a \in Assets, <<m, a>> \in sent'
             PROVE  Whole(m, a)' \/ Excused(m, a)'
  BY DEF SentOK
<1>1. <<m, a>> \in sent /\ (Whole(m, a) \/ Excused(m, a)) BY DEF SentOK, Recorded
<1>2. m \in Dirs /\ a \in Names BY DEF Dirs, Names
<1>3. CASE c.do = "truncate" /\ c.at = m /\ c.on = a
  <2>1. <<m, a>> \in Cut(c) BY <1>3 DEF Cut
  <2> QED BY <1>1, <2>1 DEF Excused, Recorded
<1>4. CASE c.do = "remove" /\ c.at = m BY <1>4 DEF Excused, Recorded, Doom
<1>5. CASE c.do = "write" /\ c.at = m /\ c.on = a
  BY <1>5, Effect DEF OfDisk, Whole
<1>6. CASE Whole(m, a) /\ ~ (c.do = "truncate" /\ c.at = m /\ c.on = a)
           /\ ~ (c.do = "remove" /\ c.at = m)
  BY <1>2, <1>6, WholeStays
<1>7. CASE Excused(m, a) /\ ~ (c.do = "write" /\ c.at = m /\ c.on = a)
  <2>1. doomed \subseteq doomed' BY DEF Recorded
  <2>2. CASE m \in doomed BY <2>1, <2>2 DEF Excused
  <2>3. CASE <<m, a>> \in spoiled
    <3>1. CASE c.do # "write" BY <2>3, <3>1 DEF Recorded, Excused
    <3>2. CASE c.at # m \/ c.on # a
      <4>1. <<m, a>> # <<c.at, c.on>> BY <3>2
      <4> QED BY <2>3, <4>1 DEF Recorded, Excused
    <3> QED BY <1>7, <3>1, <3>2
  <2> QED BY <1>7, <2>2, <2>3 DEF Excused
<1> QED BY <1>1, <1>3, <1>4, <1>5, <1>6, <1>7

LEMMA CompleteKept ==
    ASSUME NEW c, CallTyped(c), StoreTyped, Possible(c), Do(c), Ready(c), sent' = sent,
           CompleteSent
    PROVE  CompleteSent'
<1> SUFFICES ASSUME NEW m \in Memories, table'[m] # Absent, table'[m].status = "complete"
             PROVE  AllSent(m)'
  BY DEF CompleteSent
<1>1. CASE table[m] # Absent /\ table[m].status = "complete"
  BY <1>1 DEF CompleteSent, AllSent
<1>2. CASE c.at = m /\ c.do = "status" /\ c.on = "complete"
  BY <1>2 DEF Ready, AllSent
<1> QED BY <1>1, <1>2, RowChange

LEMMA UploadKept ==
    ASSUME NEW c, CallTyped(c), StoreTyped, Possible(c), Do(c),
           Cut(c) \subseteq spoiled', spoiled \subseteq spoiled', doomed' = doomed \cup Doom(c),
           NEW d \in Dirs, NEW n \in Names, Whole(d, n) \/ Excused(d, n)
    PROVE  Whole(d, n)' \/ Excused(d, n)'
<1>1. CASE Excused(d, n) BY <1>1 DEF Excused
<1>2. CASE Whole(d, n)
  <2>1. CASE c.do = "truncate" /\ c.at = d /\ c.on = n BY <2>1 DEF Cut, Excused
  <2>2. CASE c.do = "remove" /\ c.at = d BY <2>2 DEF Doom, Excused
  <2> QED BY <1>2, <2>1, <2>2, WholeStays
<1> QED BY <1>1, <1>2

-----------------------------------------------------------------------------
(* The stages of a handler: the next call, and what comes after it.         *)
CreateStage(h, c, t) ==
    LET m == h.memory IN
    \/ /\ c = Call("mkdir", m, Absent, 0)
       /\ \E body \in {<< >>, Upload(m, Body, 1)} : t = << Call("insert", m, h.on, 0) >> \o body
    \/ c = Call("insert", m, h.on, 0) /\ t \in {<< >>, Upload(m, Body, 1)}
    \/ c = Call("truncate", m, Body, 1) /\ t = << Call("write", m, Body, 1) >>
    \/ c = Call("write", m, Body, 1) /\ t = << >>
    \/ \E i \in 1..Thumbs :
          /\ \A j \in h.more : i < j
          /\ \/ c = Call("write", m, i, i) /\ t = << Call("count", m, i, i), Call("add", m, i, i) >>
             \/ c = Call("count", m, i, i) /\ t = << Call("add", m, i, i) >>
             \/ c = Call("add", m, i, i) /\ t = << >>

LEMMA CreateStages ==
    ASSUME NEW h, Creating(h), h.todo # << >>
    PROVE  CreateStage(h, Head(h.todo), Tail(h.todo))
<1> DEFINE m == h.memory
<1>0. PICK q : q = h.todo OBVIOUS
<1>1. PICK mk, ins, tr, wr : /\ mk = Call("mkdir", m, Absent, 0) /\ ins = Call("insert", m, h.on, 0)
                             /\ tr = Call("truncate", m, Body, 1) /\ wr = Call("write", m, Body, 1)
  OBVIOUS
<1>u. Upload(m, Body, 1) = <<tr, wr>> BY <1>1 DEF Upload
<1>r. Registered(m, h.on) = <<mk, ins>> BY <1>1 DEF Registered
<1>2. CASE \E body \in {<< >>, Upload(m, Body, 1)} : h.todo = Registered(m, h.on) \o body
  <2>1. PICK body \in {<< >>, <<tr, wr>>} : q = <<mk, ins>> \o body BY <1>0, <1>2, <1>u, <1>r
  <2>2. CASE body = << >>
    <3>1. q = <<mk, ins>> BY <2>1, <2>2, Joins
    <3>2. Head(q) = mk /\ Tail(q) = <<ins>> BY <3>1, Tails
    <3>3. Tail(q) = <<ins>> \o << >> BY <3>2, Joins
    <3> QED BY <1>0, <1>1, <3>2, <3>3 DEF CreateStage
  <2>3. CASE body = <<tr, wr>>
    <3>1. q = <<mk, ins, tr, wr>> BY <2>1, <2>3, Joins
    <3>2. Head(q) = mk /\ Tail(q) = <<ins, tr, wr>> BY <3>1, Tails
    <3>3. <<ins>> \o <<tr, wr>> = <<ins, tr, wr>>
      <4>1. \A a, b, c : <<a>> \o <<b, c>> = <<a, b, c>> BY Joins
      <4> QED BY <4>1
    <3>4. Tail(q) = <<ins>> \o <<tr, wr>> BY <3>2, <3>3, ZenonT(60)
    <3> QED BY <1>0, <1>1, <1>u, <3>2, <3>4 DEF CreateStage
  <2> QED BY <2>1, <2>2, <2>3
<1>3. CASE \E body \in {<< >>, Upload(m, Body, 1)} : h.todo = << Call("insert", m, h.on, 0) >> \o body
  <2>1. PICK body \in {<< >>, <<tr, wr>>} : q = <<ins>> \o body BY <1>0, <1>1, <1>3, <1>u
  <2>2. Head(q) = ins /\ Tail(q) = body
    <3>1. CASE body = << >>
      <4>1. q = <<ins>> BY <2>1, <3>1, Joins
      <4> QED BY <3>1, <4>1, Tails
    <3>2. CASE body = <<tr, wr>>
      <4>1. q = <<ins, tr, wr>> BY <2>1, <3>2, Joins
      <4> QED BY <3>2, <4>1, Tails
    <3> QED BY <2>1, <3>1, <3>2
  <2> QED BY <1>0, <1>1, <1>u, <2>1, <2>2 DEF CreateStage
<1>4. CASE h.todo \in {Upload(m, Body, 1), << Call("write", m, Body, 1) >>}
  <2>1. q = <<tr, wr>> \/ q = <<wr>> BY <1>0, <1>1, <1>4, <1>u
  <2>2. (Head(q) = tr /\ Tail(q) = <<wr>>) \/ (Head(q) = wr /\ Tail(q) = << >>)
    <3>1. CASE q = <<tr, wr>> BY <3>1, Tails, Zenon
    <3>2. CASE q = <<wr>> BY <3>2, Tails, Zenon
    <3> QED BY <2>1, <3>1, <3>2
  <2> QED BY <1>0, <1>1, <2>2 DEF CreateStage
<1>5. CASE \E i \in 1..Thumbs :
             /\ h.todo \in {Thumbnail(m, i), << Call("count", m, i, i), Call("add", m, i, i) >>,
                            << Call("add", m, i, i) >>}
             /\ \A j \in h.more : i < j
  <2>1. PICK i \in 1..Thumbs :
             /\ h.todo \in {Thumbnail(m, i), << Call("count", m, i, i), Call("add", m, i, i) >>,
                            << Call("add", m, i, i) >>}
             /\ \A j \in h.more : i < j
    BY <1>5
  <2>2. PICK w, n, a : /\ w = Call("write", m, i, i) /\ n = Call("count", m, i, i)
                       /\ a = Call("add", m, i, i)
    OBVIOUS
  <2>3. q \in {<<w, n, a>>, <<n, a>>, <<a>>} BY <1>0, <2>1, <2>2 DEF Thumbnail
  <2>4. \/ Head(q) = w /\ Tail(q) = <<n, a>>
        \/ Head(q) = n /\ Tail(q) = <<a>>
        \/ Head(q) = a /\ Tail(q) = << >>
    <3>1. CASE q = <<w, n, a>>
      <4>1. Head(<<w, n, a>>) = w /\ Tail(<<w, n, a>>) = <<n, a>> OBVIOUS
      <4> QED BY <3>1, <4>1, Zenon
    <3>2. CASE q = <<n, a>> BY <3>2, Tails, Zenon
    <3>3. CASE q = <<a>> BY <3>3, Tails, Zenon
    <3> QED BY <2>3, <3>1, <3>2, <3>3
  <2> QED BY <1>0, <2>1, <2>2, <2>4 DEF CreateStage
<1> QED BY <1>2, <1>3, <1>4, <1>5 DEF Creating

OtherStage(h, c, t) ==
    LET m == h.memory  d == url[m][h.on] IN
    \/ /\ h.op = "put" /\ h.on \in Assets /\ d \in {m, Unknown}
       /\ \/ c = Call("mkdir", d, Absent, 0) /\ t = Upload(d, h.on, 0)
          \/ c = Call("truncate", d, h.on, 0) /\ t = << Call("write", d, h.on, 0) >>
          \/ c = Call("write", d, h.on, 0) /\ t = << >>
    \/ h.op = "complete" /\ c = Call("status", m, "complete", 0) /\ t = << >>
    \/ h.op = "fail" /\ c = Call("status", m, "failed", 0) /\ t = << >>
    \/ /\ h.op = "delete"
       /\ \/ c = Call("remove", m, Absent, 0) /\ t = << Call("delete", m, Absent, 0) >>
          \/ c = Call("delete", m, Absent, 0) /\ t = << >>

LEMMA OtherStages ==
    ASSUME HolderOK, Busy, holder.op # "create"
    PROVE  OtherStage(holder, Next1, Tail(holder.todo)) /\ holder.more = {}
<1> DEFINE m == holder.memory
           d == url[m][holder.on]
<1>0. PICK q : q = holder.todo OBVIOUS
<1>n. q # << >> /\ Next1 = Head(q) BY <1>0, SMTT(30) DEF Busy, Next1
<1>1. CASE holder.op = "put" /\ Putting(holder)
  <2>1. PICK mk, tr, wr : /\ mk = Call("mkdir", d, Absent, 0) /\ tr = Call("truncate", d, holder.on, 0)
                          /\ wr = Call("write", d, holder.on, 0)
    OBVIOUS
  <2>2. Upload(d, holder.on, 0) = <<tr, wr>> BY <2>1 DEF Upload
  <2>3. /\ holder.on \in Assets /\ holder.more = {} /\ d \in {m, Unknown}
        /\ q \in {<<mk>> \o <<tr, wr>>, <<tr, wr>>, <<wr>>}
    BY <1>0, <1>1, <1>n, <2>1, <2>2 DEF Putting
  <2>4. q \in {<<mk, tr, wr>>, <<tr, wr>>, <<wr>>} BY <2>3, Joins
  <2>5. \/ Head(q) = mk /\ Tail(q) = <<tr, wr>>
        \/ Head(q) = tr /\ Tail(q) = <<wr>>
        \/ Head(q) = wr /\ Tail(q) = << >>
    <3>1. CASE q = <<mk, tr, wr>>
      <4>1. Head(<<mk, tr, wr>>) = mk /\ Tail(<<mk, tr, wr>>) = <<tr, wr>> OBVIOUS
      <4> QED BY <3>1, <4>1, Zenon
    <3>2. CASE q = <<tr, wr>> BY <3>2, Tails, Zenon
    <3>3. CASE q = <<wr>> BY <3>3, Tails, Zenon
    <3> QED BY <2>4, <3>1, <3>2, <3>3
  <2> QED BY <1>0, <1>1, <1>n, <2>1, <2>2, <2>3, <2>5 DEF OtherStage
<1>2. CASE holder.op = "complete" /\ Completing(holder)
  <2>1. PICK st : st = Call("status", m, "complete", 0) OBVIOUS
  <2>2. q = <<st>> /\ holder.more = {} BY <1>0, <1>2, <1>n, <2>1 DEF Completing
  <2>3. Head(q) = st /\ Tail(q) = << >> BY <2>2, Tails
  <2> QED BY <1>0, <1>2, <1>n, <2>1, <2>2, <2>3 DEF OtherStage
<1>3. CASE holder.op = "fail" /\ Failing(holder)
  <2>1. PICK st : st = Call("status", m, "failed", 0) OBVIOUS
  <2>2. q = <<st>> /\ holder.more = {} BY <1>0, <1>3, <1>n, <2>1 DEF Failing
  <2>3. Head(q) = st /\ Tail(q) = << >> BY <2>2, Tails
  <2> QED BY <1>0, <1>3, <1>n, <2>1, <2>2, <2>3 DEF OtherStage
<1>4. CASE holder.op = "delete" /\ Deleting(holder)
  <2>1. PICK rm, del : rm = Call("remove", m, Absent, 0) /\ del = Call("delete", m, Absent, 0)
    OBVIOUS
  <2>2. q \in {<<rm, del>>, <<del>>} /\ holder.more = {} BY <1>0, <1>4, <1>n, <2>1 DEF Deleting
  <2>3. (Head(q) = rm /\ Tail(q) = <<del>>) \/ (Head(q) = del /\ Tail(q) = << >>)
    <3>1. CASE q = <<rm, del>> BY <3>1, Tails, Zenon
    <3>2. CASE q = <<del>> BY <3>2, Tails, Zenon
    <3> QED BY <2>2, <3>1, <3>2
  <2> QED BY <1>0, <1>4, <1>n, <2>1, <2>2, <2>3 DEF OtherStage
<1> QED BY <1>1, <1>2, <1>3, <1>4 DEF HolderOK, Busy

(* What a handler has to do when a part of its work is over.                *)
LEMMA OnwardIs ==
    ASSUME HolderOK, holder # Free, holder.more \subseteq 1..Thumbs
    PROVE  LET h == holder IN
           /\ \A todo : todo # << >> \/ h.more = {} =>
                 Onward(todo) = Handler(h.op, h.memory, h.on, todo, h.more, h.changed)
           /\ h.more # {} =>
                 \E i \in h.more :
                    /\ \A j \in h.more \ {i} : i < j
                    /\ Onward(<< >>) = Handler(h.op, h.memory, h.on, Thumbnail(h.memory, i),
                                               h.more \ {i}, h.changed)
<1>1. holder = Handler(holder.op, holder.memory, holder.on, holder.todo, holder.more, holder.changed)
  BY DEF HolderOK
<1>2. PICK op, m, on, q, more, ch :
        /\ op = holder.op /\ m = holder.memory /\ on = holder.on /\ q = holder.todo
        /\ more = holder.more /\ ch = holder.changed
  OBVIOUS
<1>3. holder = Handler(op, m, on, q, more, ch) BY <1>1, <1>2
<1>4. ASSUME NEW todo, todo # << >> \/ more = {}
      PROVE  Onward(todo) = Handler(op, m, on, todo, more, ch)
  <2>1. Onward(todo) = [holder EXCEPT !.todo = todo] BY <1>2, <1>4 DEF Onward
  <2>2. [Handler(op, m, on, q, more, ch) EXCEPT !.todo = todo] = Handler(op, m, on, todo, more, ch)
    BY DEF Handler
  <2> QED BY <1>3, <2>1, <2>2
<1>5. ASSUME more # {}
      PROVE  \E i \in more :
                    /\ \A j \in more \ {i} : i < j
                    /\ Onward(<< >>) = Handler(op, m, on, Thumbnail(m, i), more \ {i}, ch)
  <2>1. PICK i : i = Min(more) OBVIOUS
  <2>2. i \in more /\ \A j \in more \ {i} : i < j
    <3>1. more \in SUBSET (1..Thumbs) BY <1>2
    <3> QED BY <1>5, <2>1, <3>1, LeastOf
  <2>3. PICK t : t = Thumbnail(m, i) OBVIOUS
  <2>4. Onward(<< >>) = [holder EXCEPT !.todo = t, !.more = @ \ {i}]
    BY <1>2, <1>5, <2>1, <2>3 DEF Onward
  <2>5. [holder EXCEPT !.todo = t, !.more = @ \ {i}] = Handler(op, m, on, t, more \ {i}, ch)
    <3>1. PICK s : s = more \ {i} OBVIOUS
    <3>2. [holder EXCEPT !.todo = t, !.more = @ \ {i}] = [holder EXCEPT !.todo = t, !.more = s]
      BY <1>2, <3>1
    <3>3. [Handler(op, m, on, q, more, ch) EXCEPT !.todo = t] = Handler(op, m, on, t, more, ch)
      BY DEF Handler
    <3>4. [Handler(op, m, on, t, more, ch) EXCEPT !.more = s] = Handler(op, m, on, t, s, ch)
      BY DEF Handler
    <3>5. [holder EXCEPT !.todo = t, !.more = s] = [[holder EXCEPT !.todo = t] EXCEPT !.more = s]
      OBVIOUS
    <3> QED BY <1>3, <3>1, <3>2, <3>3, <3>4, <3>5
  <2> QED BY <2>2, <2>3, <2>4, <2>5
<1> QED BY <1>2, <1>4, <1>5

-----------------------------------------------------------------------------
(* The head of a handler's work, and the handler when that is done.         *)
LEMMA CreateHead ==
    ASSUME HolderOK, Busy, holder.op = "create"
    PROVE  LET c == Next1 IN
           /\ Creating(holder) /\ holder.memory \in born /\ c.at = holder.memory
           /\ \/ c.do = "mkdir" /\ c.part = 0
              \/ c.do = "insert" /\ c.part = 0 /\ c.on = holder.on /\ c.on \in {Assets, {}}
              \/ c.do \in {"truncate", "write"} /\ c.part # 0 /\ c.on = Body
              \/ /\ c.do \in {"write", "count", "add"} /\ c.part # 0 /\ c.on \in 1..Thumbs
                 /\ \A j \in holder.more : c.on < j
<1>1. Creating(holder) /\ holder.memory \in born /\ holder.todo # << >>
  BY DEF HolderOK, Busy
<1>2. PICK c, t : c = Next1 /\ t = Tail(holder.todo) OBVIOUS
<1>3. CreateStage(holder, c, t) BY <1>1, <1>2, CreateStages DEF Next1
<1>4. holder.on \in {Assets, {}} BY <1>1 DEF Creating
<1>5. CASE c = Call("mkdir", holder.memory, Absent, 0)
  BY <1>1, <1>2, <1>5, FieldsOfCall
<1>6. CASE c = Call("insert", holder.memory, holder.on, 0)
  BY <1>1, <1>2, <1>4, <1>6, FieldsOfCall
<1>7. CASE c = Call("truncate", holder.memory, Body, 1) \/ c = Call("write", holder.memory, Body, 1)
  BY <1>1, <1>2, <1>7, FieldsOfCall
<1>8. CASE \E i \in 1..Thumbs :
              /\ \A j \in holder.more : i < j
              /\ c \in {Call("write", holder.memory, i, i), Call("count", holder.memory, i, i),
                        Call("add", holder.memory, i, i)}
  <2>1. PICK i \in 1..Thumbs :
              /\ \A j \in holder.more : i < j
              /\ c \in {Call("write", holder.memory, i, i), Call("count", holder.memory, i, i),
                        Call("add", holder.memory, i, i)}
    BY <1>8
  <2>2. c.at = holder.memory /\ c.on = i /\ c.part = i /\ c.do \in {"write", "count", "add"}
    BY <2>1, FieldsOfCall
  <2>3. i # 0 BY MediaAssumption
  <2> QED BY <1>1, <1>2, <2>1, <2>2, <2>3
<1> QED BY <1>3, <1>5, <1>6, <1>7, <1>8 DEF CreateStage

LEMMA OtherHead ==
    ASSUME HolderOK, Busy, holder.op # "create"
    PROVE  LET c == Next1  m == holder.memory  d == url[m][holder.on] IN
           /\ m \in born /\ c.part = 0 /\ holder.more = {}
           /\ \/ /\ holder.op = "put" /\ holder.on \in Assets /\ d \in {m, Unknown} /\ c.at = d
                 /\ \/ c.do = "mkdir"
                    \/ c.do \in {"truncate", "write"} /\ c.on = holder.on
              \/ holder.op = "complete" /\ c.at = m /\ c.do = "status" /\ c.on = "complete"
              \/ holder.op = "fail" /\ c.at = m /\ c.do = "status" /\ c.on = "failed"
              \/ holder.op = "delete" /\ c.at = m /\ c.do \in {"remove", "delete"}
<1>1. holder.memory \in born BY DEF HolderOK, Busy
<1>2. PICK c, t, m, d : /\ c = Next1 /\ t = Tail(holder.todo) /\ m = holder.memory
                        /\ d = url[m][holder.on]
  OBVIOUS
<1>3. OtherStage(holder, c, t) /\ holder.more = {} BY <1>2, OtherStages
<1>4. CASE /\ holder.op = "put" /\ holder.on \in Assets /\ d \in {m, Unknown}
           /\ \/ c = Call("mkdir", d, Absent, 0)
              \/ c = Call("truncate", d, holder.on, 0)
              \/ c = Call("write", d, holder.on, 0)
  BY <1>1, <1>2, <1>3, <1>4, FieldsOfCall
<1>5. CASE holder.op = "complete" /\ c = Call("status", m, "complete", 0)
  BY <1>1, <1>2, <1>3, <1>5, FieldsOfCall
<1>6. CASE holder.op = "fail" /\ c = Call("status", m, "failed", 0)
  BY <1>1, <1>2, <1>3, <1>6, FieldsOfCall
<1>7. CASE holder.op = "delete" /\ c \in {Call("remove", m, Absent, 0), Call("delete", m, Absent, 0)}
  BY <1>1, <1>2, <1>3, <1>7, FieldsOfCall
<1> QED BY <1>2, <1>3, <1>4, <1>5, <1>6, <1>7 DEF OtherStage

LEMMA HeadTyped ==
    ASSUME MediaInv, Busy
    PROVE  /\ CallTyped(Next1) /\ Ready(Next1)
           /\ holder.memory \in born /\ holder.memory \in Memories
           /\ Next1.at = holder.memory \/ (Next1.at = Unknown /\ holder.op = "put")
<1>0. HolderOK /\ MediaTyped /\ CreationAlone /\ Writing BY DEF MediaInv
<1>1. PICK c, m : c = Next1 /\ m = holder.memory OBVIOUS
<1>d. \A x : Doing(x) <=> c.do = x BY <1>1 DEF Doing
<1>m. m \in born => m \in Memories /\ m \in Dirs BY <1>0 DEF MediaTyped, Dirs
<1>u. Unknown \in Dirs BY DEF Dirs
<1>2. CASE holder.op = "create"
  <2>0. /\ m \in born /\ c.at = m
        /\ \/ c.do = "mkdir"
           \/ c.do = "insert" /\ c.on \in {Assets, {}}
           \/ c.do \in {"truncate", "write"} /\ c.on = Body
           \/ c.do \in {"write", "count", "add"} /\ c.on \in 1..Thumbs
    BY <1>0, <1>1, <1>2, CreateHead
  <2>1. Assets \subseteq Names /\ Body \in Names \ 1..Thumbs /\ 1..Thumbs \subseteq Names
    BY MediaAssumption DEF Names
  <2>2. CallTyped(c) BY <1>m, <2>0, <2>1 DEF CallTyped, Doings, OfFiles
  <2>3. c.do = "insert" => disk[c.at] # Absent
    BY <1>0, <1>1, <1>2, <1>d, <2>0 DEF CreationAlone
  <2>4. c.do = "count" => Whole(c.at, c.on)
    <3> SUFFICES ASSUME c.do = "count" PROVE Whole(c.at, c.on) OBVIOUS
    <3>1. ~ Doing("mkdir") /\ ~ Doing("insert") BY <1>d
    <3>2. c.on \in 1..Thumbs BY <2>0
    <3> QED BY <1>0, <1>1, <1>2, <2>0, <3>1, <3>2 DEF CreationAlone
  <2>5. Ready(c) BY <2>0, <2>3, <2>4 DEF Ready
  <2> QED BY <1>1, <1>m, <2>0, <2>2, <2>5
<1>3. CASE holder.op # "create"
  <2>0. /\ m \in born
        /\ \/ /\ holder.op = "put" /\ c.at \in {m, Unknown}
              /\ \/ c.do = "mkdir"
                 \/ c.do \in {"truncate", "write"} /\ c.on \in Assets
           \/ c.at = m /\ c.do = "status" /\ c.on \in {"complete", "failed"}
           \/ c.at = m /\ c.do \in {"remove", "delete"}
    BY <1>0, <1>1, <1>3, OtherHead
  <2>1. Assets \subseteq Names \ 1..Thumbs
    BY MediaAssumption DEF Names
  <2>2. CallTyped(c) BY <1>m, <1>u, <2>0, <2>1 DEF CallTyped, Doings, OfFiles
  <2>3. c.do = "status" /\ c.on = "complete" => AllSent(c.at)
    BY <1>0, <1>1, <1>d DEF Writing
  <2>4. Ready(c) BY <2>0, <2>3 DEF Ready
  <2> QED BY <1>1, <1>m, <2>0, <2>2, <2>4
<1> QED BY <1>2, <1>3

-----------------------------------------------------------------------------
(* The handler after a step.                                                *)
GoesOn(todo, b) == holder' = [Onward(todo) EXCEPT !.changed = b]

AfterPart ==
    \/ ~ Busy' /\ holder'.more = {}
    \/ \E i \in holder.more :
          /\ Busy' /\ Next1' = Call("write", holder.memory, i, i)
          /\ holder'.more = holder.more \ {i} /\ \A j \in holder'.more : i < j

Then(c) == Busy' /\ Next1' = c /\ holder'.more = holder.more

Follows(c) ==
    LET m == holder.memory IN
    \/ c.do = "mkdir" /\ Then(Call("insert", m, holder.on, 0))
    \/ c.do = "insert" /\ (Then(Call("truncate", m, Body, 1)) \/ AfterPart)
    \/ c.do = "truncate" /\ Then(Call("write", m, Body, 1))
    \/ c.do = "write" /\ c.on = Body /\ AfterPart
    \/ c.do = "write" /\ c.on \in 1..Thumbs /\ Then(Call("count", m, c.on, c.on))
    \/ c.do = "count" /\ Then(Call("add", m, c.on, c.on))
    \/ c.do = "add" /\ AfterPart

LEMMA HolderIs ==
    ASSUME NEW op, NEW m, NEW on, NEW todo, NEW more, NEW ch,
           holder' = Handler(op, m, on, todo, more, ch), op # "none"
    PROVE  /\ holder' = Handler(holder'.op, holder'.memory, holder'.on, holder'.todo,
                                holder'.more, holder'.changed)
           /\ holder'.op = op /\ holder'.memory = m /\ holder'.on = on
           /\ holder'.todo = todo /\ holder'.more = more /\ holder'.changed = ch
           /\ holder' # Free
           /\ Busy' <=> todo # << >>
           /\ Next1' = Head(todo)
<1>1. /\ holder'.op = op /\ holder'.memory = m /\ holder'.on = on
      /\ holder'.todo = todo /\ holder'.more = more /\ holder'.changed = ch
  BY DEF Handler
<1>2. Free.op = "none" BY DEF Free
<1>3. holder' # Free BY <1>1, <1>2
<1> QED BY <1>1, <1>3 DEF Busy, Next1

LEMMA SetChanged ==
    \A op, m, on, todo, more, ch, b :
        [Handler(op, m, on, todo, more, ch) EXCEPT !.changed = b] = Handler(op, m, on, todo, more, b)
BY DEF Handler

LEMMA CreateOK ==
    ASSUME NEW m, m \in born', NEW on, NEW todo, NEW more, NEW b \in BOOLEAN,
           holder' = Handler("create", m, on, todo, more, b),
           Creating(Handler("create", m, on, todo, more, b))
    PROVE  HolderOK'
<1>1. PICK h : h = Handler("create", m, on, todo, more, b) OBVIOUS
<1>2. holder' = h /\ Creating(h) BY <1>1
<1>3. /\ holder' = Handler(holder'.op, holder'.memory, holder'.on, holder'.todo,
                           holder'.more, holder'.changed)
      /\ holder'.op = "create" /\ holder'.memory = m /\ holder'.changed = b
  BY HolderIs
<1>4. Creating(holder)' BY <1>2
<1> QED BY <1>3, <1>4 DEF HolderOK

LEMMA PartOver ==
    ASSUME HolderOK, holder.op = "create", Creating(holder), NEW b \in BOOLEAN, born' = born,
           GoesOn(<< >>, b)
    PROVE  HolderOK' /\ holder'.op = "create" /\ holder'.memory = holder.memory /\ AfterPart
<1>1. PICK m, on, more, ch : /\ m = holder.memory /\ on = holder.on /\ more = holder.more
                             /\ ch = holder.changed
  OBVIOUS
<1>2. holder # Free /\ m \in born BY <1>1 DEF HolderOK, Free
<1>3. on \in {Assets, {}} /\ more \subseteq 1..Thumbs BY <1>1 DEF Creating
<1>4. CASE more = {}
  <2>1. Onward(<< >>) = Handler("create", m, on, << >>, more, ch)
    BY <1>1, <1>2, <1>3, <1>4, OnwardIs
  <2>2. holder' = Handler("create", m, on, << >>, more, b) BY <2>1, SetChanged DEF GoesOn
  <2>3. PICK h : h = Handler("create", m, on, << >>, more, b) OBVIOUS
  <2>4. h.memory = m /\ h.on = on /\ h.todo = << >> /\ h.more = more BY <2>3, FieldsOfHandler
  <2>5. Creating(h) BY <1>3, <1>4, <2>4 DEF Creating
  <2>6. HolderOK' BY <1>2, <2>2, <2>3, <2>5, CreateOK
  <2>7. ~ Busy' /\ holder'.more = {} /\ holder'.op = "create" /\ holder'.memory = m
    BY <1>4, <2>2, HolderIs
  <2> QED BY <1>1, <2>6, <2>7 DEF AfterPart
<1>5. CASE more # {}
  <2>1. PICK i \in more :
           /\ \A j \in more \ {i} : i < j
           /\ Onward(<< >>) = Handler("create", m, on, Thumbnail(m, i), more \ {i}, ch)
    BY <1>1, <1>2, <1>3, <1>5, OnwardIs
  <2>0. PICK t, rest : t = Thumbnail(m, i) /\ rest = more \ {i} OBVIOUS
  <2>2. holder' = Handler("create", m, on, t, rest, b) BY <2>0, <2>1, SetChanged DEF GoesOn
  <2>3. PICK h : h = Handler("create", m, on, t, rest, b) OBVIOUS
  <2>4. h.memory = m /\ h.on = on /\ h.todo = t /\ h.more = rest BY <2>3, FieldsOfHandler
  <2>5. Creating(h)
    <3>1. i \in 1..Thumbs /\ rest \subseteq 1..Thumbs BY <1>3, <2>0
    <3>2. \A j \in rest : i < j BY <2>0, <2>1
    <3> QED BY <1>3, <2>0, <2>4, <3>1, <3>2 DEF Creating
  <2>6. HolderOK' BY <1>2, <2>2, <2>3, <2>5, CreateOK
  <2>7. t # << >> /\ Head(t) = Call("write", m, i, i)
    <3>1. PICK w, n, a : /\ w = Call("write", m, i, i) /\ n = Call("count", m, i, i)
                         /\ a = Call("add", m, i, i)
      OBVIOUS
    <3>2. t = <<w, n, a>> BY <2>0, <3>1 DEF Thumbnail
    <3>3. t # << >> /\ Head(t) = w BY <3>2
    <3> QED BY <3>1, <3>3
  <2>8. /\ Busy' /\ Next1' = Call("write", m, i, i) /\ holder'.more = rest
        /\ holder'.op = "create" /\ holder'.memory = m
    BY <2>2, <2>7, HolderIs
  <2> QED BY <1>1, <2>0, <2>1, <2>6, <2>8 DEF AfterPart
<1> QED BY <1>4, <1>5

LEMMA CreateStep ==
    ASSUME HolderOK, Busy, holder.op = "create", NEW b \in BOOLEAN, born' = born,
           GoesOn(Tail(holder.todo), b)
    PROVE  HolderOK' /\ holder'.op = "create" /\ holder'.memory = holder.memory /\ Follows(Next1)
<1>0. Creating(holder) /\ holder.todo # << >> BY DEF HolderOK, Busy
<1>1. PICK c, t, m, on, more, ch :
         /\ c = Next1 /\ t = Tail(holder.todo) /\ m = holder.memory /\ on = holder.on
         /\ more = holder.more /\ ch = holder.changed
  OBVIOUS
<1>2. CreateStage(holder, c, t) BY <1>0, <1>1, CreateStages DEF Next1
<1>3. on \in {Assets, {}} /\ more \subseteq 1..Thumbs /\ m \in born
  BY <1>0, <1>1 DEF Creating, HolderOK, Busy
<1>4. ASSUME t # << >>
      PROVE  holder' = Handler("create", m, on, t, more, b)
  <2>1. holder # Free BY DEF Busy
  <2>2. Onward(t) = Handler("create", m, on, t, more, ch) BY <1>1, <1>3, <1>4, <2>1, OnwardIs
  <2> QED BY <1>1, <2>2, SetChanged DEF GoesOn
<1>5. ASSUME t # << >>,
             \A h : h.memory = m /\ h.on = on /\ h.todo = t /\ h.more = more => Creating(h)
      PROVE  /\ HolderOK' /\ holder'.op = "create" /\ holder'.memory = m
             /\ Busy' /\ Next1' = Head(t) /\ holder'.more = more
  <2>1. PICK h : h = Handler("create", m, on, t, more, b) OBVIOUS
  <2>2. holder' = h BY <1>4, <1>5, <2>1
  <2>3. h.memory = m /\ h.on = on /\ h.todo = t /\ h.more = more BY <2>1, FieldsOfHandler
  <2>4. Creating(h) BY <1>5, <2>3
  <2>5. HolderOK' BY <1>3, <2>1, <2>2, <2>4, CreateOK
  <2>6. /\ holder'.op = "create" /\ holder'.memory = m
        /\ Busy' /\ Next1' = Head(t) /\ holder'.more = more
    BY <1>5, <2>1, <2>2, HolderIs
  <2> QED BY <2>5, <2>6
<1>6. ASSUME t = << >>
      PROVE  HolderOK' /\ holder'.op = "create" /\ holder'.memory = m /\ AfterPart
  BY <1>0, <1>1, <1>6, PartOver
<1>7. CASE /\ c = Call("mkdir", m, Absent, 0)
           /\ \E body \in {<< >>, Upload(m, Body, 1)} : t = << Call("insert", m, on, 0) >> \o body
  <2>1. PICK body \in {<< >>, Upload(m, Body, 1)} : t = << Call("insert", m, on, 0) >> \o body
    BY <1>7
  <2>2. t # << >> /\ Head(t) = Call("insert", m, on, 0)
    <3>1. PICK ins, tr, wr : /\ ins = Call("insert", m, on, 0)
                             /\ tr = Call("truncate", m, Body, 1) /\ wr = Call("write", m, Body, 1)
      OBVIOUS
    <3>2. body = << >> \/ body = <<tr, wr>> BY <3>1 DEF Upload
    <3>3. CASE body = << >>
      <4>1. t = <<ins>> BY <2>1, <3>1, <3>3, Joins
      <4> QED BY <3>1, <4>1
    <3>4. CASE body = <<tr, wr>>
      <4>1. <<ins>> \o <<tr, wr>> = <<ins, tr, wr>>
        <5>1. \A x, y, z : <<x>> \o <<y, z>> = <<x, y, z>> BY Joins
        <5> QED BY <5>1
      <4>2. t = <<ins, tr, wr>> BY <2>1, <3>1, <3>4, <4>1
      <4> QED BY <3>1, <4>2
    <3> QED BY <3>2, <3>3, <3>4
  <2>3. \A h : h.memory = m /\ h.on = on /\ h.todo = t /\ h.more = more => Creating(h)
    BY <1>3, <2>1 DEF Creating
  <2>4. c.do = "mkdir" BY <1>7, FieldsOfCall
  <2> QED BY <1>1, <1>5, <2>2, <2>3, <2>4 DEF Follows, Then
<1>8. CASE c = Call("insert", m, on, 0) /\ t \in {<< >>, Upload(m, Body, 1)}
  <2>1. c.do = "insert" BY <1>8, FieldsOfCall
  <2>2. CASE t = << >> BY <1>1, <1>6, <2>1, <2>2 DEF Follows
  <2>3. CASE t = Upload(m, Body, 1)
    <3>1. t # << >> /\ Head(t) = Call("truncate", m, Body, 1)
      <4>1. PICK tr, wr : tr = Call("truncate", m, Body, 1) /\ wr = Call("write", m, Body, 1)
        OBVIOUS
      <4>2. t = <<tr, wr>> BY <2>3, <4>1 DEF Upload
      <4> QED BY <4>1, <4>2
    <3>2. \A h : h.memory = m /\ h.on = on /\ h.todo = t /\ h.more = more => Creating(h)
      BY <1>3, <2>3 DEF Creating
    <3> QED BY <1>1, <1>5, <2>1, <3>1, <3>2 DEF Follows, Then
  <2> QED BY <1>8, <2>2, <2>3
<1>9. CASE c = Call("truncate", m, Body, 1) /\ t = << Call("write", m, Body, 1) >>
  <2>1. c.do = "truncate" BY <1>9, FieldsOfCall
  <2>2. t # << >> /\ Head(t) = Call("write", m, Body, 1) BY <1>9, Tails
  <2>3. \A h : h.memory = m /\ h.on = on /\ h.todo = t /\ h.more = more => Creating(h)
    BY <1>3, <1>9 DEF Creating
  <2> QED BY <1>1, <1>5, <2>1, <2>2, <2>3 DEF Follows, Then
<1>10. CASE c = Call("write", m, Body, 1) /\ t = << >>
  <2>1. c.do = "write" /\ c.on = Body BY <1>10, FieldsOfCall
  <2> QED BY <1>1, <1>6, <1>10, <2>1 DEF Follows
<1>11. CASE \E i \in 1..Thumbs :
          /\ \A j \in more : i < j
          /\ \/ c = Call("write", m, i, i) /\ t = << Call("count", m, i, i), Call("add", m, i, i) >>
             \/ c = Call("count", m, i, i) /\ t = << Call("add", m, i, i) >>
             \/ c = Call("add", m, i, i) /\ t = << >>
  <2>1. PICK i \in 1..Thumbs :
          /\ \A j \in more : i < j
          /\ \/ c = Call("write", m, i, i) /\ t = << Call("count", m, i, i), Call("add", m, i, i) >>
             \/ c = Call("count", m, i, i) /\ t = << Call("add", m, i, i) >>
             \/ c = Call("add", m, i, i) /\ t = << >>
    BY <1>11
  <2>2. PICK n, a : n = Call("count", m, i, i) /\ a = Call("add", m, i, i) OBVIOUS
  <2>3. CASE c = Call("write", m, i, i) /\ t = <<n, a>>
    <3>1. c.do = "write" /\ c.on = i BY <2>3, FieldsOfCall
    <3>2. t # << >> /\ Head(t) = n BY <2>3, Tails
    <3>3. \A h : h.memory = m /\ h.on = on /\ h.todo = t /\ h.more = more => Creating(h)
      BY <1>3, <2>1, <2>2, <2>3 DEF Creating
    <3> QED BY <1>1, <1>5, <2>2, <3>1, <3>2, <3>3 DEF Follows, Then
  <2>4. CASE c = n /\ t = <<a>>
    <3>1. c.do = "count" /\ c.on = i BY <2>2, <2>4, FieldsOfCall
    <3>2. t # << >> /\ Head(t) = a BY <2>4, Tails
    <3>3. \A h : h.memory = m /\ h.on = on /\ h.todo = t /\ h.more = more => Creating(h)
      BY <1>3, <2>1, <2>2, <2>4 DEF Creating
    <3> QED BY <1>1, <1>5, <2>2, <3>1, <3>2, <3>3 DEF Follows, Then
  <2>5. CASE c = a /\ t = << >>
    <3>1. c.do = "add" BY <2>2, <2>5, FieldsOfCall
    <3> QED BY <1>1, <1>6, <2>5, <3>1 DEF Follows
  <2> QED BY <2>1, <2>2, <2>3, <2>4, <2>5
<1> QED BY <1>1, <1>2, <1>7, <1>8, <1>9, <1>10, <1>11 DEF CreateStage

-----------------------------------------------------------------------------
(* The other handlers after a step.                                         *)
OtherFollows(c) ==
    LET m == holder.memory  d == url[m][holder.on] IN
    \/ /\ holder.op = "put"
       /\ \/ c.do = "mkdir" /\ Busy' /\ Next1' = Call("truncate", d, holder.on, 0)
          \/ c.do = "truncate" /\ Busy' /\ Next1' = Call("write", d, holder.on, 0)
          \/ c.do = "write" /\ ~ Busy'
    \/ holder.op \in {"complete", "fail"} /\ ~ Busy'
    \/ /\ holder.op = "delete"
       /\ \/ c.do = "remove" /\ Busy' /\ Next1' = Call("delete", m, Absent, 0)
          \/ c.do = "delete" /\ ~ Busy'

LEMMA OtherStep ==
    ASSUME HolderOK, Busy, holder.op # "create", NEW b \in BOOLEAN, born' = born, url' = url,
           GoesOn(Tail(holder.todo), b)
    PROVE  /\ HolderOK' /\ OtherFollows(Next1)
           /\ holder'.op = holder.op /\ holder'.memory = holder.memory
           /\ holder'.on = holder.on /\ holder'.changed = b
<1>0. holder.todo # << >> /\ holder # Free /\ holder.memory \in born /\ holder.op # "none"
  BY DEF HolderOK, Busy, Free
<1>1. PICK c, t, op, m, on, ch, d :
         /\ c = Next1 /\ t = Tail(holder.todo) /\ op = holder.op /\ m = holder.memory
         /\ on = holder.on /\ ch = holder.changed /\ d = url[m][on]
  OBVIOUS
<1>2. OtherStage(holder, c, t) /\ holder.more = {} BY <1>1, OtherStages
<1>3. holder' = Handler(op, m, on, t, {}, b)
  <2>1. Onward(t) = Handler(op, m, on, t, {}, ch)
    BY <1>0, <1>1, <1>2, OnwardIs
  <2> QED BY <1>1, <2>1, SetChanged DEF GoesOn
<1>4. /\ holder' = Handler(holder'.op, holder'.memory, holder'.on, holder'.todo,
                           holder'.more, holder'.changed)
      /\ holder'.op = op /\ holder'.memory = m /\ holder'.on = on
      /\ holder'.todo = t /\ holder'.more = {} /\ holder'.changed = b
      /\ Busy' <=> t # << >>
      /\ Next1' = Head(t)
  <2>1. PICK e : e = {} OBVIOUS
  <2>2. holder' = Handler(op, m, on, t, e, b) /\ op # "none" BY <1>0, <1>1, <1>3, <2>1
  <2>3. /\ holder' = Handler(holder'.op, holder'.memory, holder'.on, holder'.todo,
                             holder'.more, holder'.changed)
        /\ holder'.op = op /\ holder'.memory = m /\ holder'.on = on
        /\ holder'.todo = t /\ holder'.more = e /\ holder'.changed = b
        /\ Busy' <=> t # << >>
        /\ Next1' = Head(t)
    BY <2>2, HolderIs, Zenon
  <2> QED BY <2>1, <2>3, Zenon
<1>5. ASSUME \/ op = "put" /\ Putting(holder)'
             \/ op = "complete" /\ Completing(holder)'
             \/ op = "fail" /\ Failing(holder)'
             \/ op = "delete" /\ Deleting(holder)'
      PROVE  HolderOK'
  <2>1. holder'.memory \in born' BY <1>0, <1>1, <1>4
  <2>2. holder'.changed \in BOOLEAN BY <1>4
  <2> QED BY <1>4, <1>5, <2>1, <2>2 DEF HolderOK
<1>6. CASE op = "put" /\ on \in Assets /\ d \in {m, Unknown}
  <2>0. PICK tr, wr : tr = Call("truncate", d, on, 0) /\ wr = Call("write", d, on, 0) OBVIOUS
  <2>1. Upload(d, on, 0) = <<tr, wr>> BY <2>0 DEF Upload
  <2>2. ASSUME t \in {Upload(d, on, 0), <<wr>>, << >>} PROVE HolderOK'
    <3>1. url'[holder'.memory][holder'.on] = d BY <1>1, <1>4
    <3>2. Putting(holder)' BY <1>4, <1>6, <2>0, <2>2, <3>1, SMTT(30) DEF Putting
    <3> QED BY <1>5, <1>6, <3>2, Zenon
  <2>3. CASE c = Call("mkdir", d, Absent, 0) /\ t = Upload(d, on, 0)
    <3>1. t # << >> /\ Head(t) = tr BY <2>1, <2>3, Tails
    <3>2. c.do = "mkdir" BY <2>3, FieldsOfCall, SMTT(30)
    <3> QED BY <1>1, <1>4, <1>6, <2>0, <2>2, <2>3, <3>1, <3>2 DEF OtherFollows
  <2>4. CASE c = tr /\ t = <<wr>>
    <3>1. t # << >> /\ Head(t) = wr BY <2>4, Tails
    <3>2. c.do = "truncate" BY <2>0, <2>4, FieldsOfCall, SMTT(30)
    <3> QED BY <1>1, <1>4, <1>6, <2>0, <2>2, <2>4, <3>1, <3>2 DEF OtherFollows
  <2>5. CASE c = wr /\ t = << >>
    <3>2. c.do = "write" BY <2>0, <2>5, FieldsOfCall
    <3> QED BY <1>1, <1>4, <1>6, <2>0, <2>2, <2>5, <3>2 DEF OtherFollows
  <2> QED BY <1>1, <1>2, <1>6, <2>0, <2>3, <2>4, <2>5 DEF OtherStage
<1>7. CASE op = "complete" /\ t = << >>
  <2>1. Completing(holder)' BY <1>4, <1>7 DEF Completing
  <2>2. HolderOK' BY <1>5, <1>7, <2>1, Zenon
  <2> QED BY <1>1, <1>4, <1>7, <2>2 DEF OtherFollows
<1>8. CASE op = "fail" /\ t = << >>
  <2>1. Failing(holder)' BY <1>4, <1>8 DEF Failing
  <2>2. HolderOK' BY <1>5, <1>8, <2>1, Zenon
  <2> QED BY <1>1, <1>4, <1>8, <2>2 DEF OtherFollows
<1>9. CASE /\ op = "delete"
           /\ \/ c = Call("remove", m, Absent, 0) /\ t = << Call("delete", m, Absent, 0) >>
              \/ c = Call("delete", m, Absent, 0) /\ t = << >>
  <2>1. PICK del : del = Call("delete", m, Absent, 0) OBVIOUS
  <2>5. Deleting(holder)' BY <1>4, <1>9, <2>1 DEF Deleting
  <2>2. HolderOK' BY <1>5, <1>9, <2>5, Zenon
  <2>3. CASE c = Call("remove", m, Absent, 0) /\ t = <<del>>
    <3>1. t # << >> /\ Head(t) = del BY <2>3, Tails
    <3>2. c.do = "remove" BY <2>3, FieldsOfCall
    <3> QED BY <1>1, <1>4, <1>9, <2>1, <2>2, <3>1, <3>2 DEF OtherFollows
  <2>4. CASE c = del /\ t = << >>
    <3>2. c.do = "delete" BY <2>1, <2>4, FieldsOfCall
    <3> QED BY <1>1, <1>4, <1>9, <2>2, <2>4, <3>2 DEF OtherFollows
  <2> QED BY <1>9, <2>1, <2>3, <2>4
<1> QED BY <1>1, <1>2, <1>6, <1>7, <1>8, <1>9 DEF OtherStage

-----------------------------------------------------------------------------
(* A step of a handler.                                                     *)
WritesItsOwn == MediaTyped /\ HolderOK /\ holder.op \notin {"put", "complete"} => Writing

LEMMA WritingOf == WritesItsOwn
<1> USE DEF WritesItsOwn
<1> SUFFICES ASSUME MediaTyped, HolderOK, holder.op \notin {"put", "complete"} PROVE Writing
  OBVIOUS
<1>1. PICK c : c = Next1 OBVIOUS
<1>2. CASE Busy /\ holder.op = "create"
  <2>1. \/ c.do \in {"mkdir", "insert", "truncate", "count", "add"}
        \/ c.do = "write" /\ c.on \notin Assets
    <3>1. \/ c.do \in {"mkdir", "insert"}
          \/ c.do \in {"truncate", "write"} /\ c.on = Body
          \/ c.do \in {"write", "count", "add"} /\ c.on \in 1..Thumbs
      BY <1>1, <1>2, CreateHead
    <3> QED BY <3>1, MediaAssumption
  <2>2. c.do = "write" => <<c.at, c.on>> \notin sent BY <2>1 DEF MediaTyped
  <2> QED BY <1>1, <1>2, <2>1, <2>2 DEF Writing, Doing
<1>3. CASE Busy /\ holder.op # "create"
  <2>1. (c.do = "status" /\ c.on = "failed") \/ c.do \in {"remove", "delete"}
    BY <1>1, <1>3, OtherHead
  <2> QED BY <1>1, <2>1 DEF Writing, Doing
<1>4. CASE ~ Busy BY <1>4 DEF Writing, Doing
<1> QED BY <1>2, <1>3, <1>4

LEMMA WritingNext == WritesItsOwn'
BY WritingOf, PTL

(* A creation that has registered its memory, and what it still has to add. *)
Underway(m) == /\ table[m] # Absent /\ disk[m] # Absent /\ table[m].status = "pending"
               /\ \A j \in holder.more : table[m].thumbs < j

LEMMA AloneAfterPart ==
    ASSUME AfterPart, NEW m, m = holder.memory, holder.more \subseteq 1..Thumbs,
           holder'.memory = m, Untouched(m)',
           table'[m] # Absent, disk'[m] # Absent, table'[m].status = "pending",
           table'[m].thumbs \in 0..Thumbs, \A j \in holder.more : table'[m].thumbs < j
    PROVE  CreationAlone'
<1>1. CASE ~ Busy' /\ holder'.more = {}
  <2>1. ~ Doing("mkdir")' /\ ~ Doing("insert")' BY <1>1 DEF Doing
  <2> QED BY <1>1, <2>1 DEF CreationAlone
<1>2. CASE \E i \in holder.more :
              /\ Busy' /\ Next1' = Call("write", m, i, i)
              /\ holder'.more = holder.more \ {i} /\ \A j \in holder'.more : i < j
  <2>1. PICK i \in holder.more :
              /\ Busy' /\ Next1' = Call("write", m, i, i)
              /\ holder'.more = holder.more \ {i} /\ \A j \in holder'.more : i < j
    BY <1>2
  <2>2. PICK c : c = Next1' OBVIOUS
  <2>3. c.do = "write" /\ c.on = i BY <2>1, <2>2, FieldsOfCall
  <2>4. ~ Doing("mkdir")' /\ ~ Doing("insert")' BY <2>2, <2>3 DEF Doing
  <2>5. table'[m].thumbs < i /\ \A j \in holder'.more : table'[m].thumbs < j BY <2>1
  <2> QED BY <2>2, <2>3, <2>4, <2>5 DEF CreationAlone
<1> QED BY <1>1, <1>2 DEF AfterPart

LEMMA CreationGoesOn ==
    ASSUME MediaInv, Step, holder.op = "create"
    PROVE  CreationAlone'
<1>0. HolderOK /\ MediaTyped /\ CreationAlone /\ Busy BY DEF MediaInv, Step
<1>1. PICK c, m : c = Next1 /\ m = holder.memory OBVIOUS
<1>d. \A x : Doing(x) <=> c.do = x BY <1>0, <1>1 DEF Doing
<1>2. PICK b \in BOOLEAN : GoesOn(Tail(holder.todo), b)
  <2>1. PICK b : b = (Next1.at \in Memories /\ table[Next1.at] # Absent) OBVIOUS
  <2>2. b \in BOOLEAN BY <2>1, Zenon
  <2>3. GoesOn(Tail(holder.todo), b) BY <2>1, Zenon DEF Step, GoesOn
  <2> QED BY <2>2, <2>3
<1>3. HolderOK' /\ holder'.op = "create" /\ holder'.memory = m /\ Follows(c)
  <2>1. born' = born BY DEF Step, mediaDevice
  <2> QED BY <1>0, <1>1, <1>2, <2>1, CreateStep
<1>4. /\ Creating(holder) /\ m \in born /\ c.at = m
      /\ \/ c.do = "mkdir"
         \/ c.do = "insert" /\ c.on \in {Assets, {}}
         \/ c.do \in {"truncate", "write"} /\ c.on = Body
         \/ /\ c.do \in {"write", "count", "add"} /\ c.on \in 1..Thumbs
            /\ \A j \in holder.more : c.on < j
  BY <1>0, <1>1, CreateHead
<1>5. m \in Memories /\ m \in Dirs /\ holder.more \subseteq 1..Thumbs
  BY <1>0, <1>4 DEF MediaTyped, Dirs, Creating
<1>6. CallTyped(c) /\ Possible(c) /\ Do(c) /\ StoreTyped
  BY <1>0, <1>1, HeadTyped DEF Step, StoreTyped, MediaTyped
<1>7. OfDisk(c) /\ OfTable(c) /\ StoreTyped' BY <1>6, Effect
<1>8. Untouched(m)'
  <2>1. Untouched(m) BY <1>0, <1>1 DEF CreationAlone
  <2>2. m \notin doomed'
    <3>1. doomed' = doomed \cup Doom(c) BY <1>1 DEF Step
    <3>2. c.do # "remove" BY <1>4
    <3> QED BY <2>1, <3>1, <3>2 DEF Doom, Untouched
  <2> QED BY <2>1, <2>2 DEF Untouched, Step, mediaDevice
<1>9. ASSUME table'[m] # Absent PROVE table'[m].thumbs \in 0..Thumbs
  <2>1. table'[m] \in MemoryRows BY <1>5, <1>7, <1>9 DEF StoreTyped
  <2> QED BY <2>1 DEF MemoryRows
<1>10. CASE c.do = "mkdir"
  <2>1. Then(Call("insert", m, holder.on, 0)) BY <1>1, <1>3, <1>10 DEF Follows
  <2>2. Doing("insert")' /\ ~ Doing("mkdir")' BY <2>1, FieldsOfCall DEF Then, Doing
  <2>3. table'[m] = Absent /\ disk'[m] # Absent
    BY <1>0, <1>1, <1>4, <1>7, <1>10, <1>d DEF CreationAlone, OfDisk
  <2> QED BY <1>3, <1>8, <2>2, <2>3 DEF CreationAlone
<1>u. ASSUME c.do # "mkdir", c.do # "insert"
      PROVE  /\ Underway(m)
             /\ c.do \in {"write", "count", "add"} /\ c.on \in 1..Thumbs =>
                      /\ c.do # "add" => table[m].thumbs < c.on
                      /\ c.do = "add" => table[m].thumbs <= c.on
                      /\ c.do = "count" => Whole(m, c.on)
  <2>1. ~ Doing("mkdir") /\ ~ Doing("insert") BY <1>d, <1>u
  <2> QED BY <1>0, <1>1, <1>u, <2>1 DEF CreationAlone, Underway
<1>11. CASE c.do = "insert"
  <2>1. c.on \in SUBSET Names BY <1>6, <1>11 DEF CallTyped
  <2>2. PICK r : r = NewRow(c.on) OBVIOUS
  <2>3. r \in MemoryRows /\ r # Absent /\ r.status = "pending" /\ r.thumbs = 0
    BY <2>1, <2>2, NewRows
  <2>4. table'[m] = r /\ disk' = disk BY <1>4, <1>7, <1>11, <2>2 DEF OfTable
  <2>5. disk[m] # Absent BY <1>0, <1>1, <1>11, <1>d DEF CreationAlone
  <2>6. \A j \in holder.more : table'[m].thumbs < j BY <1>5, <2>3, <2>4, MediaAssumption
  <2>7. CASE AfterPart
    BY <1>1, <1>3, <1>5, <1>8, <1>9, <2>3, <2>4, <2>5, <2>6, <2>7, AloneAfterPart
  <2>8. CASE Then(Call("truncate", m, Body, 1))
    <3>1. PICK d : d = Next1' OBVIOUS
    <3>2. d.do = "truncate" /\ holder'.more = holder.more BY <2>8, <3>1, FieldsOfCall DEF Then
    <3>3. ~ Doing("mkdir")' /\ ~ Doing("insert")' BY <3>1, <3>2 DEF Doing
    <3> QED BY <1>3, <1>8, <2>3, <2>4, <2>5, <2>6, <3>1, <3>2, <3>3 DEF CreationAlone
  <2> QED BY <1>1, <1>3, <1>11, <2>7, <2>8 DEF Follows
<1>12. CASE c.do = "truncate"
  <2>1. Then(Call("write", m, Body, 1)) BY <1>1, <1>3, <1>12 DEF Follows
  <2>2. PICK d : d = Next1' OBVIOUS
  <2>3. d.do = "write" /\ d.on = Body /\ holder'.more = holder.more
    BY <2>1, <2>2, FieldsOfCall DEF Then
  <2>4. ~ Doing("mkdir")' /\ ~ Doing("insert")' BY <2>2, <2>3 DEF Doing
  <2>5. table' = table /\ disk'[m] # Absent BY <1>4, <1>7, <1>12 DEF OfDisk
  <2>6. Underway(m) BY <1>u, <1>12
  <2> QED BY <1>3, <1>8, <2>2, <2>3, <2>4, <2>5, <2>6, MediaAssumption DEF CreationAlone, Underway
<1>13. CASE c.do = "write" /\ c.on = Body
  <2>1. AfterPart
    BY <1>1, <1>3, <1>13, MediaAssumption DEF Follows
  <2>2. table' = table /\ disk'[m] # Absent BY <1>4, <1>7, <1>13 DEF OfDisk
  <2>3. Underway(m) BY <1>u, <1>13
  <2> QED BY <1>1, <1>3, <1>5, <1>8, <1>9, <2>1, <2>2, <2>3, AloneAfterPart DEF Underway
<1>14. CASE c.do = "write" /\ c.on \in 1..Thumbs
  <2>1. Then(Call("count", m, c.on, c.on))
    BY <1>1, <1>3, <1>14, MediaAssumption DEF Follows
  <2>2. PICK d : d = Next1' OBVIOUS
  <2>3. d.do = "count" /\ d.on = c.on /\ holder'.more = holder.more
    BY <2>1, <2>2, FieldsOfCall DEF Then
  <2>4. ~ Doing("mkdir")' /\ ~ Doing("insert")' BY <2>2, <2>3 DEF Doing
  <2>5. table' = table /\ disk'[m] # Absent /\ disk'[m][c.on] = "whole"
    BY <1>4, <1>7, <1>14 DEF OfDisk
  <2>6. Underway(m) /\ table[m].thumbs < c.on BY <1>u, <1>14
  <2> QED BY <1>3, <1>8, <2>2, <2>3, <2>4, <2>5, <2>6 DEF CreationAlone, Underway, Whole
<1>15. CASE c.do = "count"
  <2>1. Then(Call("add", m, c.on, c.on)) BY <1>1, <1>3, <1>15 DEF Follows
  <2>2. PICK d : d = Next1' OBVIOUS
  <2>3. d.do = "add" /\ d.on = c.on /\ holder'.more = holder.more
    BY <2>1, <2>2, FieldsOfCall DEF Then
  <2>4. ~ Doing("mkdir")' /\ ~ Doing("insert")' BY <2>2, <2>3 DEF Doing
  <2>5. Underway(m) BY <1>u, <1>15
  <2>6. /\ disk' = disk /\ table'[m] # Absent /\ table'[m].thumbs = c.on
        /\ table'[m].status = table[m].status
    BY <1>4, <1>7, <1>15, <2>5 DEF OfTable, Underway
  <2>7. c.on \in 1..Thumbs /\ \A j \in holder.more : c.on < j BY <1>4, <1>15
  <2>8. table'[m].thumbs <= d.on BY <2>3, <2>6, <2>7
  <2> QED BY <1>3, <1>8, <2>2, <2>3, <2>4, <2>5, <2>6, <2>7, <2>8 DEF CreationAlone, Underway
<1>16. CASE c.do = "add"
  <2>1. AfterPart BY <1>1, <1>3, <1>16 DEF Follows
  <2>2. Underway(m) BY <1>u, <1>16
  <2>3. /\ disk' = disk /\ table'[m] # Absent /\ table'[m].thumbs = table[m].thumbs
        /\ table'[m].status = table[m].status
    BY <1>4, <1>7, <1>16 DEF OfTable
  <2>4. \A j \in holder.more : table'[m].thumbs < j BY <2>2, <2>3 DEF Underway
  <2> QED BY <1>1, <1>3, <1>5, <1>8, <1>9, <2>1, <2>2, <2>3, <2>4, AloneAfterPart DEF Underway
<1> QED BY <1>4, <1>10, <1>11, <1>12, <1>13, <1>14, <1>15, <1>16

LEMMA StepKeeps ==
    ASSUME MediaInv, Step
    PROVE  MediaInv'
<1>0. /\ MediaTyped /\ LateOK /\ HolderOK /\ Unborn /\ CreationAlone /\ RowsHaveFiles
      /\ SentOK /\ Writing /\ CompleteSent /\ AgreesBut /\ Busy
  BY DEF MediaInv, Step
<1>1. PICK c, m : c = Next1 /\ m = holder.memory OBVIOUS
<1>d. \A x : Doing(x) <=> c.do = x BY <1>0, <1>1 DEF Doing
<1>f. /\ late' = late /\ born' = born /\ known' = known /\ url' = url /\ sent' = sent
      /\ shown' = shown /\ unseen' = unseen
  BY DEF Step, mediaDevice
<1>2. PICK b \in BOOLEAN : /\ GoesOn(Tail(holder.todo), b)
                           /\ b <=> c.at \in Memories /\ table[c.at] # Absent
  <2>1. PICK b : b = (Next1.at \in Memories /\ table[Next1.at] # Absent) OBVIOUS
  <2>2. b \in BOOLEAN BY <2>1, Zenon
  <2>3. GoesOn(Tail(holder.todo), b) BY <2>1, Zenon DEF Step, GoesOn
  <2>4. b <=> c.at \in Memories /\ table[c.at] # Absent BY <1>1, <2>1, Zenon
  <2> QED BY <2>2, <2>3, <2>4
<1>3. /\ CallTyped(c) /\ Ready(c) /\ Possible(c) /\ Do(c) /\ StoreTyped
      /\ m \in born /\ m \in Memories
      /\ c.at = m \/ (c.at = Unknown /\ holder.op = "put")
  BY <1>0, <1>1, HeadTyped DEF Step, StoreTyped, MediaTyped
<1>4. Elsewhere(c) /\ StoreTyped' /\ OfDisk(c) /\ OfTable(c) BY <1>3, Effect
<1>5. /\ spoiled' = (spoiled \cup (Cut(c) \cap sent))
                      \ (IF c.do = "write" THEN {<<c.at, c.on>>} ELSE {})
      /\ doomed' = doomed \cup Doom(c)
  BY <1>1 DEF Step
<1>6. Recorded(c)
  <2>1. Cut(c) \cap sent \subseteq spoiled' BY <1>5 DEF Cut
  <2> QED BY <1>f, <1>5, <2>1 DEF Recorded
<1>m. Unknown \notin Memories /\ Absent \notin Memories BY MediaAssumption DEF Dirs
<1>7. doomed' \subseteq born'
  <2>1. c.do = "remove" => c.at \in Memories BY <1>3 DEF CallTyped, OfFiles
  <2>2. Doom(c) \subseteq born BY <1>3, <1>m, <2>1 DEF Doom
  <2> QED BY <1>0, <1>f, <1>5, <2>2 DEF MediaTyped
<1>8. MediaTyped'
  <2>1. spoiled' \subseteq Dirs \X Names
    <3>1. Memories \subseteq Dirs /\ Assets \subseteq Names BY DEF Dirs, Names
    <3> QED BY <1>0, <1>5, <3>1 DEF MediaTyped
  <2> QED BY <1>0, <1>f, <1>4, <1>7, <2>1 DEF MediaTyped, StoreTyped
<1>9. LateOK'
  <2> SUFFICES ASSUME NEW d \in late
               PROVE  /\ CallTyped(d) /\ Ready(d)'
                      /\ d.at \in Memories => d.at \in born' /\ d.at \in unseen'
    BY <1>f DEF LateOK, CallTyped
  <2>1. /\ CallTyped(d) /\ Ready(d)
        /\ d.at \in Memories => d.at \in born /\ d.at \in unseen
    BY <1>0 DEF LateOK
  <2>2. Ready(d)' BY <1>3, <1>6, <2>1, ReadyStays
  <2> QED BY <1>f, <2>1, <2>2
<1>10. RowsHaveFiles' BY <1>0, <1>3, <1>6, FilesKept
<1>11. SentOK' BY <1>0, <1>3, <1>6, SentKept
<1>12. CompleteSent' BY <1>0, <1>3, <1>f, CompleteKept
<1>13. Unborn'
  <2> SUFFICES ASSUME NEW n \in Memories \ born
               PROVE  Untouched(n)' /\ table'[n] = Absent /\ disk'[n] = Absent
    BY <1>f DEF Unborn
  <2>1. Untouched(n) /\ table[n] = Absent /\ disk[n] = Absent BY <1>0 DEF Unborn
  <2>2. c.at # n /\ n \in Dirs BY <1>3, <1>m DEF Dirs
  <2>3. table'[n] = Absent /\ disk'[n] = Absent BY <1>4, <2>1, <2>2 DEF Elsewhere
  <2>4. n \notin doomed' BY <1>f, <1>7
  <2> QED BY <1>f, <2>1, <2>3, <2>4 DEF Untouched
<1>14. CASE holder.op = "create"
  <2>1. HolderOK' /\ holder'.op = "create" /\ holder'.memory = m
    BY <1>0, <1>1, <1>2, <1>f, <1>14, CreateStep
  <2>2. CreationAlone' BY <1>14, CreationGoesOn
  <2>3. Writing' BY <1>8, <2>1, WritingNext DEF WritesItsOwn
  <2>4. AgreesBut'
    <3> SUFFICES ASSUME NEW n \in Memories \ unseen, n # m PROVE Agrees(n)'
      BY <1>f, <2>1 DEF AgreesBut, AtWork
    <3>1. Agrees(n) BY <1>0, <1>1 DEF AgreesBut, AtWork
    <3>2. c.at # n BY <1>3, <1>m
    <3>3. table'[n] = table[n] BY <1>4, <3>2 DEF Elsewhere
    <3> QED BY <1>f, <3>1, <3>3 DEF Agrees
  <2> QED BY <1>8, <1>9, <1>10, <1>11, <1>12, <1>13, <2>1, <2>2, <2>3, <2>4 DEF MediaInv
<1>15. CASE holder.op # "create"
  <2>1. /\ HolderOK' /\ OtherFollows(c) /\ holder'.op = holder.op /\ holder'.memory = m
        /\ holder'.on = holder.on /\ holder'.changed = b
    BY <1>0, <1>1, <1>2, <1>f, <1>15, OtherStep
  <2>2. CreationAlone' BY <1>15, <2>1 DEF CreationAlone
  <2>3. PICK d : d = url[m][holder.on] OBVIOUS
  <2>4. \/ /\ holder.op = "put" /\ holder.on \in Assets /\ d \in {m, Unknown} /\ c.at = d
           /\ \/ c.do = "mkdir"
              \/ c.do \in {"truncate", "write"} /\ c.on = holder.on
        \/ holder.op = "complete" /\ c.at = m /\ c.do = "status" /\ c.on = "complete"
        \/ holder.op = "fail" /\ c.at = m /\ c.do = "status" /\ c.on = "failed"
        \/ holder.op = "delete" /\ c.at = m /\ c.do \in {"remove", "delete"}
    BY <1>0, <1>1, <1>15, <2>3, OtherHead
  <2>5. Writing'
    <3>1. CASE holder.op = "put"
      <4>1. ~ Doing("status")'
        <5>1. Busy' => Next1' \in {Call("truncate", d, holder.on, 0), Call("write", d, holder.on, 0)}
          BY <1>1, <2>1, <2>3, <3>1 DEF OtherFollows
        <5>2. PICK x : x = Next1' OBVIOUS
        <5>3. Busy' => x.do \in {"truncate", "write"} BY <5>1, <5>2, FieldsOfCall
        <5> QED BY <5>2, <5>3 DEF Doing
      <4>2. ASSUME Doing("write")', <<Next1'.at, Next1'.on>> \in sent'
            PROVE  Next1'.at \in doomed' \/ <<Next1'.at, Next1'.on>> \in spoiled'
        <5>1. PICK x : x = Next1' OBVIOUS
        <5>2. Busy' /\ x.do = "write" BY <4>2, <5>1 DEF Doing
        <5>3. \/ c.do = "mkdir" /\ x = Call("truncate", d, holder.on, 0)
              \/ c.do = "truncate" /\ x = Call("write", d, holder.on, 0)
          BY <1>1, <2>1, <2>3, <3>1, <5>1, <5>2 DEF OtherFollows
        <5>4. c.do = "truncate" /\ x.at = d /\ x.on = holder.on BY <5>2, <5>3, FieldsOfCall
        <5>5. c.at = d /\ c.on = holder.on BY <2>4, <3>1, <5>4
        <5>6. <<d, holder.on>> \in Cut(c) \cap sent
          BY <1>f, <4>2, <5>1, <5>4, <5>5 DEF Cut
        <5>7. <<d, holder.on>> \in spoiled' BY <1>6, <5>6 DEF Recorded
        <5> QED BY <5>1, <5>4, <5>7
      <4>3. ASSUME holder'.todo = << >>, d = m
            PROVE  disk'[m] # Absent /\ disk'[m][holder.on] = "whole"
        <5>1. c.do = "write"
          <6>1. ~ Busy' BY <4>3 DEF Busy
          <6> QED BY <1>1, <2>1, <2>3, <3>1, <6>1 DEF OtherFollows
        <5>2. c.at = m /\ c.on = holder.on BY <2>4, <3>1, <4>3, <5>1
        <5> QED BY <1>4, <5>1, <5>2 DEF OfDisk
      <4>4. url'[holder'.memory][holder'.on] = d BY <1>f, <2>1, <2>3
      <4>5. /\ Doing("write")' /\ <<Next1'.at, Next1'.on>> \in sent'
                  => Next1'.at \in doomed' \/ <<Next1'.at, Next1'.on>> \in spoiled'
            /\ holder'.todo = << >> /\ url'[holder'.memory][holder'.on] = holder'.memory
                  => disk'[holder'.memory] # Absent /\ disk'[holder'.memory][holder'.on] = "whole"
        BY <2>1, <4>2, <4>3, <4>4
      <4> QED BY <4>1, <4>5 DEF Writing, Whole, Excused
    <3>2. CASE holder.op = "complete"
      <4>1. ~ Busy' BY <2>1, <3>2 DEF OtherFollows
      <4> QED BY <2>1, <3>2, <4>1 DEF Writing, Doing
    <3>3. CASE holder.op \notin {"put", "complete"}
      BY <1>8, <2>1, <3>3, WritingNext DEF WritesItsOwn
    <3> QED BY <3>1, <3>2, <3>3
  <2>6. AgreesBut'
    <3> SUFFICES ASSUME NEW n \in Memories \ unseen
                 PROVE  /\ ~ AtWork(n)' => Agrees(n)'
                        /\ AtWork(n)' /\ holder'.op = "complete" =>
                              /\ table'[n] = Absent <=> shown'[n] = "none"
                              /\ holder'.changed <=> table'[n] # Absent
                        /\ AtWork(n)' /\ holder'.op = "delete" =>
                              /\ table'[n] = Absent
                              /\ ~ holder'.changed => shown'[n] = "none"
      BY <1>f DEF AgreesBut
    <3>0. ~ AtWork(n) BY <1>0, <1>15 DEF AtWork
    <3>1. Agrees(n) BY <1>0, <3>0 DEF AgreesBut
    <3>2. CASE n # m
      <4>1. c.at # n BY <1>3, <1>m, <3>2
      <4>2. table'[n] = table[n] BY <1>4, <4>1 DEF Elsewhere
      <4>3. ~ AtWork(n)' BY <2>1, <3>2 DEF AtWork
      <4> QED BY <1>f, <3>1, <4>2, <4>3 DEF Agrees
    <3>3. CASE n = m /\ holder.op = "put"
      <4>1. table' = table BY <1>4, <2>4, <3>3 DEF OfDisk
      <4>2. ~ AtWork(n)' BY <2>1, <3>3 DEF AtWork
      <4> QED BY <1>f, <3>1, <4>1, <4>2 DEF Agrees
    <3>4. CASE n = m /\ holder.op = "fail"
      <4>1. /\ table[m] = Absent => table'[m] = Absent
            /\ table[m] # Absent => table'[m] # Absent /\ table'[m].status = "failed"
        BY <1>4, <2>4, <3>4 DEF OfTable
      <4>2. ~ AtWork(n)' BY <2>1, <3>4 DEF AtWork
      <4> QED BY <1>f, <3>1, <3>4, <4>1, <4>2 DEF Agrees
    <3>5. CASE n = m /\ holder.op = "complete"
      <4>1. c.at = m /\ c.do = "status" BY <2>4, <3>5
      <4>2. table[m] = Absent <=> table'[m] = Absent
        BY <1>4, <4>1 DEF OfTable
      <4>3. AtWork(n)' /\ holder'.op # "delete"
        BY <2>1, <3>5 DEF AtWork, OtherFollows
      <4>4. table[m] = Absent <=> shown[m] = "none" BY <3>1, <3>5 DEF Agrees
      <4>5. holder'.changed <=> table[m] # Absent BY <1>2, <1>3, <2>1, <4>1, Zenon
      <4>6. holder'.changed <=> table'[n] # Absent BY <3>5, <4>2, <4>5, Zenon
      <4>7. table'[n] = Absent <=> shown'[n] = "none" BY <1>f, <3>5, <4>2, <4>4
      <4> QED BY <4>3, <4>6, <4>7
    <3>6. CASE n = m /\ holder.op = "delete"
      <4>1. CASE c.do = "remove"
        <5>1. table' = table BY <1>4, <4>1 DEF OfDisk
        <5>2. ~ AtWork(n)'
          <6>1. Busy' BY <2>1, <3>6, <4>1 DEF OtherFollows
          <6> QED BY <2>1, <3>6, <6>1 DEF AtWork
        <5> QED BY <1>f, <3>1, <5>1, <5>2 DEF Agrees
      <4>2. CASE c.do = "delete"
        <5>1. table'[m] = Absent BY <1>4, <2>4, <3>6, <4>2 DEF OfTable
        <5>2. AtWork(n)' /\ holder'.op # "complete"
          <6>1. ~ Busy' BY <2>1, <3>6, <4>2 DEF OtherFollows
          <6> QED BY <2>1, <3>6, <6>1 DEF AtWork
        <5>3. c.at = m BY <2>4, <3>6
        <5>4. holder'.changed <=> table[m] # Absent BY <1>2, <1>3, <2>1, <5>3, Zenon
        <5>5. ~ holder'.changed => shown'[n] = "none"
          BY <1>f, <3>1, <3>6, <5>4 DEF Agrees
        <5> QED BY <3>6, <5>1, <5>2, <5>5
      <4> QED BY <2>4, <3>6, <4>1, <4>2
    <3> QED BY <2>4, <3>2, <3>3, <3>4, <3>5, <3>6
  <2> QED BY <1>8, <1>9, <1>10, <1>11, <1>12, <1>13, <2>1, <2>2, <2>5, <2>6 DEF MediaInv
<1> QED BY <1>14, <1>15

-----------------------------------------------------------------------------
(* The handlers begin.                                                      *)
LEMMA Idle ==
    ASSUME MediaInv, holder = Free, born \subseteq born', born' \subseteq Memories,
           UNCHANGED <<mediaStore, late, known, url, sent, shown, spoiled, doomed, unseen>>,
           HolderOK', CreationAlone', Writing',
           \A m \in Memories : AtWork(m)' => holder'.op = "create"
    PROVE  MediaInv'
<1>0. /\ MediaTyped /\ LateOK /\ Unborn /\ RowsHaveFiles /\ SentOK /\ CompleteSent /\ AgreesBut
  BY DEF MediaInv
<1>f. /\ table' = table /\ disk' = disk /\ late' = late /\ known' = known /\ url' = url
      /\ sent' = sent /\ shown' = shown /\ spoiled' = spoiled /\ doomed' = doomed
      /\ unseen' = unseen
  BY DEF mediaStore
<1>1. MediaTyped' BY <1>0, <1>f DEF MediaTyped
<1>2. LateOK' BY <1>0, <1>f DEF LateOK, CallTyped, Ready, Whole, AllSent
<1>3. Unborn'
  <2> SUFFICES ASSUME NEW m \in Memories \ born
               PROVE  Untouched(m)' /\ table'[m] = Absent /\ disk'[m] = Absent
    BY DEF Unborn
  <2>1. Untouched(m) /\ table[m] = Absent /\ disk[m] = Absent BY <1>0 DEF Unborn
  <2> QED BY <1>f, <2>1 DEF Untouched
<1>4. RowsHaveFiles' BY <1>0, <1>f DEF RowsHaveFiles, Listed
<1>5. SentOK' BY <1>0, <1>f DEF SentOK, Whole, Excused
<1>6. CompleteSent' BY <1>0, <1>f DEF CompleteSent, AllSent
<1>7. AgreesBut'
  <2>1. ASSUME NEW m \in Memories \ unseen PROVE Agrees(m)
    <3>1. holder.op = "none" /\ holder.memory # m BY MediaAssumption DEF Free, Dirs
    <3>2. ~ AtWork(m) BY <3>1 DEF AtWork
    <3> QED BY <1>0, <3>2 DEF AgreesBut
  <2>2. ASSUME NEW m \in Memories \ unseen PROVE Agrees(m)' BY <1>f, <2>1 DEF Agrees
  <2> QED BY <1>f, <2>2 DEF AgreesBut
<1> QED BY <1>1, <1>2, <1>3, <1>4, <1>5, <1>6, <1>7 DEF MediaInv

LEMMA BeginIs ==
    ASSUME NEW op, op # "none", NEW m, NEW on, NEW todo, NEW more, Begin(op, m, on, todo, more)
    PROVE  /\ holder = Free /\ \E b \in BOOLEAN : holder' = Handler(op, m, on, todo, more, b)
           /\ holder' = Handler(holder'.op, holder'.memory, holder'.on, holder'.todo,
                                holder'.more, holder'.changed)
           /\ holder'.op = op /\ holder'.memory = m /\ holder'.on = on
           /\ holder'.todo = todo /\ holder'.more = more /\ holder'.changed \in BOOLEAN
           /\ Busy' <=> todo # << >>
           /\ Next1' = Head(todo)
<1>1. PICK b \in BOOLEAN : b = FALSE OBVIOUS
<1>2. holder = Free /\ holder' = Handler(op, m, on, todo, more, b) BY <1>1 DEF Begin, Handler
<1>3. /\ holder' = Handler(holder'.op, holder'.memory, holder'.on, holder'.todo,
                           holder'.more, holder'.changed)
      /\ holder'.op = op /\ holder'.memory = m /\ holder'.on = on
      /\ holder'.todo = todo /\ holder'.more = more /\ holder'.changed = b
      /\ Busy' <=> todo # << >>
      /\ Next1' = Head(todo)
  BY <1>2, HolderIs
<1> QED BY <1>2, <1>3

LEMMA BeginsAlone ==
    ASSUME NEW op, op # "none", NEW m, NEW on, NEW todo, Begin(op, m, on, todo, {})
    PROVE  /\ holder = Free
           /\ holder' = Handler(holder'.op, holder'.memory, holder'.on, holder'.todo,
                                holder'.more, holder'.changed)
           /\ holder'.op = op /\ holder'.memory = m /\ holder'.on = on
           /\ holder'.todo = todo /\ holder'.more = {} /\ holder'.changed \in BOOLEAN
           /\ Busy' <=> todo # << >>
           /\ Next1' = Head(todo)
<1>1. PICK more : more = {} OBVIOUS
<1>2. Begin(op, m, on, todo, more) BY <1>1
<1>3. /\ holder = Free
      /\ holder' = Handler(holder'.op, holder'.memory, holder'.on, holder'.todo,
                           holder'.more, holder'.changed)
      /\ holder'.op = op /\ holder'.memory = m /\ holder'.on = on
      /\ holder'.todo = todo /\ holder'.more = more /\ holder'.changed \in BOOLEAN
      /\ Busy' <=> todo # << >>
      /\ Next1' = Head(todo)
  BY <1>2, BeginIs
<1> QED BY <1>1, <1>3, Zenon

LEMMA CreateBegins ==
    ASSUME MediaInv, NEW m \in Memories, NEW files \in {Assets, {}},
           NEW body \in {<< >>, Upload(m, Body, 1)}, NEW more \in SUBSET (1..Thumbs),
           CreateMemory(m, files, body, more)
    PROVE  MediaInv'
<1>0. MediaTyped /\ Unborn BY DEF MediaInv
<1>f. /\ m \notin born /\ born' = born \cup {m}
      /\ UNCHANGED <<mediaStore, late, known, url, sent, shown, spoiled, doomed, unseen>>
  BY DEF CreateMemory, mediaPast
<1>1. PICK t : t = Registered(m, files) \o body OBVIOUS
<1>2. Begin("create", m, files, t, more) BY <1>1 DEF CreateMemory
<1>b. /\ holder = Free /\ \E b \in BOOLEAN : holder' = Handler("create", m, files, t, more, b)
      /\ holder'.op = "create" /\ holder'.memory = m
      /\ Busy' <=> t # << >>
      /\ Next1' = Head(t)
  <2>1. PICK op : op = "create" OBVIOUS
  <2>2. Begin(op, m, files, t, more) /\ op # "none" BY <1>2, <2>1
  <2>3. /\ holder = Free /\ \E b \in BOOLEAN : holder' = Handler(op, m, files, t, more, b)
        /\ holder'.op = op /\ holder'.memory = m
        /\ Busy' <=> t # << >>
        /\ Next1' = Head(t)
    BY <2>2, BeginIs
  <2> QED BY <2>1, <2>3
<1>3. PICK b \in BOOLEAN : /\ holder = Free /\ holder' = Handler("create", m, files, t, more, b)
                           /\ holder'.op = "create" /\ holder'.memory = m
                           /\ Busy' <=> t # << >>
                           /\ Next1' = Head(t)
  BY <1>b
<1>4. t # << >> /\ Head(t) = Call("mkdir", m, Absent, 0)
  <2>1. PICK mk, ins, tr, wr : /\ mk = Call("mkdir", m, Absent, 0) /\ ins = Call("insert", m, files, 0)
                               /\ tr = Call("truncate", m, Body, 1) /\ wr = Call("write", m, Body, 1)
    OBVIOUS
  <2>2. (body = << >> \/ body = <<tr, wr>>) /\ Registered(m, files) = <<mk, ins>>
    BY <2>1 DEF Upload, Registered
  <2>3. CASE body = << >>
    <3>1. t = <<mk, ins>> BY <1>1, <2>2, <2>3, Joins
    <3> QED BY <2>1, <3>1, Tails
  <2>4. CASE body = <<tr, wr>>
    <3>1. <<mk, ins>> \o <<tr, wr>> = <<mk, ins, tr, wr>>
      <4>1. \A w, x, y, z : <<w, x>> \o <<y, z>> = <<w, x, y, z>> BY Joins
      <4> QED BY <4>1
    <3>2. t = <<mk, ins, tr, wr>> BY <1>1, <2>2, <2>4, <3>1
    <3> QED BY <2>1, <3>2
  <2> QED BY <2>2, <2>3, <2>4
<1>5. HolderOK'
  <2>1. PICK h : h = Handler("create", m, files, t, more, b) OBVIOUS
  <2>2. h.memory = m /\ h.on = files /\ h.todo = t /\ h.more = more BY <2>1, FieldsOfHandler
  <2>3. Creating(h) BY <1>1, <2>2 DEF Creating
  <2>4. m \in born' BY <1>f
  <2> QED BY <1>3, <2>1, <2>3, <2>4, CreateOK
<1>6. Untouched(m) /\ table[m] = Absent /\ disk[m] = Absent BY <1>0, <1>f DEF Unborn
<1>7. Doing("mkdir")' BY <1>3, <1>4, FieldsOfCall DEF Doing
<1>8. CreationAlone' BY <1>3, <1>6, <1>7, <1>f DEF CreationAlone, Untouched, mediaStore
<1>9. MediaTyped' BY <1>0, <1>f DEF MediaTyped, mediaStore
<1>10. Writing' BY <1>3, <1>5, <1>9, WritingNext DEF WritesItsOwn
<1>11. born' \subseteq Memories BY <1>0, <1>f DEF MediaTyped
<1> QED BY <1>f, <1>3, <1>5, <1>8, <1>10, <1>11, Idle

LEMMA PutBegins ==
    ASSUME MediaInv, NEW m \in Memories, NEW a \in Assets, PutFile(m, a)
    PROVE  MediaInv'
<1>0. MediaTyped /\ Unborn BY DEF MediaInv
<1>f. /\ born' = born
      /\ UNCHANGED <<mediaStore, late, known, url, sent, shown, spoiled, doomed, unseen>>
  BY DEF PutFile, mediaPast, mediaDevice
<1>1. PICK d, mk, tr, wr : /\ d = url[m][a] /\ mk = Call("mkdir", d, Absent, 0)
                           /\ tr = Call("truncate", d, a, 0) /\ wr = Call("write", d, a, 0)
  OBVIOUS
<1>2. d # Absent /\ d \in {m, Unknown} /\ m \in born
  <2>1. d # Absent BY <1>1 DEF PutFile
  <2>2. m \in born BY <1>0, <1>1, <2>1 DEF Unborn, Untouched
  <2> QED BY <1>0, <1>1, <2>1, <2>2 DEF MediaTyped
<1>3. Upload(d, a, 0) = <<tr, wr>> BY <1>1 DEF Upload
<1>4. PICK t : t = (IF disk[d] = Absent THEN <<mk>> ELSE << >>) \o <<tr, wr>> OBVIOUS
<1>5. Begin("put", m, a, t, {}) BY <1>1, <1>3, <1>4 DEF PutFile
<1>6. /\ holder = Free /\ holder' = Handler(holder'.op, holder'.memory, holder'.on, holder'.todo,
                                            holder'.more, holder'.changed)
      /\ holder'.op = "put" /\ holder'.memory = m /\ holder'.on = a
      /\ holder'.todo = t /\ holder'.more = {} /\ holder'.changed \in BOOLEAN
      /\ Busy' <=> t # << >>
      /\ Next1' = Head(t)
  <2>1. PICK op : op = "put" OBVIOUS
  <2>2. Begin(op, m, a, t, {}) /\ op # "none" BY <1>5, <2>1
  <2>3. /\ holder = Free
        /\ holder' = Handler(holder'.op, holder'.memory, holder'.on, holder'.todo,
                             holder'.more, holder'.changed)
        /\ holder'.op = op /\ holder'.memory = m /\ holder'.on = a
        /\ holder'.todo = t /\ holder'.more = {} /\ holder'.changed \in BOOLEAN
        /\ Busy' <=> t # << >>
        /\ Next1' = Head(t)
    BY <2>2, BeginsAlone
  <2> QED BY <2>1, <2>3
<1>7. t \in {<<mk>> \o <<tr, wr>>, <<tr, wr>>} BY <1>4, Joins
<1>8. t # << >> /\ Head(t) \in {mk, tr}
  <2>1. CASE t = <<mk>> \o <<tr, wr>>
    <3>1. \A x, y, z : <<x>> \o <<y, z>> = <<x, y, z>> BY Joins
    <3>2. t = <<mk, tr, wr>> BY <2>1, <3>1
    <3> QED BY <3>2
  <2>2. CASE t = <<tr, wr>> BY <2>2, Tails
  <2> QED BY <1>7, <2>1, <2>2
<1>9. HolderOK'
  <2>1. url'[holder'.memory][holder'.on] = d BY <1>1, <1>6, <1>f
  <2>2. Putting(holder)' BY <1>1, <1>2, <1>3, <1>6, <1>7, <2>1 DEF Putting
  <2>3. holder'.memory \in born' /\ holder'.changed \in BOOLEAN BY <1>2, <1>6, <1>f
  <2> QED BY <1>6, <2>2, <2>3 DEF HolderOK
<1>10. CreationAlone' BY <1>6 DEF CreationAlone
<1>11. Writing'
  <2>1. PICK x : x = Next1' OBVIOUS
  <2>2. x.do \in {"mkdir", "truncate"} BY <1>1, <1>6, <1>8, <2>1, FieldsOfCall
  <2>3. ~ Doing("write")' /\ ~ Doing("status")' BY <2>1, <2>2 DEF Doing
  <2> QED BY <1>6, <1>8, <2>3 DEF Writing
<1>12. \A n \in Memories : ~ AtWork(n)' BY <1>6 DEF AtWork
<1>13. born \subseteq born' /\ born' \subseteq Memories BY <1>0, <1>f DEF MediaTyped
<1> QED BY <1>f, <1>6, <1>9, <1>10, <1>11, <1>12, <1>13, Idle

LEMMA ReportBegins ==
    ASSUME MediaInv, NEW m \in Memories, NEW success \in BOOLEAN, Report(m, success)
    PROVE  MediaInv'
<1>0. MediaTyped /\ Unborn BY DEF MediaInv
<1>f. /\ born' = born
      /\ UNCHANGED <<mediaStore, late, known, url, sent, shown, spoiled, doomed, unseen>>
  BY DEF Report, mediaPast, mediaDevice
<1>1. m \in born BY <1>0 DEF Report, MediaTyped
<1>2. PICK op, status, c, t :
         /\ c = Call("status", m, status, 0) /\ t = <<c>>
         /\ \/ op = "complete" /\ status = "complete" /\ AllSent(m)
            \/ op = "fail" /\ status = "failed"
         /\ Begin(op, m, Absent, t, {})
  <2>1. CASE success BY <2>1 DEF Report, AllSent
  <2>2. CASE ~ success BY <2>2 DEF Report
  <2> QED BY <2>1, <2>2
<1>3. /\ holder = Free /\ holder' = Handler(holder'.op, holder'.memory, holder'.on, holder'.todo,
                                            holder'.more, holder'.changed)
      /\ holder'.op = op /\ holder'.memory = m /\ holder'.on = Absent
      /\ holder'.todo = t /\ holder'.more = {} /\ holder'.changed \in BOOLEAN
      /\ Busy' <=> t # << >>
      /\ Next1' = Head(t)
  BY <1>2, BeginsAlone
<1>4. t # << >> /\ Head(t) = c BY <1>2, Tails
<1>5. HolderOK'
  <2>1. \/ op = "complete" /\ Completing(holder)'
        \/ op = "fail" /\ Failing(holder)'
    BY <1>2, <1>3 DEF Completing, Failing
  <2>2. holder'.memory \in born' /\ holder'.changed \in BOOLEAN BY <1>1, <1>3, <1>f
  <2> QED BY <1>3, <2>1, <2>2 DEF HolderOK
<1>6. CreationAlone' BY <1>2, <1>3 DEF CreationAlone
<1>7. MediaTyped' BY <1>0, <1>f DEF MediaTyped, mediaStore
<1>8. Writing'
  <2>1. CASE op = "complete"
    <3>1. PICK x : x = Next1' OBVIOUS
    <3>2. x.do = "status" /\ x.at = m BY <1>2, <1>3, <1>4, <3>1, FieldsOfCall
    <3>3. ~ Doing("write")' BY <3>1, <3>2 DEF Doing
    <3>4. AllSent(m)' BY <1>2, <1>f, <2>1 DEF AllSent
    <3>5. \A a \in Assets : <<Next1'.at, a>> \in sent' BY <3>1, <3>2, <3>4 DEF AllSent
    <3> QED BY <1>3, <2>1, <3>3, <3>5 DEF Writing, AllSent
  <2>2. CASE op = "fail"
    BY <1>3, <1>5, <1>7, <2>2, WritingNext DEF WritesItsOwn
  <2> QED BY <1>2, <2>1, <2>2
<1>9. \A n \in Memories : ~ AtWork(n)' BY <1>2, <1>3, <1>4 DEF AtWork
<1>10. born \subseteq born' /\ born' \subseteq Memories BY <1>0, <1>f DEF MediaTyped
<1> QED BY <1>f, <1>3, <1>5, <1>6, <1>8, <1>9, <1>10, Idle

LEMMA DeleteBegins ==
    ASSUME MediaInv, NEW m \in Memories, DeleteMemory(m)
    PROVE  MediaInv'
<1>0. MediaTyped /\ Unborn BY DEF MediaInv
<1>f. /\ born' = born
      /\ UNCHANGED <<mediaStore, late, known, url, sent, shown, spoiled, doomed, unseen>>
  BY DEF DeleteMemory, mediaPast, mediaDevice
<1>1. m \in born BY <1>0 DEF DeleteMemory, MediaTyped, Unborn
<1>2. PICK rm, del : rm = Call("remove", m, Absent, 0) /\ del = Call("delete", m, Absent, 0)
  OBVIOUS
<1>3. PICK t : t = (IF disk[m] # Absent THEN <<rm>> ELSE << >>) \o <<del>> OBVIOUS
<1>4. t \in {<<rm, del>>, <<del>>}
  <2>1. << >> \o <<del>> = <<del>>
    <3>1. <<del>> \in Seq({del}) OBVIOUS
    <3> QED BY <3>1, ConcatEmptySeq
  <2>2. <<rm>> \o <<del>> = <<rm, del>> BY Joins
  <2> QED BY <1>3, <2>1, <2>2
<1>5. Begin("delete", m, Absent, t, {}) BY <1>2, <1>3 DEF DeleteMemory
<1>6. /\ holder = Free /\ holder' = Handler(holder'.op, holder'.memory, holder'.on, holder'.todo,
                                            holder'.more, holder'.changed)
      /\ holder'.op = "delete" /\ holder'.memory = m
      /\ holder'.todo = t /\ holder'.more = {} /\ holder'.changed \in BOOLEAN
      /\ Busy' <=> t # << >>
  BY <1>5, BeginsAlone
<1>7. t # << >> BY <1>4, Tails
<1>8. HolderOK'
  <2>1. Deleting(holder)' BY <1>2, <1>4, <1>6 DEF Deleting
  <2>2. holder'.memory \in born' /\ holder'.changed \in BOOLEAN BY <1>1, <1>6, <1>f
  <2> QED BY <1>6, <2>1, <2>2 DEF HolderOK
<1>9. CreationAlone' BY <1>6 DEF CreationAlone
<1>10. MediaTyped' BY <1>0, <1>f DEF MediaTyped, mediaStore
<1>11. Writing' BY <1>6, <1>8, <1>10, WritingNext DEF WritesItsOwn
<1>12. \A n \in Memories : ~ AtWork(n)' BY <1>6, <1>7 DEF AtWork
<1>13. born \subseteq born' /\ born' \subseteq Memories BY <1>0, <1>f DEF MediaTyped
<1> QED BY <1>f, <1>6, <1>8, <1>9, <1>11, <1>12, <1>13, Idle

LEMMA UploadKeeps ==
    ASSUME MediaInv, NEW m \in Memories, NEW a \in Assets, UploadFile(m, a)
    PROVE  MediaInv'
<1>0. /\ MediaTyped /\ LateOK /\ HolderOK /\ Unborn /\ CreationAlone /\ RowsHaveFiles
      /\ SentOK /\ Writing /\ CompleteSent /\ AgreesBut
  BY DEF MediaInv
<1>f. /\ holder' = holder /\ table' = table /\ disk' = disk /\ late' = late /\ born' = born
      /\ known' = known /\ sent' = sent /\ shown' = shown /\ spoiled' = spoiled
      /\ doomed' = doomed /\ unseen' = unseen
  BY DEF UploadFile, mediaStore, mediaPast
<1>1. PICK d \in {m, Unknown} : url' = [url EXCEPT ![m][a] = d] BY DEF UploadFile, Owner
<1>2. m \in born BY <1>0 DEF UploadFile, MediaTyped
<1>3. holder = Free /\ holder.op = "none" BY DEF UploadFile, Free
<1>4. url' = [url EXCEPT ![m] = [url[m] EXCEPT ![a] = d]] BY <1>0, <1>1 DEF MediaTyped
<1>5. PICK u : u = [url[m] EXCEPT ![a] = d] OBVIOUS
<1>6. /\ u \in [Assets -> Dirs \cup {Absent}]
      /\ \A x \in Assets : u[x] \in {m, Unknown, Absent}
  BY <1>0, <1>5 DEF MediaTyped, Dirs
<1>7. url' = [url EXCEPT ![m] = u] BY <1>4, <1>5
<1>8. MediaTyped'
  <2>1. url' \in [Memories -> [Assets -> Dirs \cup {Absent}]] BY <1>0, <1>6, <1>7 DEF MediaTyped
  <2>2. \A n \in Memories : \A x \in Assets : url'[n][x] \in {n, Unknown, Absent}
    BY <1>0, <1>6, <1>7 DEF MediaTyped
  <2> QED BY <1>0, <1>f, <2>1, <2>2 DEF MediaTyped
<1>9. LateOK' BY <1>0, <1>f DEF LateOK, CallTyped, Ready, Whole, AllSent
<1>10. HolderOK' BY <1>3, <1>f DEF HolderOK
<1>11. Unborn'
  <2> SUFFICES ASSUME NEW n \in Memories \ born
               PROVE  Untouched(n)' /\ table'[n] = Absent /\ disk'[n] = Absent
    BY <1>f DEF Unborn
  <2>1. Untouched(n) /\ table[n] = Absent /\ disk[n] = Absent BY <1>0 DEF Unborn
  <2>2. n # m BY <1>2
  <2>3. url'[n] = url[n] BY <1>0, <1>7, <2>2 DEF MediaTyped
  <2> QED BY <1>f, <2>1, <2>3 DEF Untouched
<1>12. CreationAlone' BY <1>3, <1>f DEF CreationAlone
<1>13. RowsHaveFiles' BY <1>0, <1>f DEF RowsHaveFiles, Listed
<1>14. SentOK' BY <1>0, <1>f DEF SentOK, Whole, Excused
<1>15. Writing'
  <2>1. ~ Busy' BY <1>3, <1>f DEF Busy
  <2> QED BY <1>3, <1>f, <2>1 DEF Writing, Doing
<1>16. CompleteSent' BY <1>0, <1>f DEF CompleteSent, AllSent
<1>17. AgreesBut'
  <2>1. \A n \in Memories : Agrees(n)' <=> Agrees(n) BY <1>f DEF Agrees
  <2>2. \A n \in Memories : ~ AtWork(n)' /\ ~ AtWork(n) BY <1>3, <1>f DEF AtWork
  <2> QED BY <1>0, <1>f, <2>1, <2>2 DEF AgreesBut
<1> QED BY <1>8, <1>9, <1>10, <1>11, <1>12, <1>13, <1>14, <1>15, <1>16, <1>17 DEF MediaInv

-----------------------------------------------------------------------------
(* The handlers end.                                                        *)
LEMMA FreeOK ==
    ASSUME holder' = Free
    PROVE  /\ HolderOK' /\ CreationAlone' /\ Writing'
           /\ \A m \in Memories : ~ AtWork(m)'
<1>1. holder'.op = "none" /\ ~ Busy' BY DEF Free, Busy
<1>2. HolderOK' BY DEF HolderOK
<1>3. CreationAlone' BY <1>1 DEF CreationAlone
<1>4. Writing' BY <1>1 DEF Writing, Doing
<1>5. \A m \in Memories : ~ AtWork(m)' BY <1>1 DEF AtWork
<1> QED BY <1>2, <1>3, <1>4, <1>5

(* What is left of a call that failed, or whose server was killed.          *)
LEMMA HalfDone ==
    ASSUME MediaInv, Busy, Half(Next1), spoiled' = spoiled, doomed' = doomed, sent' = sent
    PROVE  /\ StoreTyped' /\ RowsHaveFiles' /\ SentOK' /\ CompleteSent'
           /\ Elsewhere(Next1) /\ \A d \in Dirs : disk[d] # Absent => disk'[d] # Absent
           /\ Next1.do = "insert" \/ (Next1.do = "write" /\ table' = table)
           /\ \A d \in Dirs, n \in Names : n # Next1.on /\ Whole(d, n) => Whole(d, n)'
<1>0. /\ MediaTyped /\ HolderOK /\ CreationAlone /\ RowsHaveFiles
      /\ SentOK /\ Writing /\ CompleteSent
  BY DEF MediaInv
<1>1. PICK c, m : c = Next1 /\ m = holder.memory OBVIOUS
<1>d. \A x : Doing(x) <=> c.do = x BY <1>1 DEF Doing
<1>2. /\ CallTyped(c) /\ Ready(c) /\ StoreTyped /\ m \in born /\ m \in Memories
      /\ c.at = m \/ c.at = Unknown
  BY <1>0, <1>1, HeadTyped DEF StoreTyped, MediaTyped
<1>m. Unknown \notin Memories /\ Memories \subseteq Dirs BY MediaAssumption DEF Dirs
<1>3. CASE c.do = "insert" /\ Row(c, NewRow({}))
  <2>1. PICK r : r = NewRow({}) OBVIOUS
  <2>2. r \in MemoryRows /\ r.status = "pending" /\ r.thumbs = 0
    <3>1. PICK f \in SUBSET Names : f = {} OBVIOUS
    <3>2. r = NewRow(f) BY <2>1, <3>1
    <3> QED BY <3>2, NewRows
  <2>3. c.at \in Memories BY <1>2, <1>3 DEF CallTyped, OfFiles
  <2>4. table'[c.at] = r /\ disk' = disk /\ Elsewhere(c) /\ StoreTyped'
    BY <1>2, <1>3, <2>1, <2>2, <2>3, Putted
  <2>5. RowsHaveFiles'
    <3> SUFFICES ASSUME NEW n \in Memories, table'[n] # Absent, n \notin doomed
                 PROVE  /\ disk[n] # Absent
                        /\ table'[n].thumbs > 0 => disk[n][table'[n].thumbs] = "whole"
      BY <2>4 DEF RowsHaveFiles, Listed
    <3>1. CASE n = c.at
      <4>1. disk[n] # Absent BY <1>2, <1>3, <3>1 DEF Ready
      <4> QED BY <2>2, <2>4, <3>1, <4>1
    <3>2. CASE n # c.at
      <4>1. table'[n] = table[n] BY <2>4, <3>2 DEF Elsewhere
      <4> QED BY <1>0, <4>1 DEF RowsHaveFiles, Listed
    <3> QED BY <3>1, <3>2
  <2>6. SentOK' BY <1>0, <2>4 DEF SentOK, Whole, Excused
  <2>7. CompleteSent'
    <3> SUFFICES ASSUME NEW n \in Memories, table'[n] # Absent, table'[n].status = "complete"
                 PROVE  AllSent(n)'
      BY DEF CompleteSent
    <3>1. n # c.at BY <2>2, <2>4
    <3>2. table'[n] = table[n] BY <2>4, <3>1 DEF Elsewhere
    <3> QED BY <1>0, <3>2 DEF CompleteSent, AllSent
  <2>8. \A d \in Dirs, n \in Names : Whole(d, n) => Whole(d, n)' BY <2>4 DEF Whole
  <2> QED BY <1>1, <1>3, <2>4, <2>5, <2>6, <2>7, <2>8
<1>4. CASE c.do = "write" /\ disk[c.at] # Absent /\ File(c, "cut")
  <2>1. c.at \in Dirs /\ c.on \in Names BY <1>2, <1>4 DEF CallTyped
  <2>2. /\ table' = table /\ disk'[c.at] # Absent /\ Elsewhere(c) /\ StoreTyped'
        /\ \A n \in Names \ {c.on} : disk'[c.at][n] = disk[c.at][n]
    BY <1>2, <1>4, <2>1, Filed
  <2>3. RowsHaveFiles'
    <3> SUFFICES ASSUME NEW n \in Memories, table[n] # Absent, n \notin doomed
                 PROVE  /\ disk'[n] # Absent
                        /\ table[n].thumbs > 0 => disk'[n][table[n].thumbs] = "whole"
      BY <2>2 DEF RowsHaveFiles, Listed
    <3>1. /\ disk[n] # Absent
          /\ table[n].thumbs > 0 => disk[n][table[n].thumbs] = "whole"
      BY <1>0 DEF RowsHaveFiles, Listed
    <3>2. CASE n # c.at
      <4>1. disk'[n] = disk[n] BY <1>m, <2>2, <3>2 DEF Elsewhere
      <4> QED BY <3>1, <4>1
    <3>3. CASE n = c.at
      <4>1. table[n].thumbs > 0 => table[n].thumbs \in 1..Thumbs
        <5>1. table[n] \in MemoryRows BY <1>0 DEF MediaTyped
        <5>2. table[n].thumbs \in 0..Thumbs BY <5>1 DEF MemoryRows
        <5> QED BY <5>2, MediaAssumption
      <4>2. table[n].thumbs > 0 => table[n].thumbs # c.on
        <5>1. CASE holder.op = "create"
          <6>1. n = m BY <1>2, <1>m, <3>3
          <6>2. c.on \in 1..Thumbs => table[m].thumbs < c.on
            <7>1. ~ Doing("mkdir") /\ ~ Doing("insert") BY <1>4, <1>d
            <7> QED BY <1>0, <1>1, <1>4, <5>1, <7>1 DEF CreationAlone
          <6> QED BY <4>1, <6>1, <6>2
        <5>2. CASE holder.op # "create"
          <6>1. c.on \in Assets BY <1>0, <1>1, <1>4, <5>2, OtherHead
          <6> QED BY <4>1, <6>1, MediaAssumption
        <5> QED BY <5>1, <5>2
      <4>3. table[n].thumbs > 0 => table[n].thumbs \in Names BY <4>1 DEF Names
      <4> QED BY <2>2, <3>1, <3>3, <4>2, <4>3
    <3> QED BY <3>2, <3>3
  <2>4. SentOK'
    <3> SUFFICES ASSUME NEW n \in Memories, NEW a \in Assets, <<n, a>> \in sent
                 PROVE  Whole(n, a)' \/ Excused(n, a)
      BY DEF SentOK, Excused
    <3>1. Whole(n, a) \/ Excused(n, a) BY <1>0 DEF SentOK
    <3>2. CASE n # c.at
      <4>1. disk'[n] = disk[n] BY <1>m, <2>2, <3>2 DEF Elsewhere
      <4> QED BY <3>1, <4>1 DEF Whole
    <3>3. CASE n = c.at /\ a # c.on
      <4>1. a \in Names BY DEF Names
      <4> QED BY <2>2, <3>1, <3>3, <4>1 DEF Whole
    <3>4. CASE n = c.at /\ a = c.on
      <4>1. Doing("write") BY <1>4, <1>d
      <4> QED BY <1>0, <1>1, <3>4, <4>1 DEF Writing
    <3> QED BY <3>2, <3>3, <3>4
  <2>5. CompleteSent' BY <1>0, <2>2 DEF CompleteSent, AllSent
  <2>6. ASSUME NEW d \in Dirs, NEW n \in Names, n # c.on, Whole(d, n)
        PROVE  Whole(d, n)'
    <3>1. CASE d = c.at BY <2>2, <2>6, <3>1 DEF Whole
    <3>2. CASE d # c.at BY <2>2, <2>6, <3>2 DEF Whole, Elsewhere
    <3> QED BY <3>1, <3>2
  <2>7. \A d \in Dirs : disk[d] # Absent => disk'[d] # Absent BY <2>2 DEF Elsewhere
  <2> QED BY <1>1, <1>4, <2>2, <2>3, <2>4, <2>5, <2>6, <2>7
<1> QED BY <1>1, <1>3, <1>4 DEF Half

LEMMA FailsKeeps ==
    ASSUME MediaInv, Fails
    PROVE  MediaInv'
<1>0. /\ MediaTyped /\ LateOK /\ HolderOK /\ Unborn /\ CreationAlone /\ RowsHaveFiles
      /\ SentOK /\ Writing /\ CompleteSent /\ AgreesBut /\ Busy
  BY DEF MediaInv, Fails
<1>f. /\ late' = late /\ born' = born /\ known' = known
      /\ url' = url /\ sent' = sent /\ shown' = shown /\ spoiled' = spoiled /\ doomed' = doomed
  BY DEF Fails, mediaDevice
<1>1. PICK c, m : c = Next1 /\ m = holder.memory OBVIOUS
<1>2. m \in Memories /\ m \in born BY <1>0, <1>1, HeadTyped
<1>m. Unknown \notin Memories /\ Memories \subseteq Dirs BY MediaAssumption DEF Dirs
<1>h. \/ table' = table /\ disk' = disk
      \/ /\ Half(c) /\ Elsewhere(c)
         /\ c.at = m \/ (c.at = Unknown /\ holder.op = "put")
         /\ c.do = "insert" \/ (c.do = "write" /\ table' = table)
         /\ \A d \in Dirs : disk[d] # Absent => disk'[d] # Absent
         /\ \A d \in Dirs, n \in Names : n # c.on /\ Whole(d, n) => Whole(d, n)'
  <2>1. CASE Half(c) BY <1>0, <1>1, <1>f, <2>1, HalfDone, HeadTyped
  <2>2. CASE table' = table /\ disk' = disk BY <2>2
  <2> QED BY <1>1, <2>1, <2>2 DEF Fails, mediaStore
<1>4. StoreTyped' /\ RowsHaveFiles' /\ SentOK' /\ CompleteSent'
  <2>1. CASE Half(c) BY <1>0, <1>1, <1>f, <2>1, HalfDone
  <2>2. CASE table' = table /\ disk' = disk
    BY <1>0, <1>f, <2>2 DEF MediaTyped, StoreTyped, RowsHaveFiles, Listed, SentOK, Whole, Excused,
                            CompleteSent, AllSent
  <2> QED BY <1>h, <2>1, <2>2
<1>e. \A n \in Memories : n # m => table'[n] = table[n] /\ disk'[n] = disk[n]
  BY <1>h, <1>m DEF Elsewhere
<1>3. Unborn' BY <1>0, <1>2, <1>e, <1>f DEF Unborn, Untouched
<1>r. ASSUME NEW d \in late PROVE CallTyped(d) /\ Ready(d)'
  <2>0. CallTyped(d) /\ Ready(d) BY <1>0 DEF LateOK
  <2>1. CASE table' = table /\ disk' = disk BY <1>f, <2>0, <2>1 DEF Ready, Whole, AllSent
  <2>2. CASE ~ (table' = table /\ disk' = disk)
    <3>1. disk[d.at] # Absent => disk'[d.at] # Absent BY <1>h, <2>0, <2>2 DEF CallTyped
    <3>2. d.do = "count" /\ Whole(d.at, d.on) => Whole(d.at, d.on)'
      <4> SUFFICES ASSUME d.do = "count", Whole(d.at, d.on) PROVE Whole(d.at, d.on)' OBVIOUS
      <4>1. d.at \in Memories /\ d.on \in 1..Thumbs BY <2>0 DEF CallTyped, OfFiles
      <4>2. CASE d.on # c.on
        <5>1. d.at \in Dirs /\ d.on \in Names BY <1>m, <4>1 DEF Names
        <5> QED BY <1>h, <2>2, <4>2, <5>1
      <4>3. CASE d.on = c.on
        <5>1. CASE holder.op = "create"
          <6>1. d.at # m BY <1>0, <1>1, <5>1 DEF CreationAlone, Untouched
          <6> QED BY <1>e, <4>1, <6>1 DEF Whole
        <5>2. CASE holder.op # "create"
          <6>1. c.do = "write" => c.on \in Assets BY <1>0, <1>1, <5>2, OtherHead
          <6>2. c.do # "insert" BY <1>0, <1>1, <5>2, OtherHead
          <6> QED BY <1>h, <2>2, <4>1, <4>3, <6>1, <6>2, MediaAssumption
        <5> QED BY <5>1, <5>2
      <4> QED BY <4>2, <4>3
    <3> QED BY <1>f, <2>0, <3>1, <3>2 DEF Ready, AllSent
  <2> QED BY <2>1, <2>2
<1>5. ASSUME unseen' = unseen \/ unseen' = unseen \cup {m}
      PROVE  MediaTyped' /\ LateOK'
  <2>1. unseen' \subseteq Memories BY <1>0, <1>2, <1>5 DEF MediaTyped
  <2>2. MediaTyped' BY <1>0, <1>4, <1>f, <2>1 DEF MediaTyped, StoreTyped
  <2>3. LateOK' BY <1>0, <1>5, <1>f, <1>r DEF LateOK, CallTyped
  <2> QED BY <2>2, <2>3
<1>a. \A n \in Memories : n # m \/ table' = table => (Agrees(n)' <=> Agrees(n))
  BY <1>e, <1>f DEF Agrees
<1>7. CASE c.part = 0
  <2>1. holder' = Free /\ unseen' = unseen \cup {m} BY <1>1, <1>7 DEF Fails, Unfinished
  <2>2. HolderOK' /\ CreationAlone' /\ Writing' BY <2>1, FreeOK
  <2>3. MediaTyped' /\ LateOK' BY <1>5, <2>1
  <2>5. AgreesBut'
    <3>1. ASSUME NEW n \in Memories \ unseen' PROVE Agrees(n)' /\ ~ AtWork(n)'
      <4>1. n # m /\ n \in Memories \ unseen BY <2>1
      <4>2. ~ AtWork(n) BY <1>1, <4>1 DEF AtWork
      <4>3. Agrees(n) BY <1>0, <4>1, <4>2 DEF AgreesBut
      <4> QED BY <1>a, <2>1, <4>1, <4>3, FreeOK
    <3> QED BY <3>1 DEF AgreesBut
  <2> QED BY <1>3, <1>4, <2>2, <2>3, <2>5 DEF MediaInv
<1>8. CASE c.part # 0
  <2>0. holder.op = "create" BY <1>0, <1>1, <1>8, OtherHead
  <2>1. holder' = Onward(<< >>) /\ unseen' = unseen BY <1>1, <1>8 DEF Fails
  <2>2. /\ Creating(holder) /\ m \in born /\ c.at = m
        /\ c.do \notin {"mkdir", "insert"}
    <3>1. /\ Creating(holder) /\ m \in born /\ c.at = m
          /\ \/ c.do = "mkdir" /\ c.part = 0
             \/ c.do = "insert" /\ c.part = 0
             \/ c.do \in {"truncate", "write", "count", "add"}
      BY <1>0, <1>1, <2>0, CreateHead
    <3> QED BY <1>8, <3>1
  <2>3. holder.more \subseteq 1..Thumbs /\ holder # Free BY <1>0, <2>2 DEF Creating, Busy
  <2>4. PICK b \in BOOLEAN : b = holder.changed BY <1>0 DEF HolderOK, Busy
  <2>5. GoesOn(<< >>, b)
    <3>1. PICK op, on, todo, more : Onward(<< >>) = Handler(op, m, on, todo, more, b)
      <4>1. CASE holder.more = {}
        <5>1. Onward(<< >>) = Handler(holder.op, m, holder.on, << >>, holder.more, b)
          BY <1>0, <1>1, <2>3, <2>4, <4>1, OnwardIs
        <5> QED BY <5>1
      <4>2. CASE holder.more # {}
        <5>1. \E i \in holder.more :
                 Onward(<< >>) = Handler(holder.op, m, holder.on, Thumbnail(m, i), holder.more \ {i}, b)
          BY <1>0, <1>1, <2>3, <2>4, <4>2, OnwardIs
        <5> QED BY <5>1
      <4> QED BY <4>1, <4>2
    <3>2. [Onward(<< >>) EXCEPT !.changed = b] = Handler(op, m, on, todo, more, b)
      BY <3>1, SetChanged
    <3> QED BY <2>1, <3>1, <3>2 DEF GoesOn
  <2>6. HolderOK' /\ holder'.op = "create" /\ holder'.memory = m /\ AfterPart
    BY <1>0, <1>1, <1>f, <2>0, <2>2, <2>5, PartOver
  <2>t. table' = table /\ (disk[m] # Absent => disk'[m] # Absent) BY <1>2, <1>h, <1>m, <2>2
  <2>7. Underway(m) /\ Untouched(m)
    <3>1. ~ Doing("mkdir") /\ ~ Doing("insert") BY <1>1, <2>2 DEF Doing
    <3> QED BY <1>0, <1>1, <2>0, <3>1 DEF CreationAlone, Underway
  <2>8. CreationAlone'
    <3>1. Untouched(m)' BY <1>f, <2>7 DEF Untouched
    <3>2. table'[m].thumbs \in 0..Thumbs
      <4>1. table[m] \in MemoryRows BY <1>0, <1>2, <2>7 DEF MediaTyped, Underway
      <4> QED BY <2>t, <4>1 DEF MemoryRows
    <3>3. /\ table'[m] # Absent /\ disk'[m] # Absent /\ table'[m].status = "pending"
          /\ \A j \in holder.more : table'[m].thumbs < j
      BY <2>7, <2>t DEF Underway
    <3> QED BY <1>1, <2>3, <2>6, <3>1, <3>2, <3>3, AloneAfterPart
  <2>9. MediaTyped' /\ LateOK' BY <1>5, <2>1
  <2>10. Writing' BY <2>6, <2>9, WritingNext DEF WritesItsOwn
  <2>12. AgreesBut'
    <3>1. \A n \in Memories : AtWork(n)' <=> n = m BY <2>6 DEF AtWork
    <3>2. \A n \in Memories : AtWork(n) <=> n = m BY <1>1, <2>0 DEF AtWork
    <3> QED BY <1>0, <1>a, <2>1, <2>6, <2>t, <3>1, <3>2 DEF AgreesBut
  <2> QED BY <1>3, <1>4, <2>6, <2>8, <2>9, <2>10, <2>12 DEF MediaInv
<1> QED BY <1>7, <1>8

LEMMA DroppedKeeps ==
    ASSUME MediaInv, Dropped
    PROVE  MediaInv'
<1>0. /\ MediaTyped /\ LateOK /\ HolderOK /\ Unborn /\ CreationAlone /\ RowsHaveFiles
      /\ SentOK /\ Writing /\ CompleteSent /\ AgreesBut
  BY DEF MediaInv
<1>f. /\ table' = table /\ disk' = disk /\ born' = born /\ known' = known
      /\ url' = url /\ sent' = sent /\ shown' = shown /\ spoiled' = spoiled /\ doomed' = doomed
  BY DEF Dropped, mediaStore, mediaDevice
<1>1. PICK c, m : c = Next1 /\ m = holder.memory OBVIOUS
<1>2. m \in Memories /\ m \in born BY <1>0, <1>1 DEF HolderOK, MediaTyped, Dropped
<1>3. /\ holder' = Free /\ unseen' = unseen \cup {m}
      /\ late' = IF Busy THEN late \cup {c} ELSE late
  BY <1>1 DEF Dropped, Unfinished
<1>4. HolderOK' /\ CreationAlone' /\ Writing' BY <1>3, FreeOK
<1>5. MediaTyped' BY <1>0, <1>2, <1>3, <1>f DEF MediaTyped
<1>6. ASSUME Busy
      PROVE  CallTyped(c) /\ Ready(c) /\ (c.at = m \/ c.at \notin Memories)
  <2>1. Unknown \notin Memories BY MediaAssumption
  <2> QED BY <1>1, <1>6, <2>1, HeadTyped
<1>7. LateOK'
  <2> SUFFICES ASSUME NEW d \in late'
               PROVE  /\ CallTyped(d) /\ Ready(d)'
                      /\ d.at \in Memories => d.at \in born' /\ d.at \in unseen'
    BY DEF LateOK, CallTyped
  <2>1. CASE d \in late
    BY <1>0, <1>3, <1>f, <2>1 DEF LateOK, Ready, Whole, AllSent
  <2>2. CASE Busy /\ d = c
    BY <1>2, <1>3, <1>6, <1>f, <2>2 DEF Ready, Whole, AllSent
  <2> QED BY <1>3, <2>1, <2>2
<1>8. Unborn'
  <2> SUFFICES ASSUME NEW n \in Memories \ born
               PROVE  Untouched(n)' /\ table'[n] = Absent /\ disk'[n] = Absent
    BY <1>f DEF Unborn
  <2>1. Untouched(n) /\ table[n] = Absent /\ disk[n] = Absent BY <1>0 DEF Unborn
  <2>2. \A d \in late' : d.at # n
    <3>1. \A d \in late : d.at # n BY <2>1 DEF Untouched
    <3>2. Busy => c.at # n BY <1>2, <1>6
    <3> QED BY <1>3, <3>1, <3>2
  <2> QED BY <1>f, <2>1, <2>2 DEF Untouched
<1>9. RowsHaveFiles' BY <1>0, <1>f DEF RowsHaveFiles, Listed
<1>10. SentOK' BY <1>0, <1>f DEF SentOK, Whole, Excused
<1>11. CompleteSent' BY <1>0, <1>f DEF CompleteSent, AllSent
<1>12. AgreesBut'
  <2>1. ASSUME NEW n \in Memories \ unseen' PROVE Agrees(n)' /\ ~ AtWork(n)'
    <3>1. n # m /\ n \in Memories \ unseen BY <1>3
    <3>2. ~ AtWork(n) BY <1>1, <3>1 DEF AtWork
    <3>3. Agrees(n) BY <1>0, <3>1, <3>2 DEF AgreesBut
    <3>4. Agrees(n)' BY <1>f, <3>3 DEF Agrees
    <3> QED BY <1>3, <3>4, FreeOK
  <2> QED BY <2>1 DEF AgreesBut
<1> QED BY <1>4, <1>5, <1>7, <1>8, <1>9, <1>10, <1>11, <1>12 DEF MediaInv

-----------------------------------------------------------------------------
(* A call whose handler was dropped, a crash, the end of a handler.         *)
LEMMA LateKeeps ==
    ASSUME MediaInv, NEW c \in late, Late(c)
    PROVE  MediaInv'
<1>0. /\ MediaTyped /\ LateOK /\ HolderOK /\ Unborn /\ CreationAlone /\ RowsHaveFiles
      /\ SentOK /\ Writing /\ CompleteSent /\ AgreesBut
  BY DEF MediaInv
<1>f. /\ holder' = holder /\ born' = born /\ known' = known /\ url' = url /\ sent' = sent
      /\ shown' = shown /\ late' = late \ {c} /\ unseen' = unseen \cup ({c.at} \cap Memories)
  BY DEF Late, mediaDevice
<1>1. /\ CallTyped(c) /\ Ready(c) /\ StoreTyped
      /\ c.at \in Memories => c.at \in born /\ c.at \in unseen
  BY <1>0 DEF LateOK, MediaTyped, StoreTyped
<1>b. Busy' <=> Busy BY <1>f DEF Busy
<1>n. Next1' = Next1 BY <1>f DEF Next1
<1>d. \A x : Doing(x)' <=> Doing(x) BY <1>b, <1>n DEF Doing
<1>2. CASE Possible(c)
  <2>1. /\ Do(c) /\ spoiled' = spoiled \cup Cut(c) /\ doomed' = doomed \cup Doom(c)
    BY <1>2 DEF Late
  <2>2. Recorded(c) BY <1>f, <2>1 DEF Recorded
  <2>3. Elsewhere(c) /\ StoreTyped' BY <1>1, <1>2, <2>1, Effect
  <2>4. doomed' \subseteq born'
    <3>1. c.do = "remove" => c.at \in Memories BY <1>1 DEF CallTyped, OfFiles
    <3>2. Doom(c) \subseteq born BY <1>1, <3>1 DEF Doom
    <3> QED BY <1>0, <1>f, <2>1, <3>2 DEF MediaTyped
  <2>5. MediaTyped'
    <3>1. Cut(c) \subseteq Dirs \X Names BY <1>1 DEF Cut, CallTyped
    <3>2. spoiled' \subseteq Dirs \X Names BY <1>0, <2>1, <3>1 DEF MediaTyped
    <3>3. table' \in [Memories -> MemoryRows \cup {Absent}] /\ disk' \in [Dirs -> Directories \cup {Absent}]
      BY <2>3 DEF StoreTyped
    <3>4. unseen' \subseteq Memories BY <1>0, <1>f DEF MediaTyped
    <3> QED BY <1>0, <1>f, <2>4, <3>2, <3>3, <3>4 DEF MediaTyped
  <2>6. LateOK'
    <3> SUFFICES ASSUME NEW d \in late
                 PROVE  /\ CallTyped(d) /\ Ready(d)'
                        /\ d.at \in Memories => d.at \in born' /\ d.at \in unseen'
      BY <1>f DEF LateOK, CallTyped
    <3>1. /\ CallTyped(d) /\ Ready(d)
          /\ d.at \in Memories => d.at \in born /\ d.at \in unseen
      BY <1>0 DEF LateOK
    <3>2. Ready(d)' BY <1>1, <1>2, <2>1, <2>2, <3>1, ReadyStays
    <3> QED BY <1>f, <3>1, <3>2
  <2>7. RowsHaveFiles' BY <1>0, <1>1, <1>2, <2>1, <2>2, FilesKept
  <2>8. SentOK' BY <1>0, <1>1, <1>2, <2>1, <2>2, SentKept
  <2>9. CompleteSent' BY <1>0, <1>1, <1>2, <1>f, <2>1, CompleteKept
  <2>10. ASSUME NEW n \in Memories, Untouched(n)
         PROVE  Untouched(n)' /\ table'[n] = table[n] /\ disk'[n] = disk[n]
    <3>1. c.at # n /\ n \in Dirs BY <2>10 DEF Untouched, Dirs
    <3>2. n \notin doomed' BY <2>1, <2>10, <3>1 DEF Untouched, Doom
    <3>3. Untouched(n)' BY <1>f, <2>10, <3>2 DEF Untouched
    <3> QED BY <2>3, <3>1, <3>3 DEF Elsewhere
  <2>11. Unborn' BY <1>0, <1>f, <2>10, SMTT(30) DEF Unborn
  <2>12. HolderOK' BY <1>0, <1>f, ZenonT(60) DEF HolderOK, Creating, Putting, Completing, Failing, Deleting
  <2>13. CreationAlone'
    <3> SUFFICES ASSUME holder.op = "create" PROVE CreationAlone' BY <1>f DEF CreationAlone
    <3>1. PICK m : m = holder.memory OBVIOUS
    <3>2. m \in Memories BY <1>0, <3>1 DEF HolderOK, MediaTyped, Free
    <3>3. Untouched(m)' /\ table'[m] = table[m] /\ disk'[m] = disk[m]
      BY <1>0, <2>10, <3>1, <3>2 DEF CreationAlone
    <3> QED BY <1>0, <1>b, <1>d, <1>f, <1>n, <3>1, <3>3 DEF CreationAlone, Whole
  <2>14. Writing'
    <3>1. spoiled \subseteq spoiled' /\ doomed \subseteq doomed' BY <2>1
    <3>2. PICK x, m, a : x = Next1 /\ m = holder.memory /\ a = holder.on OBVIOUS
    <3>3. Doing("write")' /\ <<x.at, x.on>> \in sent' => Excused(x.at, x.on)'
      BY <1>0, <1>d, <1>f, <3>1, <3>2 DEF Writing, Excused
    <3>4. Doing("status")' /\ x.on = "complete" => AllSent(x.at)'
      BY <1>0, <1>d, <1>f, <3>2 DEF Writing, AllSent
    <3>5. ASSUME holder.op = "put", holder.todo = << >>, url[m][a] = m
          PROVE  Whole(m, a)' \/ Excused(m, a)'
      <4>1. m \in Dirs /\ a \in Names
        BY <1>0, <3>2, <3>5 DEF HolderOK, MediaTyped, Free, Putting, Dirs, Names
      <4>2. Whole(m, a) \/ Excused(m, a) BY <1>0, <3>2, <3>5 DEF Writing
      <4>3. Cut(c) \subseteq spoiled' BY <2>1
      <4> QED BY <1>1, <1>2, <2>1, <3>1, <4>1, <4>2, <4>3, UploadKept
    <3> QED BY <1>f, <1>n, <3>2, <3>3, <3>4, <3>5 DEF Writing
  <2>15. AgreesBut'
    <3> SUFFICES ASSUME NEW n \in Memories \ unseen'
                 PROVE  /\ ~ AtWork(n)' => Agrees(n)'
                        /\ AtWork(n)' /\ holder'.op = "complete" =>
                              /\ table'[n] = Absent <=> shown'[n] = "none"
                              /\ holder'.changed <=> table'[n] # Absent
                        /\ AtWork(n)' /\ holder'.op = "delete" =>
                              /\ table'[n] = Absent
                              /\ ~ holder'.changed => shown'[n] = "none"
      BY DEF AgreesBut
    <3>1. n # c.at /\ n \in Memories \ unseen BY <1>f
    <3>2. table'[n] = table[n] BY <2>3, <3>1 DEF Elsewhere
    <3>3. AtWork(n)' <=> AtWork(n) BY <1>b, <1>f DEF AtWork
    <3>4. Agrees(n)' <=> Agrees(n) BY <1>f, <3>2 DEF Agrees
    <3>5. /\ ~ AtWork(n) => Agrees(n)
          /\ AtWork(n) /\ holder.op = "complete" =>
                /\ table[n] = Absent <=> shown[n] = "none"
                /\ holder.changed <=> table[n] # Absent
          /\ AtWork(n) /\ holder.op = "delete" =>
                /\ table[n] = Absent
                /\ ~ holder.changed => shown[n] = "none"
      BY <1>0, <3>1, Zenon DEF AgreesBut
    <3>6. /\ holder'.op = holder.op /\ holder'.changed = holder.changed /\ shown'[n] = shown[n]
      BY <1>f
    <3>7. ~ AtWork(n)' => Agrees(n)' BY <3>3, <3>4, <3>5
    <3>8. ASSUME AtWork(n)', holder'.op = "complete"
          PROVE  /\ table'[n] = Absent <=> shown'[n] = "none"
                 /\ holder'.changed <=> table'[n] # Absent
      <4>1. AtWork(n) /\ holder.op = "complete" BY <3>3, <3>6, <3>8
      <4>2. table[n] = Absent <=> shown[n] = "none" BY <3>5, <4>1, Zenon
      <4>3. holder.changed <=> table[n] # Absent BY <3>5, <4>1, Zenon
      <4>4. table'[n] = Absent <=> shown'[n] = "none" BY <3>2, <3>6, <4>2
      <4>5. holder'.changed <=> table'[n] # Absent
        <5>1. PICK x, y : x = holder.changed /\ y = table[n] OBVIOUS
        <5>2. x <=> y # Absent BY <4>3, <5>1, Zenon
        <5>3. holder'.changed = x /\ table'[n] = y BY <3>2, <3>6, <5>1
        <5> QED BY <5>2, <5>3, Zenon
      <4> QED BY <4>4, <4>5
    <3>9. ASSUME AtWork(n)', holder'.op = "delete"
          PROVE  /\ table'[n] = Absent
                 /\ ~ holder'.changed => shown'[n] = "none"
      <4>1. AtWork(n) /\ holder.op = "delete" BY <3>3, <3>6, <3>9
      <4>2. table[n] = Absent BY <3>5, <4>1, Zenon
      <4>3. ~ holder.changed => shown[n] = "none" BY <3>5, <4>1, Zenon
      <4>4. ~ holder'.changed => shown'[n] = "none" BY <3>6, <4>3, Zenon
      <4> QED BY <3>2, <4>2, <4>4
    <3> QED BY <3>7, <3>8, <3>9, Zenon
  <2> QED BY <2>5, <2>6, <2>7, <2>8, <2>9, <2>11, <2>12, <2>13, <2>14, <2>15 DEF MediaInv
<1>3. CASE ~ Possible(c)
  <2>f. table' = table /\ disk' = disk /\ spoiled' = spoiled /\ doomed' = doomed
    BY <1>3 DEF Late, mediaStore
  <2>1. MediaTyped' BY <1>0, <1>f, <2>f DEF MediaTyped
  <2>2. LateOK' BY <1>0, <1>f, <2>f DEF LateOK, CallTyped, Ready, Whole, AllSent
  <2>3. HolderOK' BY <1>0, <1>f DEF HolderOK, Creating, Putting, Completing, Failing, Deleting
  <2>4. ASSUME NEW n, Untouched(n) PROVE Untouched(n)' BY <1>f, <2>f, <2>4 DEF Untouched
  <2>5. Unborn' BY <1>0, <1>f, <2>f, <2>4 DEF Unborn
  <2>6. CreationAlone'
    <3> SUFFICES ASSUME holder.op = "create" PROVE CreationAlone' BY <1>f DEF CreationAlone
    <3>1. PICK m : m = holder.memory OBVIOUS
    <3>2. Untouched(m)' BY <1>0, <2>4, <3>1 DEF CreationAlone
    <3> QED BY <1>0, <1>b, <1>d, <1>f, <1>n, <2>f, <3>1, <3>2 DEF CreationAlone, Whole
  <2>7. RowsHaveFiles' BY <1>0, <2>f DEF RowsHaveFiles, Listed
  <2>8. SentOK' BY <1>0, <1>f, <2>f DEF SentOK, Whole, Excused
  <2>9. Writing' BY <1>0, <1>d, <1>f, <1>n, <2>f DEF Writing, Whole, Excused, AllSent
  <2>10. CompleteSent' BY <1>0, <1>f, <2>f DEF CompleteSent, AllSent
  <2>11. AgreesBut'
    <3>1. \A n : AtWork(n)' <=> AtWork(n) BY <1>b, <1>f DEF AtWork
    <3>2. \A n : Agrees(n)' <=> Agrees(n) BY <1>f, <2>f DEF Agrees
    <3> QED BY <1>0, <1>f, <2>f, <3>1, <3>2 DEF AgreesBut
  <2> QED BY <2>1, <2>2, <2>3, <2>5, <2>6, <2>7, <2>8, <2>9, <2>10, <2>11 DEF MediaInv
<1> QED BY <1>2, <1>3

LEMMA CrashKeeps ==
    ASSUME MediaInv, Crash
    PROVE  MediaInv'
<1>0. /\ MediaTyped /\ Unborn /\ RowsHaveFiles /\ SentOK /\ CompleteSent
  BY DEF MediaInv
<1>f. /\ born' = born /\ known' = known /\ url' = url /\ sent' = sent
      /\ spoiled' = spoiled /\ doomed' = doomed
      /\ holder' = Free /\ late' = {} /\ unseen' = {}
  BY DEF Crash, mediaDevice
<1>1. /\ StoreTyped' /\ RowsHaveFiles' /\ SentOK' /\ CompleteSent'
      /\ \A n \in Memories \ born : table'[n] = table[n] /\ disk'[n] = disk[n]
  <2>1. CASE Busy /\ Half(Next1)
    <3>1. /\ StoreTyped' /\ RowsHaveFiles' /\ SentOK' /\ CompleteSent' /\ Elsewhere(Next1)
          /\ Next1.at \in born \/ Next1.at = Unknown
      BY <1>f, <2>1, HalfDone, HeadTyped
    <3>2. Unknown \notin Memories /\ Memories \subseteq Dirs BY MediaAssumption DEF Dirs
    <3> QED BY <3>1, <3>2 DEF Elsewhere
  <2>2. CASE table' = table /\ disk' = disk
    BY <1>0, <1>f, <2>2 DEF MediaTyped, StoreTyped, RowsHaveFiles, Listed, SentOK, Whole, Excused,
                            CompleteSent, AllSent
  <2> QED BY <2>1, <2>2 DEF Crash, mediaStore
<1>2. HolderOK' /\ CreationAlone' /\ Writing' /\ \A m \in Memories : ~ AtWork(m)' BY <1>f, FreeOK
<1>3. /\ shown' \in [Memories -> {"none", "pending", "complete"}]
      /\ \A m \in Memories : /\ table'[m] = Absent <=> shown'[m] = "none"
                             /\ table'[m] # Absent /\ table'[m].status = "complete"
                                   => shown'[m] = "complete"
  BY DEF Crash, View
<1>4. MediaTyped' BY <1>0, <1>f, <1>1, <1>3 DEF MediaTyped, StoreTyped
<1>5. LateOK' BY <1>f DEF LateOK
<1>6. Unborn'
  <2> SUFFICES ASSUME NEW n \in Memories \ born
               PROVE  Untouched(n)' /\ table'[n] = Absent /\ disk'[n] = Absent
    BY <1>f DEF Unborn
  <2>1. Untouched(n) /\ table[n] = Absent /\ disk[n] = Absent BY <1>0 DEF Unborn
  <2>2. table'[n] = Absent /\ disk'[n] = Absent BY <1>1, <2>1
  <2>3. shown'[n] = "none" BY <1>3, <2>2
  <2> QED BY <1>f, <2>1, <2>2, <2>3 DEF Untouched
<1>7. AgreesBut' BY <1>2, <1>3 DEF AgreesBut, Agrees
<1> QED BY <1>1, <1>2, <1>4, <1>5, <1>6, <1>7 DEF MediaInv

LEMMA FinishKeeps ==
    ASSUME MediaInv, Finish
    PROVE  MediaInv'
<1>0. /\ MediaTyped /\ LateOK /\ HolderOK /\ Unborn /\ CreationAlone /\ RowsHaveFiles
      /\ SentOK /\ Writing /\ CompleteSent /\ AgreesBut
  BY DEF MediaInv
<1>f. /\ holder # Free /\ holder.todo = << >> /\ holder' = Free
      /\ table' = table /\ disk' = disk /\ born' = born /\ url' = url
      /\ doomed' = doomed /\ late' = late
  BY DEF Finish, mediaStore
<1>1. PICK m, a : m = holder.memory /\ a = holder.on OBVIOUS
<1>2. m \in born /\ m \in Memories BY <1>0, <1>1, <1>f DEF HolderOK, MediaTyped
<1>b. ~ Busy BY <1>f DEF Busy
<1>3. HolderOK' /\ CreationAlone' /\ Writing' /\ \A n \in Memories : ~ AtWork(n)' BY <1>f, FreeOK
<1>c. holder.op = "create" => Untouched(m) /\ table[m] # Absent /\ table[m].status = "pending"
  <2>1. ~ Doing("mkdir") /\ ~ Doing("insert") BY <1>b DEF Doing
  <2> QED BY <1>0, <1>1, <2>1 DEF CreationAlone
<1>p. holder.op = "put" => /\ a \in Assets /\ url[m][a] \in {m, Unknown}
                           /\ url[m][a] = m => Whole(m, a) \/ Excused(m, a)
  <2>1. holder.op = "put" => Putting(holder) BY <1>0, <1>f DEF HolderOK
  <2> QED BY <1>0, <1>1, <1>f, <2>1 DEF Putting, Writing
<1>4. /\ known \subseteq known' /\ known' \subseteq known \cup {m}
      /\ sent \subseteq sent' /\ spoiled \subseteq spoiled'
      /\ spoiled' \subseteq spoiled \cup {<<m, a>>}
      /\ \/ sent' = sent
         \/ /\ holder.op = "put" /\ sent' = sent \cup {<<m, a>>}
            /\ url[m][a] = Unknown => <<m, a>> \in spoiled'
      /\ spoiled' = spoiled \/ holder.op = "put"
  BY <1>1 DEF Finish, Reply
<1>u. unseen' = unseen \/ (unseen' = unseen \cup {m} /\ shown' = shown)
  BY <1>1 DEF Finish, Announce, Told, Untold, NoEvent, Unfinished
<1>5. /\ \A n \in Memories : n # m => shown'[n] = shown[n]
      /\ shown' \in [Memories -> {"none", "pending", "complete"}]
  BY <1>0, <1>1, <1>2 DEF Finish, Announce, Told, Untold, NoEvent, MediaTyped
<1>6. ASSUME m \notin unseen'
      PROVE  /\ holder.op = "create" => shown'[m] = "pending"
             /\ holder.op = "complete" =>
                   IF holder.changed THEN shown'[m] = "complete" ELSE shown' = shown
             /\ holder.op = "delete" =>
                   IF holder.changed THEN shown'[m] = "none" ELSE shown' = shown
             /\ holder.op \in {"put", "fail"} => shown' = shown
  <2>0. ~ Untold BY <1>1, <1>6 DEF Untold, Unfinished
  <2>1. CASE holder.op = "create"
    <3>1. shown' = [shown EXCEPT ![m] = "pending"]
      BY <1>1, <1>c, <2>0, <2>1 DEF Finish, Announce, Told
    <3> QED BY <1>0, <1>2, <2>1, <3>1 DEF MediaTyped
  <2>2. CASE holder.op = "complete"
    <3>1. IF holder.changed THEN shown' = [shown EXCEPT ![m] = "complete"] ELSE shown' = shown
      BY <1>1, <2>0, <2>2 DEF Finish, Announce, Told, NoEvent
    <3> QED BY <1>0, <1>2, <2>2, <3>1 DEF MediaTyped
  <2>3. CASE holder.op = "delete"
    <3>1. IF holder.changed THEN shown' = [shown EXCEPT ![m] = "none"] ELSE shown' = shown
      BY <1>1, <2>0, <2>3 DEF Finish, Announce, Told, NoEvent
    <3> QED BY <1>0, <1>2, <2>3, <3>1 DEF MediaTyped
  <2>4. CASE holder.op \in {"put", "fail"}
    <3>1. shown' = shown BY <2>4 DEF Finish, Announce, NoEvent
    <3> QED BY <2>4, <3>1
  <2> QED BY <1>0, <1>f, <2>1, <2>2, <2>3, <2>4 DEF HolderOK
<1>7. MediaTyped'
  <2>1. <<m, a>> \in Memories \X Assets \/ (sent' = sent /\ spoiled' = spoiled)
    BY <1>2, <1>4, <1>p
  <2>2. Memories \X Assets \subseteq Dirs \X Names BY DEF Dirs, Names
  <2>3. sent' \subseteq Memories \X Assets /\ spoiled' \subseteq Dirs \X Names
    BY <1>0, <1>4, <2>1, <2>2 DEF MediaTyped
  <2>4. known' \subseteq born' BY <1>0, <1>2, <1>4, <1>f DEF MediaTyped
  <2> QED BY <1>0, <1>2, <1>5, <1>f, <1>u, <2>3, <2>4 DEF MediaTyped
<1>8. LateOK'
  <2>1. \A n : AllSent(n) => AllSent(n)' BY <1>4 DEF AllSent
  <2> QED BY <1>0, <1>f, <1>u, <2>1 DEF LateOK, CallTyped, Ready, Whole
<1>9. Unborn'
  <2> SUFFICES ASSUME NEW n \in Memories \ born
               PROVE  Untouched(n)' /\ table'[n] = Absent /\ disk'[n] = Absent
    BY <1>f DEF Unborn
  <2>1. Untouched(n) /\ table[n] = Absent /\ disk[n] = Absent BY <1>0 DEF Unborn
  <2>2. n # m BY <1>2
  <2>3. n \notin known' /\ shown'[n] = "none" BY <1>4, <1>5, <2>1, <2>2 DEF Untouched
  <2> QED BY <1>f, <2>1, <2>3 DEF Untouched
<1>10. RowsHaveFiles' BY <1>0, <1>f DEF RowsHaveFiles, Listed
<1>11. SentOK'
  <2> SUFFICES ASSUME NEW n \in Memories, NEW x \in Assets, <<n, x>> \in sent'
               PROVE  Whole(n, x) \/ n \in doomed \/ <<n, x>> \in spoiled'
    BY <1>f DEF SentOK, Whole, Excused
  <2>1. CASE <<n, x>> \in sent BY <1>0, <1>4, <2>1 DEF SentOK, Excused
  <2>2. CASE <<n, x>> \notin sent
    <3>1. n = m /\ x = a /\ holder.op = "put" /\ (url[m][a] = Unknown => <<m, a>> \in spoiled')
      BY <1>4, <2>2
    <3>2. CASE url[m][a] = m BY <1>4, <1>p, <3>1, <3>2 DEF Excused
    <3>3. CASE url[m][a] = Unknown BY <3>1, <3>3
    <3> QED BY <1>p, <3>1, <3>2, <3>3
  <2> QED BY <2>1, <2>2
<1>12. CompleteSent' BY <1>0, <1>4, <1>f DEF CompleteSent, AllSent
<1>13. AgreesBut'
  <2>1. ASSUME NEW n \in Memories \ unseen' PROVE Agrees(n)'
    <3>0. n \in Memories \ unseen BY <1>u
    <3>1. CASE n # m
      <4>1. ~ AtWork(n) BY <1>1, <3>1 DEF AtWork
      <4>2. Agrees(n) BY <1>0, <3>0, <4>1 DEF AgreesBut
      <4> QED BY <1>5, <1>f, <3>1, <4>2 DEF Agrees
    <3>2. CASE n = m /\ holder.op = "create" BY <1>6, <1>c, <1>f, <3>2 DEF Agrees
    <3>3. CASE n = m /\ holder.op \in {"put", "fail"}
      <4>1. ~ AtWork(n) BY <3>3 DEF AtWork
      <4>2. Agrees(n) BY <1>0, <3>0, <4>1 DEF AgreesBut
      <4> QED BY <1>6, <1>f, <3>3, <4>2 DEF Agrees
    <3>4. CASE n = m /\ holder.op = "complete"
      <4>1. AtWork(n) BY <1>1, <1>b, <3>4 DEF AtWork
      <4>2. /\ table[n] = Absent <=> shown[n] = "none"
            /\ holder.changed <=> table[n] # Absent
        <5>1. AtWork(n) /\ holder.op = "complete" =>
                 /\ table[n] = Absent <=> shown[n] = "none"
                 /\ holder.changed <=> table[n] # Absent
          BY <1>0, <3>0, Zenon DEF AgreesBut
        <5>2. holder.op = "complete" BY <3>4
        <5> QED BY <4>1, <5>1, <5>2, Zenon
      <4>3. CASE table[n] # Absent
        <5>1. holder.changed BY <4>2, <4>3, Zenon
        <5>2. shown'[n] = "complete" BY <1>6, <3>4, <5>1, Zenon
        <5> QED BY <1>f, <4>3, <5>2 DEF Agrees
      <4>4. CASE table[n] = Absent
        <5>1. ~ holder.changed BY <4>2, <4>4, Zenon
        <5>2. shown' = shown BY <1>6, <3>4, <5>1, Zenon
        <5>3. shown[n] = "none" BY <4>2, <4>4, Zenon
        <5> QED BY <1>f, <4>4, <5>2, <5>3 DEF Agrees
      <4> QED BY <4>3, <4>4
    <3>5. CASE n = m /\ holder.op = "delete"
      <4>1. AtWork(n) BY <1>1, <1>b, <3>5 DEF AtWork
      <4>2. table[n] = Absent /\ (~ holder.changed => shown[n] = "none")
        <5>1. AtWork(n) /\ holder.op = "delete" =>
                 table[n] = Absent /\ (~ holder.changed => shown[n] = "none")
          BY <1>0, <3>0, Zenon DEF AgreesBut
        <5>2. holder.op = "delete" BY <3>5
        <5> QED BY <4>1, <5>1, <5>2, Zenon
      <4>3. shown'[n] = "none"
        <5>1. CASE holder.changed BY <1>6, <3>5, <5>1, Zenon
        <5>2. CASE ~ holder.changed
          <6>1. shown' = shown BY <1>6, <3>5, <5>2, Zenon
          <6>2. shown[n] = "none" BY <4>2, <5>2, Zenon
          <6> QED BY <6>1, <6>2
        <5> QED BY <5>1, <5>2
      <4> QED BY <1>f, <4>2, <4>3 DEF Agrees
    <3> QED BY <1>0, <1>f, <3>1, <3>2, <3>3, <3>4, <3>5 DEF HolderOK
  <2> QED BY <1>3, <1>f, <2>1 DEF AgreesBut
<1> QED BY <1>3, <1>7, <1>8, <1>9, <1>10, <1>11, <1>12, <1>13 DEF MediaInv

-----------------------------------------------------------------------------
LEMMA MediaBegins == MediaInit => MediaInv
<1> SUFFICES ASSUME MediaInit PROVE MediaInv OBVIOUS
<1> USE DEF MediaInit
<1>1. Free.op = "none" /\ Free.todo = << >> /\ Free.memory = Absent BY DEF Free
<1>2. ~ Busy BY DEF Busy
<1>3. MediaTyped BY DEF MediaTyped
<1>4. LateOK BY DEF LateOK
<1>5. HolderOK BY DEF HolderOK
<1>6. Unborn
  <2>1. Memories \subseteq Dirs BY DEF Dirs
  <2> QED BY <2>1 DEF Unborn, Untouched
<1>7. CreationAlone BY <1>1 DEF CreationAlone
<1>8. RowsHaveFiles BY DEF RowsHaveFiles, Listed
<1>9. SentOK BY DEF SentOK
<1>10. Writing BY <1>1, <1>2 DEF Writing, Doing
<1>11. CompleteSent BY DEF CompleteSent
<1>12. AgreesBut
  <2>1. \A m \in Memories : Agrees(m) /\ ~ AtWork(m) BY <1>1 DEF Agrees, AtWork
  <2> QED BY <2>1 DEF AgreesBut
<1> QED BY <1>3, <1>4, <1>5, <1>6, <1>7, <1>8, <1>9, <1>10, <1>11, <1>12 DEF MediaInv

LEMMA MediaStays == MediaInv /\ UNCHANGED mediaVars => MediaInv'
<1> SUFFICES ASSUME MediaInv, UNCHANGED mediaVars PROVE MediaInv' OBVIOUS
<1>f. /\ table' = table /\ disk' = disk /\ holder' = holder /\ late' = late /\ born' = born
      /\ known' = known /\ url' = url /\ sent' = sent /\ shown' = shown /\ spoiled' = spoiled
      /\ doomed' = doomed /\ unseen' = unseen
  BY DEF mediaVars, mediaStore, mediaDevice, mediaPast
<1>0. /\ MediaTyped /\ LateOK /\ HolderOK /\ Unborn /\ CreationAlone /\ RowsHaveFiles
      /\ SentOK /\ Writing /\ CompleteSent /\ AgreesBut
  BY DEF MediaInv
<1>1. (Busy' <=> Busy) /\ Next1' = Next1 BY <1>f DEF Busy, Next1
<1>2. \A x : Doing(x)' <=> Doing(x) BY <1>1 DEF Doing
<1>3. MediaTyped' /\ LateOK'
  BY <1>0, <1>f, SMTT(30) DEF MediaTyped, LateOK, CallTyped, Ready, Whole, AllSent
<1>4. HolderOK' BY <1>0, <1>f, ZenonT(60) DEF HolderOK, Creating, Putting, Completing, Failing, Deleting
<1>5. Unborn' BY <1>0, <1>f DEF Unborn, Untouched
<1>6. CreationAlone' BY <1>0, <1>1, <1>2, <1>f DEF CreationAlone, Untouched, Whole
<1>7. RowsHaveFiles' BY <1>0, <1>f DEF RowsHaveFiles, Listed
<1>8. SentOK' /\ CompleteSent' BY <1>0, <1>f DEF SentOK, Whole, Excused, CompleteSent, AllSent
<1>9. Writing' BY <1>0, <1>1, <1>2, <1>f DEF Writing, Whole, Excused, AllSent
<1>10. AgreesBut'
  <2>1. \A m : Agrees(m)' <=> Agrees(m) BY <1>f DEF Agrees
  <2>2. \A m : AtWork(m)' <=> AtWork(m) BY <1>1, <1>f DEF AtWork
  <2> QED BY <1>0, <1>f, <2>1, <2>2 DEF AgreesBut
<1> QED BY <1>3, <1>4, <1>5, <1>6, <1>7, <1>8, <1>9, <1>10 DEF MediaInv

LEMMA MediaGoesOn == MediaInv /\ [MediaNext]_mediaVars => MediaInv'
<1> SUFFICES ASSUME MediaInv, MediaNext PROVE MediaInv'
  BY MediaStays
<1>1. CASE \E m \in Memories : CreateCapture(m)
  <2>1. PICK m \in Memories, filled \in SUBSET (1..Thumbs) : CreateMemory(m, Assets, << >>, filled)
    BY <1>1 DEF CreateCapture
  <2>2. PICK none \in {<< >>, Upload(m, Body, 1)} : none = << >> OBVIOUS
  <2>3. CreateMemory(m, Assets, none, filled) BY <2>1, <2>2
  <2> QED BY <2>3, CreateBegins
<1>2. CASE \E m \in Memories : CreateNote(m)
  <2>a. PICK m \in Memories : CreateNote(m) BY <1>2
  <2>1. PICK body \in {<< >>, Upload(m, Body, 1)} : CreateMemory(m, {}, body, {})
    BY <2>a DEF CreateNote
  <2>2. PICK none \in SUBSET (1..Thumbs) : none = {} OBVIOUS
  <2>3. PICK files \in {Assets, {}} : files = {} OBVIOUS
  <2>4. CreateMemory(m, files, body, none) BY <2>1, <2>2, <2>3
  <2> QED BY <2>1, <2>4, CreateBegins
<1>3. CASE \E m \in Memories : DeleteMemory(m) BY <1>3, DeleteBegins
<1>4. CASE \E m \in Memories : \E a \in Assets : UploadFile(m, a) BY <1>4, UploadKeeps
<1>5. CASE \E m \in Memories : \E a \in Assets : PutFile(m, a) BY <1>5, PutBegins
<1>6. CASE \E m \in Memories : \E success \in BOOLEAN : Report(m, success) BY <1>6, ReportBegins
<1>7. CASE Step BY <1>7, StepKeeps
<1>8. CASE Fails BY <1>8, FailsKeeps
<1>9. CASE Dropped BY <1>9, DroppedKeeps
<1>10. CASE Crash BY <1>10, CrashKeeps
<1>11. CASE Finish BY <1>11, FinishKeeps
<1>12. CASE \E call \in late : Late(call) BY <1>12, LateKeeps
<1> QED BY <1>1, <1>2, <1>3, <1>4, <1>5, <1>6, <1>7, <1>8, <1>9, <1>10, <1>11, <1>12 DEF MediaNext

LEMMA MediaInvariant == MediaSpec => []MediaInv
BY MediaBegins, MediaGoesOn, PTL DEF MediaSpec

(* Rows, directories and views keep the types of the code.                  *)
THEOREM MediaTypes == MediaSpec => []MTypeOK
<1>1. MediaInv => MTypeOK BY DEF MediaInv, MediaTyped, MTypeOK
<1> QED BY <1>1, MediaInvariant, PTL

(* A memory in the table has its directory, and the last thumbnail counted  *)
(* can be read, whatever failed, was dropped or cut off by a crash on the   *)
(* way (capture.rs, "Create memory record + directory first").              *)
THEOREM RowsKeepFiles == MediaSpec => []RowsHaveFiles
<1>1. MediaInv => RowsHaveFiles BY DEF MediaInv
<1> QED BY <1>1, MediaInvariant, PTL

(* A memory that is shown as complete has all its files, but for the        *)
(* excuses the code leaves.                                                 *)
THEOREM CompleteIsUploaded == MediaSpec => []CompleteMeansUploaded
<1>1. MediaInv => CompleteMeansUploaded
  <2> SUFFICES ASSUME MediaInv, NEW m \in Memories, NEW a \in Assets, Listed(m),
                      table[m].status = "complete"
               PROVE  (disk[m] # Absent /\ disk[m][a] = "whole") \/ <<m, a>> \in spoiled
    BY DEF CompleteMeansUploaded
  <2>1. table[m] # Absent /\ m \notin doomed BY DEF Listed
  <2>2. <<m, a>> \in sent BY <2>1 DEF MediaInv, CompleteSent, AllSent
  <2> QED BY <2>1, <2>2 DEF MediaInv, SentOK, Whole, Excused
<1> QED BY <1>1, MediaInvariant, PTL

(* Between two handlers the portal shows what the table holds, but for the  *)
(* memories of the handlers that were dropped.                              *)
THEOREM PortalIsRight == MediaSpec => []PortalAgrees
<1>1. MediaInv => PortalAgrees
  <2> SUFFICES ASSUME MediaInv, holder = Free, NEW m \in Memories \ unseen PROVE Agrees(m)
    BY DEF PortalAgrees, Agrees
  <2>1. ~ AtWork(m) BY MediaAssumption DEF AtWork, Free, Dirs
  <2> QED BY <2>1 DEF MediaInv, AgreesBut
<1> QED BY <1>1, MediaInvariant, PTL

-----------------------------------------------------------------------------
(* The contacts.  What the sync worker holds: a list, then its pages.       *)
ChangeRows == [id : Ids, card : Cards \cup {Nothing}, at : 1..MaxContactsTime]
PageRows   == [content : Seq(ChangeRows), number : Nat, total : Nat]
SyncPhases == {"idle", "hook", "ask", "listed", "pages", "save"}

Elements(list) == {list[k] : k \in DOMAIN list}
On(p)   == Elements(sync.pages[p].content)
Carried == UNION {On(p) : p \in 1 .. Len(sync.pages)}

(* The pages before the one the worker waits for, and after the last all.   *)
Arrived == UNION {On(p) : p \in 1 .. IF sync.phase = "save" THEN sync.page ELSE sync.page - 1}

OnItsWay == sync.phase \in {"pages", "save"}

SyncOK == /\ sync \in [phase : SyncPhases, pages : Seq(ChangeRows) \cup Seq(PageRows), page : Nat]
          /\ sync.phase = "listed" => sync.pages \in Seq(ChangeRows) /\ cursor = 0
          /\ OnItsWay => /\ sync.pages \in Seq(PageRows) /\ sync.page \in 1 .. Len(sync.pages)
                         /\ \A p \in 1 .. Len(sync.pages) :
                               sync.pages[p].number = p /\ sync.pages[p].total = Len(sync.pages)
                         /\ \A e \in Carried : e.at <= handed
          /\ sync.phase = "save" => sync.page = Len(sync.pages)

TimesOK == /\ handed \in 0..MaxContactsTime /\ cursor <= handed
           /\ missed \subseteq Ids

(* Contacts whose last change the device was or could be sent in time.      *)
Due(i, top) == i \in Ids \ missed /\ people[i] # Nothing /\ people[i].at <= top

Steady == ~ crossed /\ resetter # "forget"

CopyOK == Steady => \A i \in Ids : Due(i, cursor) => cards[i] = Change(i).card

(* Nothing that is not missed changed since the live contacts were listed.  *)
ListedOK == sync.phase = "listed" =>
    \A i \in Ids \ missed :
        /\ \A e \in Elements(sync.pages) : e.id = i => e = Change(i)
        /\ i \in Live(people) => Change(i) \in Elements(sync.pages)

(* The pages have what changed after the cursor, and the device's copy has  *)
(* what was on those that arrived.                                          *)
SendingOK == OnItsWay =>
    \A i \in Ids : Due(i, handed) =>
        /\ \A e \in Carried : e.id = i => e = Change(i)
        /\ ~ crossed /\ people[i].at > cursor => Change(i) \in Carried
        /\ Steady => \A e \in Arrived : e.id = i => cards[i] = e.card

ContactsInv == CTypeOK /\ SyncOK /\ TimesOK /\ CopyOK /\ ListedOK /\ SendingOK

LEMMA GreatestTime ==
    ASSUME NEW T \in SUBSET (1..MaxContactsTime)
    PROVE  /\ Greatest(T) \in T \cup {0} /\ Greatest(T) \in 0..MaxContactsTime
           /\ \A t \in T : t <= Greatest(T)
<1>1. MaxContactsTime \in Nat BY ContactsAssumption
<1>2. PICK S : S = {0} \cup T OBVIOUS
<1>3. S \in SUBSET (0..MaxContactsTime) /\ S # {} BY <1>1, <1>2
<1>4. Max(S) \in S /\ \A x \in S : x <= Max(S) BY <1>1, <1>3, GreatestOfSome
<1>5. Greatest(T) = Max(S) BY <1>2 DEF Greatest
<1> QED BY <1>1, <1>2, <1>3, <1>4, <1>5

LEMMA ListOfSet ==
    ASSUME NEW S, IsFiniteSet(S)
    PROVE  SetToSeq(S) \in Seq(S) /\ Elements(SetToSeq(S)) = S
<1>1. PICK n : n = Cardinality(S) OBVIOUS
<1>2. n \in Nat /\ ExistsBijection(1..n, S) BY <1>1, FS_CardinalityType
<1>3. \E f \in [1..n -> S] : IsInjective(f)
  BY <1>2 DEF ExistsBijection, Bijection, Injection
<1>4. PICK l : l = SetToSeq(S) OBVIOUS
<1>5. l \in [1..n -> S] /\ IsInjective(l) BY <1>1, <1>3, <1>4 DEF SetToSeq
<1>6. l \in Injection(1..n, S) BY <1>5 DEF Injection
<1>7. Cardinality(1..n) = n
  <2>1. Cardinality(1..n) = IF 1 > n THEN 0 ELSE n - 1 + 1 BY <1>2, FS_Interval
  <2> QED BY <1>2, <2>1
<1>8. l \in Surjection(1..n, S) BY <1>1, <1>6, <1>7, FS_Injection
<1>9. l \in Seq(S) BY <1>2, <1>5
<1>10. \A s \in S : \E k \in 1..n : l[k] = s BY <1>8 DEF Surjection
<1>11. Elements(l) = S BY <1>5, <1>10 DEF Elements
<1> QED BY <1>4, <1>9, <1>11

LEMMA Quotient ==
    ASSUME NEW a \in Nat, NEW d \in Nat \ {0}
    PROVE  LET q == a \div d IN q \in Nat /\ q * d <= a /\ a < q * d + d
<1>1. a \div d \in Int OBVIOUS
<1>2. a \div d \in Nat OBVIOUS
<1>3. d * (a \div d) <= a OBVIOUS
<1>4. a < d * (a \div d) + d OBVIOUS
<1>5. PICK q : q = a \div d OBVIOUS
<1>6. d * q = q * d BY <1>2, <1>5
<1> QED BY <1>2, <1>3, <1>4, <1>5, <1>6

LEMMA Monotone ==
    ASSUME NEW x \in Int, NEW y \in Int, x <= y, NEW d \in Nat
    PROVE  x * d <= y * d
OBVIOUS

LEMMA CountOfPages ==
    ASSUME NEW n \in Nat
    PROVE  LET q == (n + PageSize - 1) \div PageSize
               c == PageCount(n)
           IN  q \in Nat /\ c \in Nat /\ c >= 1 /\ c >= q
<1>1. PageSize \in Nat \ {0} BY ContactsAssumption
<1>2. PICK q : q = (n + PageSize - 1) \div PageSize OBVIOUS
<1>3. n + PageSize - 1 \in Nat BY <1>1
<1>4. q \in Nat BY <1>1, <1>2, <1>3, Quotient
<1>5. PICK S : S = {1, q} OBVIOUS
<1>6. PICK m \in Nat : 1 <= m /\ q <= m
  <2>1. 1 \in Nat /\ q + 1 \in Nat /\ 1 <= q + 1 /\ q <= q + 1 BY <1>4
  <2> QED BY <2>1
<1>7. S \in SUBSET (0 .. m) /\ S # {} BY <1>4, <1>5, <1>6
<1>8. Max(S) \in S /\ \A x \in S : x <= Max(S) BY <1>6, <1>7, GreatestOfSome
<1>9. PageCount(n) = Max(S) BY <1>2, <1>5 DEF PageCount
<1>10. Max(S) \in Nat /\ Max(S) >= 1 /\ Max(S) >= q BY <1>4, <1>5, <1>8
<1> QED BY <1>2, <1>4, <1>9, <1>10

LEMMA SmallerOfTwo ==
    ASSUME NEW x \in Nat, NEW y \in Nat
    PROVE  Min({x, y}) \in Nat /\ Min({x, y}) = IF x <= y THEN x ELSE y
<1>1. PICK S : S = {x, y} OBVIOUS
<1>2. PICK m : m = IF x <= y THEN x ELSE y OBVIOUS
<1>3. m \in S /\ \A z \in S : m <= z BY <1>1, <1>2
<1>4. PICK l : l = Min(S) OBVIOUS
<1>5. l \in S /\ \A z \in S : l <= z BY <1>3, <1>4 DEF Min
<1>6. l = m BY <1>1, <1>2, <1>3, <1>5
<1> QED BY <1>1, <1>2, <1>4, <1>6

(* A page has a stretch of the list, and every element is on a page.        *)
LEMMA PageOfList ==
    ASSUME NEW list \in Seq(ChangeRows), NEW p \in 1 .. PageCount(Len(list))
    PROVE  LET c == SubSeq(list, (p - 1) * PageSize + 1, Min({p * PageSize, Len(list)})) IN
           /\ c \in Seq(ChangeRows)
           /\ Elements(c) = {list[k] : k \in {i \in 1 .. Len(list) :
                                 (p - 1) * PageSize < i /\ i <= p * PageSize}}
<1>1. PageSize \in Nat \ {0} BY ContactsAssumption
<1>2. PICK n : n = Len(list) OBVIOUS
<1>3. n \in Nat /\ \A k \in 1 .. n : list[k] \in ChangeRows BY <1>2
<1>4. p \in Nat /\ p >= 1 BY <1>2, <1>3, CountOfPages
<1>5. PICK a : a = (p - 1) * PageSize OBVIOUS
<1>6. a \in Nat
  <2>1. PICK r : r = p - 1 OBVIOUS
  <2>2. r \in Nat BY <1>4, <2>1
  <2> QED BY <1>1, <1>5, <2>1, <2>2
<1>7. PICK e : e = p * PageSize OBVIOUS
<1>8. e \in Nat BY <1>1, <1>4, <1>7
<1>9. PICK b : b = Min({e, n}) OBVIOUS
<1>10. b \in Nat /\ b = IF e <= n THEN e ELSE n BY <1>3, <1>8, <1>9, SmallerOfTwo
<1>11. PICK c : c = SubSeq(list, a + 1, b) OBVIOUS
<1>12. \A i \in a + 1 .. b : list[i] \in ChangeRows BY <1>3, <1>6, <1>10
<1>13. PICK l : l = IF a + 1 <= b THEN b - (a + 1) + 1 ELSE 0 OBVIOUS
<1>14. /\ c \in Seq(ChangeRows) /\ Len(c) = l
       /\ \A i \in 1 .. b - (a + 1) + 1 : c[i] = list[a + 1 + i - 1]
  <2>1. a + 1 \in Int /\ b \in Int BY <1>6, <1>10
  <2> QED BY <1>11, <1>12, <1>13, <2>1, SubSeqProperties
<1>15. \A i \in 1 .. l : c[i] = list[i + a] /\ i + a \in 1 .. n /\ a < i + a /\ i + a <= e
  <2> TAKE i \in 1 .. l
  <2>0. b \in Nat BY <1>10
  <2>1. a + 1 <= b /\ l = b - (a + 1) + 1 /\ i \in Int
    <3>1. CASE a + 1 <= b
      <4>1. l = b - (a + 1) + 1 BY <1>13, <3>1
      <4>2. l \in Int BY <1>6, <2>0, <4>1
      <4> QED BY <3>1, <4>1, <4>2
    <3>2. CASE ~ (a + 1 <= b)
      <4>1. l = 0 BY <1>13, <3>2
      <4> QED BY <4>1
    <3> QED BY <3>1, <3>2
  <2>2. a + 1 + i - 1 = i + a BY <1>6, <2>1
  <2>3. i \in 1 .. b - (a + 1) + 1 BY <2>1
  <2>4. c[i] = list[i + a] BY <1>14, <2>2, <2>3
  <2>5. b <= n /\ b <= e BY <1>3, <1>8, <1>10
  <2>6. 1 <= i /\ i <= b - (a + 1) + 1 BY <2>0, <1>6, <2>3
  <2>7. i + a \in 1 .. n /\ a < i + a /\ i + a <= e BY <1>3, <1>6, <1>8, <2>0, <2>1, <2>5, <2>6
  <2> QED BY <2>4, <2>7
<1>16. Elements(c) = {list[k] : k \in {i \in 1 .. n : a < i /\ i <= e}}
  <2>1. Elements(c) = {c[i] : i \in 1 .. l} BY <1>14 DEF Elements
  <2>2. ASSUME NEW k \in 1 .. n, a < k, k <= e
        PROVE  k - a \in 1 .. l /\ c[k - a] = list[k]
    <3>1. k - a \in 1 .. l /\ k - a + a = k BY <1>3, <1>6, <1>8, <1>10, <1>13, <2>2
    <3> QED BY <1>15, <3>1
  <2>3. \A i \in 1 .. l : \E k \in {j \in 1 .. n : a < j /\ j <= e} : c[i] = list[k] BY <1>15
  <2> QED BY <2>1, <2>2, <2>3
<1> QED BY <1>2, <1>5, <1>7, <1>9, <1>11, <1>14, <1>16

LEMMA CutIntoPages ==
    ASSUME NEW list \in Seq(ChangeRows), NEW pages, pages = Pages(list)
    PROVE  /\ pages \in Seq(PageRows) /\ Len(pages) \in Nat /\ Len(pages) >= 1
           /\ \A p \in 1 .. Len(pages) : pages[p].number = p /\ pages[p].total = Len(pages)
           /\ UNION {Elements(pages[p].content) : p \in 1 .. Len(pages)} = Elements(list)
<1>1. PICK n, c : n = Len(list) /\ c = PageCount(n) OBVIOUS
<1>2. n \in Nat /\ c \in Nat /\ c >= 1 BY <1>1, CountOfPages
<1>3. PageSize \in Nat \ {0} BY ContactsAssumption
<1> DEFINE Part(p) == SubSeq(list, (p - 1) * PageSize + 1, Min({p * PageSize, n}))
           Here(p) == {i \in 1 .. n : (p - 1) * PageSize < i /\ i <= p * PageSize}
<1>4. pages = [p \in 1 .. c |-> [content |-> Part(p), number |-> p, total |-> c]]
  BY <1>1 DEF Pages
<1>5. \A p \in 1 .. c : Part(p) \in Seq(ChangeRows) /\ Elements(Part(p)) = {list[k] : k \in Here(p)}
  BY <1>1, PageOfList
<1> HIDE DEF Part
<1>6. pages \in Seq(PageRows) /\ Len(pages) = c
  <2>1. \A p \in 1 .. c : [content |-> Part(p), number |-> p, total |-> c] \in PageRows
    BY <1>2, <1>5 DEF PageRows
  <2> QED BY <1>2, <1>4, <2>1
<1>7. \A p \in 1 .. c : pages[p].content = Part(p) /\ pages[p].number = p /\ pages[p].total = c
  BY <1>4
<1>8. \A p \in 1 .. c : Elements(pages[p].content) = {list[k] : k \in Here(p)} BY <1>5, <1>7
<1>9. Elements(list) = {list[k] : k \in 1 .. n} BY <1>1 DEF Elements
<1>10. ASSUME NEW k \in 1 .. n
       PROVE  \E p \in 1 .. c : k \in Here(p)
  <2>1. PICK q : q = (k - 1) \div PageSize OBVIOUS
  <2>2. k - 1 \in Nat BY <1>2
  <2>3. q \in Nat /\ q * PageSize <= k - 1 /\ k - 1 < q * PageSize + PageSize
    BY <1>3, <2>1, <2>2, Quotient
  <2>4. PICK m : m = (n + PageSize - 1) \div PageSize OBVIOUS
  <2>5. n + PageSize - 1 \in Nat BY <1>2, <1>3
  <2>6. m \in Nat /\ n + PageSize - 1 < m * PageSize + PageSize
    BY <1>3, <2>4, <2>5, Quotient
  <2>7. m <= c BY <1>1, <1>2, <2>4, CountOfPages
  <2>8. (q + 1) * PageSize = q * PageSize + PageSize BY <1>3, <2>3
  <2>9. q < m
    <3> SUFFICES ASSUME m <= q PROVE FALSE BY <2>3, <2>6
    <3>1. m * PageSize <= q * PageSize BY <1>3, <2>3, <2>6, Monotone
    <3>2. PICK x, y : x = m * PageSize /\ y = q * PageSize OBVIOUS
    <3>3. x \in Int /\ y \in Int BY <1>3, <2>3, <2>6, <3>2
    <3>4. x <= y /\ y <= k - 1 /\ n + PageSize - 1 < x + PageSize BY <2>3, <2>6, <3>1, <3>2
    <3> QED BY <1>2, <1>3, <3>3, <3>4
  <2>10. q + 1 \in 1 .. c BY <1>2, <2>3, <2>6, <2>7, <2>9
  <2>11. k \in Here(q + 1)
    <3>1. (q + 1) - 1 = q BY <2>3
    <3>2. PICK y : y = q * PageSize OBVIOUS
    <3>3. y \in Int BY <1>3, <2>3, <3>2
    <3>4. y < k /\ k <= y + PageSize BY <1>2, <1>3, <2>3, <3>2, <3>3
    <3> QED BY <2>8, <3>1, <3>2, <3>4
  <2> QED BY <2>10, <2>11
<1>11. UNION {Elements(pages[p].content) : p \in 1 .. c} = Elements(list)
  <2>1. ASSUME NEW e, e \in Elements(list)
        PROVE  \E p \in 1 .. c : e \in Elements(pages[p].content)
    BY <1>8, <1>9, <1>10, <2>1
  <2>2. ASSUME NEW p \in 1 .. c, NEW e \in Elements(pages[p].content)
        PROVE  e \in Elements(list)
    <3>1. e \in {list[k] : k \in Here(p)} BY <1>8
    <3>2. Here(p) \subseteq 1 .. n OBVIOUS
    <3> HIDE DEF Here
    <3> QED BY <1>9, <3>1, <3>2
  <2> QED BY <2>1, <2>2
<1> QED BY <1>2, <1>6, <1>7, <1>11

(* A table an import may leave: rows stay as they are or are rewritten now. *)
Rewritten(after) ==
    /\ after \in [Ids -> People \cup {Nothing}]
    /\ \A i \in Ids : after[i] = people[i] \/ (after[i] \in People /\ after[i].at = time)

LEMMA SavedIsRewritten ==
    ASSUME CTypeOK, NEW after, Rewritten(after), NEW i \in Ids, NEW card \in Cards
    PROVE  Rewritten([after EXCEPT ![i] = SavedRow(card)])
<1>1. PICK r : r = SavedRow(card) OBVIOUS
<1>2. r \in People /\ r.at = time BY <1>1 DEF SavedRow, People, CTypeOK
<1>3. PICK t : t = [after EXCEPT ![i] = r] OBVIOUS
<1>4. t \in [Ids -> People \cup {Nothing}] BY <1>2, <1>3 DEF Rewritten
<1>5. \A j \in Ids : t[j] = people[j] \/ (t[j] \in People /\ t[j].at = time)
  BY <1>2, <1>3 DEF Rewritten
<1> QED BY <1>1, <1>3, <1>4, <1>5 DEF Rewritten

LEMMA TargetsAreIds ==
    ASSUME NEW after, NEW item \in Items
    PROVE  Targets(after, item) \subseteq Ids /\ item.card \in Cards
BY DEF Targets, Items, By, Live, Unused

LEMMA ImportIsRewritten ==
    ASSUME CTypeOK, NEW batch \in Batches, NEW after \in Imported(batch)
    PROVE  Rewritten(after)
<1>1. PICK n : n = Len(batch) OBVIOUS
<1>2. batch \in Seq(Items) BY ContactsAssumption
<1>3. n \in Nat /\ \A k \in 1 .. n : batch[k] \in Items BY <1>1, <1>2
<1> DEFINE AfterItem(S, k) == UNION {MergedWith(t, batch[k]) : t \in S}
           From(g, m) == g = [k \in 0 .. m |-> IF k = 0 THEN {people} ELSE AfterItem(g[k - 1], k)]
           Tables     == CHOOSE g : From(g, n)
<1>4. Imported(batch) = Tables[n] BY <1>1 DEF Imported
<1> HIDE DEF AfterItem
<1>5. \E g : From(g, n)
  <2>1. PICK G : G = {m \in Nat : \E g : From(g, m)} OBVIOUS
  <2>2. 0 \in G
    <3>1. PICK g : g = [k \in 0 .. 0 |-> {people}] OBVIOUS
    <3>2. From(g, 0) BY <3>1
    <3> QED BY <2>1, <3>2
  <2>3. ASSUME NEW m \in Nat, m \in G
        PROVE  m + 1 \in G
    <3>1. PICK g : From(g, m) BY <2>1, <2>3
    <3>2. PICK h : h = [k \in 0 .. m + 1 |-> IF k <= m THEN g[k] ELSE AfterItem(g[m], m + 1)] OBVIOUS
    <3>3. \A k \in 0 .. m + 1 : h[k] = IF k = 0 THEN {people} ELSE AfterItem(h[k - 1], k)
      <4> TAKE k \in 0 .. m + 1
      <4>1. CASE k = 0 BY <3>1, <3>2, <4>1
      <4>2. CASE k \in 1 .. m
        <5>1. k - 1 \in 0 .. m /\ k \in 0 .. m /\ k <= m /\ k - 1 <= m /\ k # 0 BY <4>2
        <5>2. h[k] = g[k] /\ h[k - 1] = g[k - 1] BY <3>2, <5>1
        <5>3. g[k] = AfterItem(g[k - 1], k) BY <3>1, <5>1
        <5> QED BY <5>1, <5>2, <5>3
      <4>3. CASE k = m + 1
        <5>1. h[k] = AfterItem(g[m], m + 1) BY <3>2, <4>3
        <5>2. h[m] = g[m] /\ k - 1 = m /\ k # 0 BY <3>2, <4>3
        <5> QED BY <4>3, <5>1, <5>2
      <4> QED BY <4>1, <4>2, <4>3
    <3>4. From(h, m + 1) BY <3>2, <3>3
    <3> QED BY <2>1, <3>4
  <2>4. Nat \subseteq G BY <2>2, <2>3, SetInduction
  <2> QED BY <1>3, <2>1, <2>4
<1>6. From(Tables, n) BY <1>5
<1>7. PICK f : f = Tables OBVIOUS
<1>8. f[0] = {people} /\ \A k \in 1 .. n : f[k] = AfterItem(f[k - 1], k)
  <2>1. From(f, n) BY <1>6, <1>7
  <2>2. f[0] = {people} BY <1>3, <2>1
  <2>3. ASSUME NEW k \in 1 .. n PROVE f[k] = AfterItem(f[k - 1], k)
    <3>1. k \in 0 .. n /\ k # 0 BY <1>3
    <3> QED BY <2>1, <3>1
  <2> QED BY <2>2, <2>3
<1>9. PICK T : T = {m \in Nat : m <= n => \A t \in f[m] : Rewritten(t)} OBVIOUS
<1>10. 0 \in T
  <2>1. Rewritten(people) BY DEF Rewritten, CTypeOK
  <2> QED BY <1>8, <1>9, <2>1
<1>11. ASSUME NEW m \in Nat, m \in T
       PROVE  m + 1 \in T
  <2>1. SUFFICES ASSUME m + 1 <= n, NEW t \in f[m + 1] PROVE Rewritten(t) BY <1>9
  <2>2. m + 1 \in 1 .. n /\ m + 1 - 1 = m /\ m <= n BY <1>3, <2>1
  <2>3. t \in AfterItem(f[m], m + 1) BY <1>8, <2>1, <2>2
  <2>a. PICK u \in f[m] : t \in MergedWith(u, batch[m + 1]) BY <2>3 DEF AfterItem
  <2>4. PICK i \in Targets(u, batch[m + 1]) : t = [u EXCEPT ![i] = SavedRow(batch[m + 1].card)]
    BY <2>a DEF MergedWith
  <2>5. Rewritten(u) BY <1>9, <1>11, <2>2
  <2>6. batch[m + 1] \in Items BY <1>3, <2>2
  <2>7. i \in Ids /\ batch[m + 1].card \in Cards BY <2>4, <2>6, TargetsAreIds
  <2> QED BY <2>4, <2>5, <2>7, SavedIsRewritten
<1>12. Nat \subseteq T BY <1>10, <1>11, SetInduction
<1> HIDE DEF Tables
<1> QED BY <1>3, <1>4, <1>7, <1>9, <1>12

-----------------------------------------------------------------------------
LEMMA ChangeOf ==
    ASSUME CTypeOK, NEW i \in Ids, people[i] # Nothing
    PROVE  Change(i) \in ChangeRows /\ Change(i).id = i /\ Change(i).at = people[i].at
<1>1. people[i] \in People BY DEF CTypeOK
<1> QED BY <1>1 DEF Change, ChangeRows, People

LEMMA ChangesOf ==
    ASSUME CTypeOK, NEW ids \in SUBSET Ids, \A i \in ids : people[i] # Nothing
    PROVE  /\ Changes(ids) \in Seq(ChangeRows)
           /\ Elements(Changes(ids)) = {Change(i) : i \in ids}
<1>1. PICK S : S = {Change(i) : i \in ids} OBVIOUS
<1>2. S \subseteq ChangeRows BY <1>1, ChangeOf
<1>3. IsFiniteSet(S)
  <2>1. PICK f : f = [i \in ids |-> Change(i)] OBVIOUS
  <2>2. f \in Surjection(ids, S) BY <1>1, <2>1 DEF Surjection
  <2>3. IsFiniteSet(ids) BY ContactsAssumption, FS_Subset
  <2> QED BY <2>2, <2>3, FS_Surjection
<1>4. PICK l : l = SetToSeq(S) OBVIOUS
<1>5. l \in Seq(S) /\ Elements(l) = S BY <1>3, <1>4, ListOfSet
<1>6. l \in Seq(ChangeRows) BY <1>2, <1>5
<1> QED BY <1>1, <1>4, <1>5, <1>6 DEF Changes

LEMMA TimesOf ==
    ASSUME NEW list \in Seq(ChangeRows)
    PROVE  /\ Times(list) = {e.at : e \in Elements(list)}
           /\ Elements(list) \subseteq ChangeRows /\ Times(list) \in SUBSET (1..MaxContactsTime)
<1>1. Elements(list) \subseteq ChangeRows BY DEF Elements
<1>2. Times(list) = {e.at : e \in Elements(list)} BY DEF Times, Elements
<1> QED BY <1>1, <1>2 DEF ChangeRows

LEMMA AppliedList ==
    ASSUME CTypeOK, NEW list \in Seq(ChangeRows)
    PROVE  /\ Applied(list) \in [Ids -> Cards \cup {Nothing}]
           /\ \A i \in Ids : \/ \E e \in Elements(list) : e.id = i /\ Applied(list)[i] = e.card
                             \/ /\ \A e \in Elements(list) : e.id # i
                                /\ Applied(list)[i] = cards[i]
<1> DEFINE Own(i) == {k \in DOMAIN list : list[k].id = i}
           To(i)  == IF Own(i) = {} THEN cards[i] ELSE list[Max(Own(i))].card
<1>1. Applied(list) = [i \in Ids |-> To(i)] BY DEF Applied
<1>2. PICK n : n = Len(list) OBVIOUS
<1>3. n \in Nat /\ DOMAIN list = 1 .. n /\ \A k \in 1 .. n : list[k] \in ChangeRows BY <1>2
<1>4. Elements(list) = {list[k] : k \in 1 .. n} BY <1>3 DEF Elements
<1>5. ASSUME NEW i \in Ids
      PROVE  /\ To(i) \in Cards \cup {Nothing}
             /\ \/ \E e \in Elements(list) : e.id = i /\ To(i) = e.card
                \/ /\ \A e \in Elements(list) : e.id # i
                   /\ To(i) = cards[i]
  <2>1. PICK S : S = Own(i) OBVIOUS
  <2>2. CASE S = {}
    <3>1. \A e \in Elements(list) : e.id # i BY <1>3, <1>4, <2>1, <2>2
    <3>2. To(i) = cards[i] BY <2>1, <2>2
    <3> QED BY <3>1, <3>2 DEF CTypeOK
  <2>3. CASE S # {}
    <3>1. S \in SUBSET (0 .. n) BY <1>3, <2>1
    <3>2. PICK k : k = Max(S) OBVIOUS
    <3>3. k \in S BY <1>3, <2>3, <3>1, <3>2, GreatestOfSome
    <3>4. k \in 1 .. n /\ list[k].id = i BY <1>3, <2>1, <3>3
    <3>5. To(i) = list[k].card BY <2>1, <2>3, <3>2
    <3>6. list[k] \in Elements(list) /\ list[k].card \in Cards \cup {Nothing}
      BY <1>3, <1>4, <3>4 DEF ChangeRows
    <3> QED BY <3>4, <3>5, <3>6
  <2> QED BY <2>2, <2>3
<1> HIDE DEF To
<1> QED BY <1>1, <1>5

LEMMA ContactsInitInv == ContactsInit => ContactsInv
<1> SUFFICES ASSUME ContactsInit PROVE ContactsInv OBVIOUS
<1> USE DEF ContactsInit
<1>1. MaxContactsTime \in Nat \ {0} BY ContactsAssumption
<1>2. CTypeOK
  <2>1. people \in [Ids -> People \cup {Nothing}] /\ time \in 1..MaxContactsTime BY <1>1
  <2>2. cards \in [Ids -> Cards \cup {Nothing}] /\ cursor \in 0..MaxContactsTime BY <1>1
  <2>3. sync.phase = "idle" BY DEF NoSync
  <2>4. pending \in BOOLEAN BY Zenon
  <2> QED BY <2>1, <2>2, <2>3, <2>4 DEF CTypeOK
<1>3. SyncOK BY DEF SyncOK, NoSync, SyncPhases, OnItsWay
<1>4. TimesOK BY <1>1 DEF TimesOK
<1>5. CopyOK BY DEF CopyOK, Due
<1>6. ListedOK /\ SendingOK BY DEF ListedOK, SendingOK, OnItsWay, NoSync
<1> QED BY <1>2, <1>3, <1>4, <1>5, <1>6 DEF ContactsInv

(* The steps that touch neither the table nor the copy.                     *)
CopyUntouched ==
    /\ UNCHANGED <<people, cards, cursor, handed, missed>>
    /\ time' \in 1..MaxContactsTime /\ pending' \in BOOLEAN
    /\ resetter' \in {"idle", "clear", "forget"}
    /\ Steady' => Steady

LEMMA CopyStays == ASSUME ContactsInv, CopyUntouched PROVE TimesOK' /\ CopyOK'
<1>1. TimesOK' BY DEF ContactsInv, CopyUntouched, TimesOK
<1>2. CopyOK' BY DEF ContactsInv, CopyUntouched, CopyOK, Due, Change
<1> QED BY <1>1, <1>2

LEMMA SyncStands ==
    ASSUME ContactsInv, CopyUntouched, sync' = sync, ~ crossed' => ~ crossed
    PROVE  ContactsInv'
<1>1. CTypeOK' BY DEF ContactsInv, CopyUntouched, CTypeOK
<1>2. SyncOK' BY DEF ContactsInv, CopyUntouched, SyncOK, OnItsWay, Carried, On
<1>3. ListedOK' BY DEF ContactsInv, CopyUntouched, ListedOK, Change, Live
<1>4. SendingOK'
  <2>1. Carried' = Carried /\ Arrived' = Arrived /\ (OnItsWay' <=> OnItsWay)
    BY DEF Carried, Arrived, On, OnItsWay
  <2>2. SUFFICES ASSUME OnItsWay, NEW i \in Ids, Due(i, handed)'
                 PROVE  /\ \A e \in Carried' : e.id = i => e = Change(i)'
                        /\ ~ crossed' /\ people'[i].at > cursor' => Change(i)' \in Carried'
                        /\ Steady' => \A e \in Arrived' : e.id = i => cards'[i] = e.card
    BY <2>1 DEF SendingOK
  <2>3. Due(i, handed) /\ Change(i)' = Change(i) BY <2>2 DEF CopyUntouched, Due, Change
  <2>4. /\ \A e \in Carried : e.id = i => e = Change(i)
        /\ ~ crossed /\ people[i].at > cursor => Change(i) \in Carried
        /\ Steady => \A e \in Arrived : e.id = i => cards[i] = e.card
    BY <2>2, <2>3 DEF ContactsInv, SendingOK
  <2> QED BY <2>1, <2>3, <2>4 DEF CopyUntouched
<1> QED BY <1>1, <1>2, <1>3, <1>4, CopyStays DEF ContactsInv

Resting == /\ sync' \in [phase : SyncPhases, pages : Seq(ChangeRows) \cup Seq(PageRows), page : Nat]
           /\ sync'.phase \in {"idle", "hook", "ask"}

LEMMA SyncRests ==
    ASSUME ContactsInv, CopyUntouched, Resting
    PROVE  ContactsInv'
<1>1. CTypeOK' BY DEF ContactsInv, CopyUntouched, CTypeOK, Resting
<1>2. SyncOK' BY DEF SyncOK, OnItsWay, Resting
<1>3. ListedOK' /\ SendingOK' BY DEF ListedOK, SendingOK, OnItsWay, Resting
<1> QED BY <1>1, <1>2, <1>3, CopyStays DEF ContactsInv

LEMMA NoSyncRests == ASSUME sync' = NoSync PROVE Resting
BY DEF Resting, NoSync, SyncPhases

LEMMA SyncStarts == ASSUME ContactsInv, StartSync \/ HookDone PROVE ContactsInv'
<1>1. Resting
  <2>1. CASE StartSync
    <3>1. PICK n : n = NoSync OBVIOUS
    <3>2. n \in [phase : SyncPhases, pages : Seq(ChangeRows) \cup Seq(PageRows), page : Nat]
      BY <3>1 DEF NoSync, SyncPhases
    <3>3. sync' = [n EXCEPT !.phase = "hook"] BY <2>1, <3>1 DEF StartSync
    <3> QED BY <3>2, <3>3 DEF Resting, SyncPhases
  <2>2. CASE HookDone
    <3>1. sync \in [phase : SyncPhases, pages : Seq(ChangeRows) \cup Seq(PageRows), page : Nat]
      BY DEF ContactsInv, SyncOK
    <3>2. sync' = [sync EXCEPT !.phase = "ask"] BY <2>2 DEF HookDone
    <3> QED BY <3>1, <3>2 DEF Resting, SyncPhases
  <2> QED BY <2>1, <2>2
<1>2. CopyUntouched
  BY DEF StartSync, HookDone, CopyUntouched, ContactsInv, CTypeOK, server, copy, thread, contactPast, Steady
<1> QED BY <1>1, <1>2, SyncRests

LEMMA SyncEnds == ASSUME ContactsInv, SyncBreaks \/ DeviceDies PROVE ContactsInv'
<1>1. sync' = NoSync BY DEF SyncBreaks, DeviceDies
<1>2. CopyUntouched
  <2>1. UNCHANGED <<people, cards, cursor, handed, missed, time, pending>>
    BY DEF SyncBreaks, DeviceDies, server, copy, contactPast
  <2>2. resetter' \in {"idle", "clear", "forget"} /\ (Steady' => Steady)
    <3>1. CASE SyncBreaks BY <3>1 DEF SyncBreaks, ContactsInv, CTypeOK, thread, contactPast, Steady
    <3>2. CASE DeviceDies
      <4>1. resetter' = "idle" /\ (crossed' <=> crossed \/ resetter = "forget")
        BY <3>2, Zenon DEF DeviceDies
      <4> QED BY <4>1 DEF Steady
    <3> QED BY <3>1, <3>2
  <2> QED BY <2>1, <2>2 DEF CopyUntouched, ContactsInv, CTypeOK
<1> QED BY <1>1, <1>2, NoSyncRests, SyncRests

LEMMA ResetAndClockKeep ==
    ASSUME ContactsInv, \/ ClientReset \/ Claim \/ ClaimLost \/ ClearFails \/ CommitFails
                        \/ ContactsTick \/ SetBack
    PROVE  ContactsInv'
<1>1. /\ UNCHANGED <<people, cards, cursor, handed, missed, sync>>
      /\ crossed' = crossed \/ crossed' = TRUE
      /\ resetter' = resetter \/ resetter' \in {"clear", "idle"}
  BY DEF ClientReset, Claim, ClaimLost, ClearFails, CommitFails, ContactsTick, SetBack,
         server, copy, thread, contactPast
<1>2. pending' \in BOOLEAN
  <2>1. pending' = pending \/ pending' = TRUE \/ pending' = FALSE
    BY Zenon DEF ClientReset, Claim, ClaimLost, ClearFails, CommitFails, ContactsTick, SetBack, server
  <2> QED BY <2>1, Zenon DEF ContactsInv, CTypeOK
<1>3. time' \in 1..MaxContactsTime
  <2>1. time \in 1..MaxContactsTime /\ MaxContactsTime \in Nat
    BY ContactsAssumption DEF ContactsInv, CTypeOK
  <2>2. CASE time' = time BY <2>1, <2>2
  <2>3. CASE ContactsTick BY <2>1, <2>3 DEF ContactsTick
  <2>4. CASE SetBack BY <2>1, <2>4 DEF SetBack
  <2>5. time' = time \/ ContactsTick \/ SetBack
    BY DEF ClientReset, Claim, ClaimLost, ClearFails, CommitFails, server
  <2> QED BY <2>2, <2>3, <2>4, <2>5
<1>4. resetter' \in {"idle", "clear", "forget"} BY <1>1 DEF ContactsInv, CTypeOK
<1>5. Steady' => Steady
  <2>1. CASE resetter' = resetter BY <1>1, <2>1 DEF Steady
  <2>2. CASE Claim \/ ClaimLost BY <1>1, <2>2 DEF Claim, ClaimLost, Steady
  <2>3. CASE ClearFails \/ CommitFails
    <3>1. crossed' \/ resetter # "forget" BY <2>3 DEF ClearFails, CommitFails
    <3> QED BY <1>1, <3>1 DEF Steady
  <2>4. \/ resetter' = resetter \/ Claim \/ ClaimLost \/ ClearFails \/ CommitFails
    BY DEF ClientReset, ContactsTick, SetBack, thread
  <2> QED BY <2>1, <2>2, <2>3, <2>4
<1> QED BY <1>1, <1>2, <1>3, <1>4, <1>5, SyncStands DEF CopyUntouched

LEMMA ServerRestarts == ASSUME ContactsInv, Restart PROVE ContactsInv'
<1>1. CopyUntouched
  <2>1. pending' \in BOOLEAN BY Zenon DEF Restart
  <2>2. UNCHANGED <<people, cards, cursor, handed, missed, time, resetter, crossed>>
    BY DEF Restart, copy, thread
  <2> QED BY <2>1, <2>2 DEF CopyUntouched, ContactsInv, CTypeOK, Steady
<1>2. crossed' = crossed BY DEF Restart
<1>3. sync' = sync \/ sync' = NoSync BY DEF Restart
<1> QED BY <1>1, <1>2, <1>3, SyncStands, SyncRests, NoSyncRests

LEMMA ResetKeeps == ASSUME ContactsInv, ClearContacts \/ ForgetCursor PROVE ContactsInv'
<1>1. UNCHANGED <<people, time, pending, sync, handed, missed>>
  BY DEF ClearContacts, ForgetCursor, server
<1>2. Carried' = Carried /\ Arrived' = Arrived /\ (OnItsWay' <=> OnItsWay)
  BY <1>1 DEF Carried, Arrived, On, OnItsWay
<1>3. \A i \in Ids : Change(i)' = Change(i) BY <1>1 DEF Change
<1>4. CASE ClearContacts
  <2>1. UNCHANGED <<cursor, crossed>> /\ resetter' = "forget" /\ ~ Steady'
    BY <1>4 DEF ClearContacts, Steady
  <2>2. cards' \in [Ids -> Cards \cup {Nothing}] BY <1>4 DEF ClearContacts
  <2>3. CTypeOK' BY <1>1, <2>1, <2>2 DEF ContactsInv, CTypeOK
  <2>4. SyncOK' BY <1>1, <1>2, <2>1 DEF ContactsInv, SyncOK
  <2>5. TimesOK' BY <1>1, <2>1 DEF ContactsInv, TimesOK
  <2>6. CopyOK' BY <2>1 DEF CopyOK
  <2>7. ListedOK' BY <1>1, <1>3 DEF ContactsInv, ListedOK, Live
  <2>8. SendingOK'
    <3>1. SUFFICES ASSUME OnItsWay, NEW i \in Ids, Due(i, handed)'
                   PROVE  /\ \A e \in Carried : e.id = i => e = Change(i)
                          /\ ~ crossed /\ people[i].at > cursor => Change(i) \in Carried
      BY <1>1, <1>2, <1>3, <2>1 DEF SendingOK
    <3>2. Due(i, handed) BY <1>1, <3>1 DEF Due
    <3> QED BY <3>1, <3>2 DEF ContactsInv, SendingOK
  <2> QED BY <2>3, <2>4, <2>5, <2>6, <2>7, <2>8 DEF ContactsInv
<1>5. CASE ForgetCursor
  <2>1. cards' = cards /\ cursor' = 0 /\ resetter' = "idle" BY <1>5 DEF ForgetCursor
  <2>2. OnItsWay => crossed' BY <1>5, Zenon DEF ForgetCursor, OnItsWay
  <2>3. CTypeOK'
    <3>1. cursor' \in 0..MaxContactsTime BY <2>1, ContactsAssumption
    <3> QED BY <1>1, <2>1, <3>1 DEF ContactsInv, CTypeOK
  <2>4. SyncOK' BY <1>1, <1>2, <2>1 DEF ContactsInv, SyncOK
  <2>5. TimesOK' BY <1>1, <2>1 DEF ContactsInv, TimesOK
  <2>6. CopyOK'
    <3>1. \A i \in Ids : people[i] # Nothing => ~ (people[i].at <= 0)
      BY DEF ContactsInv, CTypeOK, People
    <3> QED BY <1>1, <2>1, <3>1 DEF CopyOK, Due
  <2>7. ListedOK' BY <1>1, <1>3 DEF ContactsInv, ListedOK, Live
  <2>8. SendingOK'
    <3>1. SUFFICES ASSUME OnItsWay, NEW i \in Ids, Due(i, handed)'
                   PROVE  \A e \in Carried : e.id = i => e = Change(i)
      BY <1>1, <1>2, <1>3, <2>1, <2>2 DEF SendingOK, Steady
    <3>2. Due(i, handed) BY <1>1, <3>1 DEF Due
    <3> QED BY <3>1, <3>2 DEF ContactsInv, SendingOK
  <2> QED BY <2>3, <2>4, <2>5, <2>6, <2>7, <2>8 DEF ContactsInv
<1> QED BY <1>4, <1>5

-----------------------------------------------------------------------------
(* A write that the device may not be told of makes the contact missed.     *)
LEMMA WriteKeeps ==
    ASSUME ContactsInv, NEW t, Rewritten(t), Write(t)
    PROVE  ContactsInv'
<1>1. people' = t /\ UNCHANGED <<pending, time, cards, cursor, sync, resetter, handed, crossed>>
  BY DEF Write, copy, thread
<1>2. PICK changed : changed = {i \in Ids : t[i] # people[i]} OBVIOUS
<1>3. missed' = IF time <= handed \/ Between THEN missed \cup changed ELSE missed \ changed
  BY <1>2 DEF Write
<1>4. Carried' = Carried /\ Arrived' = Arrived /\ (OnItsWay' <=> OnItsWay)
  BY <1>1 DEF Carried, Arrived, On, OnItsWay
<1>5. time \in Nat /\ handed \in Nat /\ cursor \in Nat /\ cursor <= handed
  BY ContactsAssumption DEF ContactsInv, CTypeOK, TimesOK
<1>6. ASSUME NEW i \in Ids \ missed', people'[i] # people[i]
      PROVE  people'[i].at = time /\ time > handed /\ sync.phase # "listed"
  <2>1. i \in changed BY <1>1, <1>2, <1>6
  <2>2. ~ (time <= handed \/ Between) BY <1>3, <1>6, <2>1
  <2> QED BY <1>1, <1>5, <1>6, <2>2 DEF Rewritten, Between
<1>7. ASSUME NEW i \in Ids \ missed', people'[i] = people[i]
      PROVE  i \notin missed /\ Change(i)' = Change(i) /\ (i \in Live(people)' <=> i \in Live(people))
  <2>1. i \notin changed BY <1>1, <1>2, <1>7
  <2>2. i \notin missed BY <1>3, <1>7, <2>1
  <2>3. Change(i)' = Change(i) BY <1>7 DEF Change
  <2>4. i \in Live(people)' <=> i \in Live(people) BY <1>7 DEF Live
  <2> QED BY <2>2, <2>3, <2>4
<1>8. ASSUME NEW i \in Ids, Due(i, handed)'
      PROVE  people'[i] = people[i] /\ Due(i, handed)
  <2>1. i \in Ids \ missed' /\ people'[i].at <= handed BY <1>1, <1>8 DEF Due
  <2>2. people'[i] = people[i] BY <1>5, <1>6, <2>1
  <2> QED BY <1>1, <1>7, <1>8, <2>1, <2>2 DEF Due
<1>9. ASSUME NEW i \in Ids, Due(i, cursor)'
      PROVE  people'[i] = people[i] /\ Due(i, cursor)
  <2>1. i \in Ids \ missed' /\ people'[i].at <= cursor BY <1>1, <1>9 DEF Due
  <2>2. people'[i] = people[i] BY <1>5, <1>6, <2>1
  <2> QED BY <1>1, <1>7, <1>9, <2>1, <2>2 DEF Due
<1>10. CTypeOK' BY <1>1 DEF ContactsInv, CTypeOK, Rewritten
<1>11. SyncOK' BY <1>1, <1>4 DEF ContactsInv, SyncOK
<1>12. TimesOK'
  <2>1. missed' \subseteq Ids BY <1>2, <1>3 DEF ContactsInv, TimesOK
  <2> QED BY <1>1, <2>1 DEF ContactsInv, TimesOK
<1>13. CopyOK'
  <2>1. SUFFICES ASSUME Steady, NEW i \in Ids, Due(i, cursor)' PROVE cards[i] = Change(i)'.card
    BY <1>1 DEF CopyOK, Steady
  <2>2. people'[i] = people[i] /\ Due(i, cursor) BY <1>9, <2>1
  <2>3. Change(i)' = Change(i) BY <2>2 DEF Change
  <2> QED BY <2>1, <2>2, <2>3 DEF ContactsInv, CopyOK
<1>14. ListedOK'
  <2>1. SUFFICES ASSUME sync.phase = "listed", NEW i \in Ids \ missed'
                 PROVE  /\ \A e \in Elements(sync.pages) : e.id = i => e = Change(i)'
                        /\ i \in Live(people)' => Change(i)' \in Elements(sync.pages)
    BY <1>1 DEF ListedOK
  <2>2. people'[i] = people[i] BY <1>6, <2>1
  <2> QED BY <1>7, <2>1, <2>2 DEF ContactsInv, ListedOK
<1>15. SendingOK'
  <2>1. SUFFICES ASSUME OnItsWay, NEW i \in Ids, Due(i, handed)'
                 PROVE  /\ \A e \in Carried : e.id = i => e = Change(i)'
                        /\ ~ crossed /\ people'[i].at > cursor => Change(i)' \in Carried
                        /\ Steady => \A e \in Arrived : e.id = i => cards[i] = e.card
    BY <1>1, <1>4 DEF SendingOK, Steady
  <2>2. people'[i] = people[i] /\ Due(i, handed) BY <1>8, <2>1
  <2>3. Change(i)' = Change(i) BY <2>2 DEF Change
  <2> QED BY <2>1, <2>2, <2>3 DEF ContactsInv, SendingOK
<1> QED BY <1>10, <1>11, <1>12, <1>13, <1>14, <1>15 DEF ContactsInv

LEMMA WritesKeep ==
    ASSUME ContactsInv,
           \/ \E i \in Ids : Delete(i) \/ \E card \in Cards : Upsert(i, card)
           \/ \E batch \in Batches : Import(batch)
    PROVE  ContactsInv'
<1>1. CTypeOK BY DEF ContactsInv
<1>2. Rewritten(people) BY <1>1 DEF Rewritten, CTypeOK
<1>3. ASSUME NEW i \in Ids, Delete(i) PROVE ContactsInv'
  <2>1. i \in Live(people) /\ Write([people EXCEPT ![i] = Deleted(@)]) BY <1>3 DEF Delete
  <2>2. people[i] \in People BY <1>1, <2>1 DEF Live, CTypeOK
  <2>3. PICK r : r = Deleted(people[i]) OBVIOUS
  <2>4. r \in People /\ r.at = time BY <1>1, <2>2, <2>3 DEF Deleted, People, CTypeOK
  <2>5. PICK t : t = [people EXCEPT ![i] = r] OBVIOUS
  <2>6. Rewritten(t) BY <1>1, <2>4, <2>5 DEF Rewritten, CTypeOK
  <2>7. Write(t) BY <2>1, <2>3, <2>5
  <2> QED BY <2>6, <2>7, WriteKeeps
<1>4. ASSUME NEW i \in Ids, NEW card \in Cards, Upsert(i, card) PROVE ContactsInv'
  <2>1. PICK t : t = [people EXCEPT ![i] = SavedRow(card)] OBVIOUS
  <2>2. Rewritten(t) BY <1>1, <1>2, <2>1, SavedIsRewritten
  <2>3. Write(t) BY <1>4, <2>1 DEF Upsert
  <2> QED BY <2>2, <2>3, WriteKeeps
<1>5. ASSUME NEW batch \in Batches, Import(batch) PROVE ContactsInv'
  <2>1. PICK t \in Imported(batch) : Write(t) BY <1>5 DEF Import
  <2>2. Rewritten(t) BY <1>1, ImportIsRewritten
  <2> QED BY <2>1, <2>2, WriteKeeps
<1> QED BY <1>3, <1>4, <1>5

(* A list is sent that has what changed after the cursor, as it is now.     *)
LEMMA SendKeeps ==
    ASSUME ContactsInv, NEW list \in Seq(ChangeRows), Send(list),
           UNCHANGED <<server, copy, thread, missed, crossed>>,
           \A i \in Ids \ missed : people[i] # Nothing =>
              /\ \A e \in Elements(list) : e.id = i => e = Change(i)
              /\ people[i].at > cursor => Change(i) \in Elements(list)
    PROVE  ContactsInv'
<1>1. UNCHANGED <<people, time, pending, cards, cursor, resetter, missed, crossed>>
  BY DEF server, copy, thread
<1>2. PICK pages : pages = Pages(list) OBVIOUS
<1>3. sync' = [phase |-> "pages", pages |-> pages, page |-> 1] BY <1>2 DEF Send
<1>4. /\ pages \in Seq(PageRows) /\ Len(pages) \in Nat /\ Len(pages) >= 1
      /\ \A p \in 1 .. Len(pages) : pages[p].number = p /\ pages[p].total = Len(pages)
      /\ UNION {Elements(pages[p].content) : p \in 1 .. Len(pages)} = Elements(list)
  BY <1>2, CutIntoPages
<1>5. Carried' = Elements(list) /\ Arrived' = {} /\ OnItsWay'
  <2>1. sync'.pages = pages /\ sync'.page = 1 /\ sync'.phase = "pages" BY <1>3
  <2>2. Carried' = UNION {Elements(pages[p].content) : p \in 1 .. Len(pages)}
    BY <2>1 DEF Carried, On
  <2>3. 1 .. 0 = {} OBVIOUS
  <2>4. Arrived' = {} BY <2>1, <2>3 DEF Arrived
  <2> QED BY <1>4, <2>1, <2>2, <2>4 DEF OnItsWay
<1>6. PICK g : g = Greatest(Times(list)) OBVIOUS
<1>7. g \in 0..MaxContactsTime /\ \A e \in Elements(list) : e.at <= g
  BY <1>6, TimesOf, GreatestTime
<1>8. Elements(list) \subseteq ChangeRows BY TimesOf
<1>9. handed \in 0..MaxContactsTime /\ cursor \in 0..MaxContactsTime /\ cursor <= handed
      /\ MaxContactsTime \in Nat
  BY ContactsAssumption DEF ContactsInv, CTypeOK, TimesOK
<1>10. handed' = IF handed <= g THEN g ELSE handed
  <2>1. handed' = Max({handed, g}) BY <1>6 DEF Send
  <2> QED BY <1>7, <1>9, <2>1, GreaterOfTwo
<1>11. /\ handed' \in 0..MaxContactsTime /\ cursor <= handed'
       /\ \A e \in Elements(list) : e.at <= handed'
  <2>1. \A e \in Elements(list) : e.at \in 1..MaxContactsTime BY <1>8 DEF ChangeRows
  <2> QED BY <1>7, <1>9, <1>10, <2>1
<1>12. CTypeOK' BY <1>1, <1>3 DEF ContactsInv, CTypeOK
<1>13. SyncOK'
  <2>1. sync'.pages = pages /\ sync'.page = 1 /\ sync'.phase = "pages" BY <1>3
  <2>2. sync' \in [phase : SyncPhases, pages : Seq(ChangeRows) \cup Seq(PageRows), page : Nat]
    BY <1>3, <1>4 DEF SyncPhases
  <2>3. 1 \in 1 .. Len(pages) BY <1>4
  <2> QED BY <1>4, <1>5, <1>11, <2>1, <2>2, <2>3 DEF SyncOK
<1>14. TimesOK' BY <1>1, <1>11 DEF ContactsInv, TimesOK
<1>15. CopyOK' BY <1>1 DEF ContactsInv, CopyOK, Due, Steady, Change
<1>16. ListedOK' BY <1>3 DEF ListedOK
<1>17. SendingOK'
  <2>1. SUFFICES ASSUME NEW i \in Ids, Due(i, handed)'
                 PROVE  /\ \A e \in Elements(list) : e.id = i => e = Change(i)
                        /\ people[i].at > cursor => Change(i) \in Elements(list)
    <3>1. \A i \in Ids : Change(i)' = Change(i) BY <1>1 DEF Change
    <3> QED BY <1>1, <1>5, <3>1 DEF SendingOK
  <2>2. i \notin missed /\ people[i] # Nothing BY <1>1, <2>1 DEF Due
  <2> QED BY <2>2
<1> QED BY <1>12, <1>13, <1>14, <1>15, <1>16, <1>17 DEF ContactsInv

LEMMA ChangesAreSent == ASSUME ContactsInv, AskChanges PROVE ContactsInv'
<1>1. CTypeOK BY DEF ContactsInv
<1>2. PICK ids : ids = Newer(cursor) OBVIOUS
<1>3. ids \subseteq Ids /\ \A i \in ids : people[i] # Nothing BY <1>2 DEF Newer
<1>4. PICK list : list = Changes(ids) OBVIOUS
<1>5. list \in Seq(ChangeRows) /\ Elements(list) = {Change(i) : i \in ids}
  BY <1>1, <1>3, <1>4, ChangesOf
<1>6. ASSUME NEW i \in Ids \ missed, people[i] # Nothing
      PROVE  /\ \A e \in Elements(list) : e.id = i => e = Change(i)
             /\ people[i].at > cursor => Change(i) \in Elements(list)
  <2>1. \A j \in ids : Change(j).id = j BY <1>1, <1>3, ChangeOf
  <2>2. people[i].at > cursor => i \in ids BY <1>2, <1>6 DEF Newer
  <2> QED BY <1>5, <2>1, <2>2
<1>7. Send(list) BY <1>2, <1>4 DEF AskChanges
<1>8. UNCHANGED <<server, copy, thread, missed, crossed>> BY DEF AskChanges
<1> QED BY <1>5, <1>6, <1>7, <1>8, SendKeeps

LEMMA ListingKeeps == ASSUME ContactsInv, AskAll PROVE ContactsInv'
<1>1. CTypeOK BY DEF ContactsInv
<1>2. UNCHANGED <<people, time, pending, cards, cursor, resetter, handed, missed, crossed>>
  BY DEF AskAll, server, copy, thread, contactPast
<1>3. PICK ids : ids = Live(people) OBVIOUS
<1>4. ids \subseteq Ids /\ \A i \in ids : people[i] # Nothing BY <1>3 DEF Live
<1>5. PICK list : list = Changes(ids) OBVIOUS
<1>6. list \in Seq(ChangeRows) /\ Elements(list) = {Change(i) : i \in ids}
  BY <1>1, <1>4, <1>5, ChangesOf
<1>7. sync' = [phase |-> "listed", pages |-> list, page |-> 0] /\ cursor = 0
  BY <1>3, <1>5 DEF AskAll
<1>8. sync'.phase = "listed" /\ sync'.pages = list BY <1>7
<1>9. SyncOK'
  <2>1. sync' \in [phase : SyncPhases, pages : Seq(ChangeRows) \cup Seq(PageRows), page : Nat]
    BY <1>6, <1>7 DEF SyncPhases
  <2> QED BY <1>2, <1>6, <1>7, <1>8, <2>1 DEF SyncOK, OnItsWay
<1>10. CTypeOK' BY <1>1, <1>2, <1>8 DEF CTypeOK
<1>11. TimesOK' /\ CopyOK'
  BY <1>2 DEF ContactsInv, TimesOK, CopyOK, Due, Steady, Change
<1>12. ListedOK'
  <2>1. SUFFICES ASSUME NEW i \in Ids \ missed
                 PROVE  /\ \A e \in Elements(list) : e.id = i => e = Change(i)
                        /\ i \in Live(people) => Change(i) \in Elements(list)
    <3>1. \A i \in Ids : Change(i)' = Change(i) BY <1>2 DEF Change
    <3>2. Live(people)' = Live(people) BY <1>2 DEF Live
    <3> QED BY <1>2, <1>8, <3>1, <3>2 DEF ListedOK
  <2>2. \A j \in ids : Change(j).id = j BY <1>1, <1>4, ChangeOf
  <2> QED BY <1>3, <1>6, <2>2
<1>13. SendingOK' BY <1>8 DEF SendingOK, OnItsWay
<1> QED BY <1>9, <1>10, <1>11, <1>12, <1>13 DEF ContactsInv

LEMMA Appended ==
    ASSUME NEW l \in Seq(ChangeRows), NEW m \in Seq(ChangeRows)
    PROVE  l \o m \in Seq(ChangeRows) /\ Elements(l \o m) = Elements(l) \cup Elements(m)
<1>1. PICK c : c = l \o m OBVIOUS
<1>2. PICK x, y : x = Len(l) /\ y = Len(m) OBVIOUS
<1>3. x \in Nat /\ y \in Nat BY <1>2
<1>4. /\ c \in Seq(ChangeRows) /\ Len(c) = x + y
      /\ \A k \in 1 .. x + y : c[k] = IF k <= x THEN l[k] ELSE m[k - x]
  BY <1>1, <1>2
<1>5. /\ Elements(c) = {c[k] : k \in 1 .. x + y} /\ Elements(l) = {l[k] : k \in 1 .. x}
      /\ Elements(m) = {m[k] : k \in 1 .. y}
  <2>1. DOMAIN c = 1 .. x + y /\ DOMAIN l = 1 .. x /\ DOMAIN m = 1 .. y BY <1>2, <1>4
  <2> QED BY <2>1 DEF Elements
<1>6. \A k \in 1 .. x : k \in 1 .. x + y /\ c[k] = l[k] BY <1>3, <1>4
<1>7. ASSUME NEW k \in 1 .. y PROVE k + x \in 1 .. x + y /\ c[k + x] = m[k]
  <2>1. PICK j : j = k + x OBVIOUS
  <2>2. j \in 1 .. x + y /\ ~ (j <= x) /\ j - x = k BY <1>3, <2>1
  <2>3. c[j] = m[j - x] BY <1>4, <2>2
  <2> QED BY <2>1, <2>2, <2>3
<1>8. ASSUME NEW k \in 1 .. x + y PROVE c[k] \in Elements(l) \cup Elements(m)
  <2>1. CASE k <= x
    <3>1. k \in 1 .. x BY <1>3, <2>1
    <3> QED BY <1>6, <1>5, <3>1
  <2>2. CASE ~ (k <= x)
    <3>1. k - x \in 1 .. y BY <1>3, <2>2
    <3> QED BY <1>4, <1>5, <2>2, <3>1
  <2> QED BY <2>1, <2>2
<1>9. \A e \in Elements(l) : e \in Elements(c) BY <1>5, <1>6
<1>10. \A e \in Elements(m) : e \in Elements(c) BY <1>5, <1>7
<1>11. \A e \in Elements(c) : e \in Elements(l) \cup Elements(m) BY <1>5, <1>8
<1> QED BY <1>1, <1>4, <1>9, <1>10, <1>11

LEMMA DeletedAreSent == ASSUME ContactsInv, ListDeleted PROVE ContactsInv'
<1>1. CTypeOK /\ sync.phase = "listed" BY DEF ContactsInv, ListDeleted
<1>2. PICK ids, old, new, list : /\ ids = Gone /\ old = sync.pages
                                 /\ new = Changes(ids) /\ list = old \o new
  OBVIOUS
<1>3. ids \subseteq Ids /\ \A i \in ids : people[i] # Nothing BY <1>2 DEF Gone
<1>4. new \in Seq(ChangeRows) /\ Elements(new) = {Change(i) : i \in ids}
  BY <1>1, <1>2, <1>3, ChangesOf
<1>5. old \in Seq(ChangeRows) BY <1>1, <1>2 DEF ContactsInv, SyncOK
<1>6. list \in Seq(ChangeRows) /\ Elements(list) = Elements(old) \cup Elements(new)
  BY <1>2, <1>4, <1>5, Appended
<1>7. ASSUME NEW i \in Ids \ missed, people[i] # Nothing
      PROVE  /\ \A e \in Elements(list) : e.id = i => e = Change(i)
             /\ people[i].at > cursor => Change(i) \in Elements(list)
  <2>1. \A j \in ids : Change(j).id = j BY <1>1, <1>3, ChangeOf
  <2>2. /\ \A e \in Elements(old) : e.id = i => e = Change(i)
        /\ i \in Live(people) => Change(i) \in Elements(old)
    BY <1>1, <1>2 DEF ContactsInv, ListedOK
  <2>3. i \in Live(people) \/ i \in ids BY <1>2, <1>7 DEF Gone
  <2> QED BY <1>4, <1>6, <2>1, <2>2, <2>3
<1>8. Send(list) BY <1>2 DEF ListDeleted
<1>9. UNCHANGED <<server, copy, thread, missed, crossed>> BY DEF ListDeleted
<1> QED BY <1>6, <1>7, <1>8, <1>9, SendKeeps

LEMMA ContentOf ==
    ASSUME ContactsInv, OnItsWay, NEW p \in 1 .. Len(sync.pages)
    PROVE  sync.pages[p].content \in Seq(ChangeRows) /\ On(p) \subseteq ChangeRows
           /\ On(p) \subseteq Carried /\ sync.pages[p].number = p
           /\ sync.pages[p].total = Len(sync.pages) /\ Len(sync.pages) \in Nat
<1>1. sync.pages \in Seq(PageRows) BY DEF ContactsInv, SyncOK
<1>2. sync.pages[p] \in PageRows /\ Len(sync.pages) \in Nat BY <1>1
<1>3. sync.pages[p].content \in Seq(ChangeRows) BY <1>2 DEF PageRows
<1>4. On(p) \subseteq ChangeRows BY <1>3, TimesOf DEF On
<1>5. On(p) \subseteq Carried BY DEF Carried
<1>6. sync.pages[p].number = p /\ sync.pages[p].total = Len(sync.pages)
  BY DEF ContactsInv, SyncOK
<1> QED BY <1>2, <1>3, <1>4, <1>5, <1>6

LEMMA ReceiveKeeps == ASSUME ContactsInv, Receive PROVE ContactsInv'
<1>1. CTypeOK /\ OnItsWay /\ sync.phase = "pages"
  BY DEF ContactsInv, Receive, OnItsWay
<1>2. UNCHANGED <<people, time, pending, cursor, resetter, handed, missed, crossed>>
  BY DEF Receive, server, thread, contactPast
<1>3. PICK p, pages, n : p = sync.page /\ pages = sync.pages /\ n = Len(pages) OBVIOUS
<1>4. p \in 1 .. n /\ pages \in Seq(PageRows) /\ n \in Nat
  BY <1>1, <1>3 DEF ContactsInv, SyncOK
<1>5. PICK list : list = pages[p].content OBVIOUS
<1>6. list \in Seq(ChangeRows) /\ On(p) = Elements(list) /\ On(p) \subseteq Carried
      /\ pages[p].number = p /\ pages[p].total = n
  BY <1>1, <1>3, <1>4, <1>5, ContentOf DEF On
<1>7. cards' = Applied(list) BY <1>3, <1>5 DEF Receive
<1>8. /\ cards' \in [Ids -> Cards \cup {Nothing}]
      /\ \A i \in Ids : \/ \E e \in Elements(list) : e.id = i /\ cards'[i] = e.card
                        \/ /\ \A e \in Elements(list) : e.id # i
                           /\ cards'[i] = cards[i]
  BY <1>1, <1>6, <1>7, AppliedList
<1>9. sync' = IF p = n THEN [sync EXCEPT !.phase = "save"] ELSE [sync EXCEPT !.page = p + 1]
  BY <1>3, <1>6 DEF Receive
<1>10. sync \in [phase : SyncPhases, pages : Seq(ChangeRows) \cup Seq(PageRows), page : Nat]
  BY DEF ContactsInv, SyncOK
<1>11. /\ sync' \in [phase : SyncPhases, pages : Seq(ChangeRows) \cup Seq(PageRows), page : Nat]
       /\ sync'.pages = pages
       /\ \/ sync'.phase = "save" /\ sync'.page = p /\ p = n
          \/ sync'.phase = "pages" /\ sync'.page = p + 1 /\ p + 1 \in 1 .. n
  <2>1. CASE p = n BY <1>3, <1>9, <1>10, <2>1 DEF SyncPhases
  <2>2. CASE p # n
    <3>1. p + 1 \in 1 .. n /\ p + 1 \in Nat BY <1>4, <2>2
    <3> QED BY <1>1, <1>3, <1>9, <1>10, <2>2, <3>1
  <2> QED BY <2>1, <2>2
<1>12. OnItsWay' /\ Carried' = Carried BY <1>3, <1>11 DEF OnItsWay, Carried, On
<1>13. Arrived' = Arrived \cup On(p)
  <2>1. Arrived = UNION {On(q) : q \in 1 .. p - 1} BY <1>1, <1>3 DEF Arrived
  <2>2. \A q : On(q)' = On(q) BY <1>3, <1>11 DEF On
  <2>3. Arrived' = UNION {On(q) : q \in 1 .. p}
    <3>1. CASE sync'.phase = "save" BY <1>11, <2>2, <3>1 DEF Arrived
    <3>2. CASE sync'.phase = "pages"
      <4>1. sync'.page - 1 = p BY <1>4, <1>11, <3>2
      <4> QED BY <2>2, <3>2, <4>1 DEF Arrived
    <3> QED BY <1>11, <3>1, <3>2
  <2>4. 1 .. p = (1 .. p - 1) \cup {p} BY <1>4
  <2> QED BY <2>1, <2>3, <2>4
<1>14. CTypeOK' BY <1>1, <1>2, <1>8, <1>11 DEF CTypeOK
<1>15. SyncOK'
  <2>1. \A q \in 1 .. n : pages[q].number = q /\ pages[q].total = n
    BY <1>1, <1>3 DEF ContactsInv, SyncOK
  <2>2. \A e \in Carried : e.at <= handed BY <1>1 DEF ContactsInv, SyncOK
  <2> QED BY <1>2, <1>3, <1>4, <1>11, <1>12, <2>1, <2>2 DEF SyncOK
<1>16. TimesOK' BY <1>2 DEF ContactsInv, TimesOK
<1>17. ASSUME NEW i \in Ids, Due(i, handed)
       PROVE  \A e \in Elements(list) : e.id = i => cards'[i] = Change(i).card
  <2>1. \A e \in Carried : e.id = i => e = Change(i)
    BY <1>1, <1>17 DEF ContactsInv, SendingOK
  <2> QED BY <1>6, <1>8, <2>1
<1>18. CopyOK'
  <2>1. SUFFICES ASSUME Steady, NEW i \in Ids, Due(i, cursor) PROVE cards'[i] = Change(i).card
    BY <1>2 DEF CopyOK, Due, Change, Steady
  <2>2. Due(i, handed)
    <3>1. people[i] \in People BY <1>1, <2>1 DEF CTypeOK, Due
    <3>2. people[i].at \in Nat BY <3>1, ContactsAssumption DEF People
    <3>3. cursor \in Nat /\ handed \in Nat /\ cursor <= handed
      BY ContactsAssumption DEF ContactsInv, CTypeOK, TimesOK
    <3> QED BY <2>1, <3>2, <3>3 DEF Due
  <2>3. cards[i] = Change(i).card BY <2>1 DEF ContactsInv, CopyOK
  <2> QED BY <1>8, <1>17, <2>2, <2>3
<1>19. ListedOK' BY <1>11 DEF ListedOK
<1>20. SendingOK'
  <2>1. SUFFICES ASSUME NEW i \in Ids, Due(i, handed)
                 PROVE  /\ \A e \in Carried : e.id = i => e = Change(i)
                        /\ ~ crossed /\ people[i].at > cursor => Change(i) \in Carried
                        /\ Steady => \A e \in Arrived \cup On(p) : e.id = i => cards'[i] = e.card
    BY <1>2, <1>12, <1>13 DEF SendingOK, Due, Change, Steady
  <2>2. /\ \A e \in Carried : e.id = i => e = Change(i)
        /\ ~ crossed /\ people[i].at > cursor => Change(i) \in Carried
        /\ Steady => \A e \in Arrived : e.id = i => cards[i] = e.card
    BY <1>1, <2>1 DEF ContactsInv, SendingOK
  <2>3. ASSUME Steady, NEW e \in Arrived \cup On(p), e.id = i PROVE cards'[i] = e.card
    <3>1. CASE e \in On(p)
      <4>1. e = Change(i) BY <1>6, <2>2, <2>3, <3>1
      <4> QED BY <1>6, <1>17, <2>1, <2>3, <3>1, <4>1
    <3>2. CASE e \in Arrived /\ \A x \in Elements(list) : x.id # i
      <4>1. cards'[i] = cards[i] BY <1>8, <3>2
      <4> QED BY <2>2, <2>3, <3>2, <4>1
    <3>3. CASE e \in Arrived /\ \E x \in Elements(list) : x.id = i
      <4>1. cards'[i] = Change(i).card BY <1>17, <2>1, <3>3
      <4>2. 1 .. p - 1 \subseteq 1 .. n BY <1>4
      <4>3. Arrived = UNION {On(q) : q \in 1 .. p - 1} BY <1>1, <1>3 DEF Arrived
      <4>4. e \in Carried BY <1>3, <3>3, <4>2, <4>3 DEF Carried
      <4> QED BY <2>2, <2>3, <4>1, <4>4
    <3> QED BY <2>3, <3>1, <3>2, <3>3
  <2> QED BY <2>2, <2>3
<1> QED BY <1>14, <1>15, <1>16, <1>18, <1>19, <1>20 DEF ContactsInv

LEMMA SaveKeeps == ASSUME ContactsInv, SaveCursor PROVE ContactsInv'
<1>1. CTypeOK /\ OnItsWay /\ sync.phase = "save" BY DEF ContactsInv, SaveCursor, OnItsWay
<1>2. UNCHANGED <<people, time, pending, cards, resetter, handed, missed, crossed>>
  BY DEF SaveCursor, server, thread, contactPast
<1>3. sync' = NoSync BY DEF SaveCursor
<1>4. sync.page = Len(sync.pages) BY <1>1 DEF ContactsInv, SyncOK
<1>5. Arrived = Carried BY <1>1, <1>4 DEF Arrived, Carried
<1>6. PICK T : T = UNION {Times(sync.pages[p].content) : p \in 1 .. sync.page} OBVIOUS
<1>7. PICK seen : seen = Greatest(T) OBVIOUS
<1>8. cursor' = IF seen = 0 THEN cursor ELSE seen BY <1>6, <1>7 DEF SaveCursor
<1>9. T \in SUBSET (1..MaxContactsTime) /\ \A t \in T : \E e \in Carried : t = e.at
  <2>1. ASSUME NEW p \in 1 .. Len(sync.pages)
        PROVE  /\ Times(sync.pages[p].content) \in SUBSET (1..MaxContactsTime)
               /\ \A t \in Times(sync.pages[p].content) : \E e \in Carried : t = e.at
    <3>1. sync.pages[p].content \in Seq(ChangeRows) /\ On(p) \subseteq Carried
      BY <1>1, ContentOf
    <3>2. Times(sync.pages[p].content) = {e.at : e \in On(p)} BY <3>1, TimesOf DEF On
    <3>3. Times(sync.pages[p].content) \in SUBSET (1..MaxContactsTime) BY <3>1, TimesOf
    <3> QED BY <3>1, <3>2, <3>3
  <2> QED BY <1>4, <1>6, <2>1, SMTT(30)
<1>10. seen \in T \cup {0} /\ seen \in 0..MaxContactsTime BY <1>7, <1>9, GreatestTime
<1>11. \A e \in Carried : e.at <= handed BY <1>1 DEF ContactsInv, SyncOK
<1>12. cursor \in 0..MaxContactsTime /\ cursor <= handed /\ handed \in 0..MaxContactsTime
       /\ MaxContactsTime \in Nat
  BY <1>1, ContactsAssumption DEF ContactsInv, CTypeOK, TimesOK
<1>13. cursor' \in 0..MaxContactsTime /\ cursor' <= handed
  <2>1. seen # 0 => seen <= handed BY <1>9, <1>10, <1>11
  <2> QED BY <1>8, <1>10, <1>12, <2>1
<1>14. sync'.phase = "idle" BY <1>3 DEF NoSync
<1>15. CTypeOK' BY <1>1, <1>2, <1>13, <1>14 DEF CTypeOK
<1>16. SyncOK'
  <2>1. Resting BY <1>3, NoSyncRests
  <2> QED BY <2>1 DEF SyncOK, OnItsWay, Resting
<1>17. TimesOK' BY <1>2, <1>13 DEF ContactsInv, TimesOK
<1>18. CopyOK'
  <2>1. SUFFICES ASSUME Steady, NEW i \in Ids, i \notin missed, people[i] # Nothing,
                        people[i].at <= cursor'
                 PROVE  cards[i] = Change(i).card
    BY <1>2 DEF CopyOK, Due, Change, Steady
  <2>2. people[i].at \in Nat
    <3>1. people[i] \in People BY <1>1, <2>1 DEF CTypeOK
    <3> QED BY <3>1, ContactsAssumption DEF People
  <2>3. CASE people[i].at <= cursor BY <2>1, <2>3 DEF ContactsInv, CopyOK, Due
  <2>4. CASE people[i].at > cursor
    <3>1. Due(i, handed) BY <1>12, <1>13, <2>1, <2>2 DEF Due
    <3>2. /\ ~ crossed /\ people[i].at > cursor => Change(i) \in Carried
          /\ Steady => \A e \in Arrived : e.id = i => cards[i] = e.card
      BY <1>1, <3>1 DEF ContactsInv, SendingOK
    <3>3. Change(i) \in Arrived BY <1>5, <2>1, <2>4, <3>2 DEF Steady
    <3>4. Change(i).id = i BY <1>1, <2>1, ChangeOf
    <3> QED BY <2>1, <3>2, <3>3, <3>4
  <2> QED BY <1>12, <2>2, <2>3, <2>4
<1>19. ListedOK' /\ SendingOK' BY <1>14 DEF ListedOK, SendingOK, OnItsWay
<1> QED BY <1>15, <1>16, <1>17, <1>18, <1>19 DEF ContactsInv

-----------------------------------------------------------------------------
LEMMA ContactsNextInv == ContactsInv /\ [ContactsNext]_contactVars => ContactsInv'
<1> SUFFICES ASSUME ContactsInv, [ContactsNext]_contactVars PROVE ContactsInv' OBVIOUS
<1>1. CASE UNCHANGED contactVars
  <2>1. UNCHANGED <<people, cards, cursor, handed, missed, time, pending, resetter, crossed, sync>>
    BY <1>1 DEF contactVars, server, copy, thread, contactPast
  <2> QED BY <2>1, SyncStands DEF CopyUntouched, ContactsInv, CTypeOK, Steady
<1>2. CASE ContactsNext
  BY <1>2, WritesKeep, SyncStarts, SyncEnds, ResetAndClockKeep, ServerRestarts, ResetKeeps,
     ChangesAreSent, ListingKeeps, DeletedAreSent, ReceiveKeeps, SaveKeeps DEF ContactsNext
<1> QED BY <1>1, <1>2

LEMMA ContactsInvariant == ContactsSpec => []ContactsInv
BY ContactsInitInv, ContactsNextInv, PTL DEF ContactsSpec

(* The rows of the contacts, the device's copy and its cursor have the      *)
(* types the code gives them, whatever is imported, synced and lost.        *)
THEOREM ContactTypes == ContactsSpec => []CTypeOK
<1>1. ContactsInv => CTypeOK BY DEF ContactsInv
<1> QED BY <1>1, ContactsInvariant, PTL

(* Between syncs the device's copy is that of the table as of its cursor,   *)
(* for the contacts that were not changed too late for their time.          *)
THEOREM DeviceFollows == ContactsSpec => []CopyFollows
<1>1. ContactsInv => CopyFollows
  BY DEF ContactsInv, CopyOK, CopyFollows, Quiet, Due, Change, Steady
<1> QED BY <1>1, ContactsInvariant, PTL

(* A reset the portal asked for stays pending or is being made, unless it   *)
(* is lost with an answer, the server, the device or a failed clearing.     *)
THEOREM ResetsAreKept == ContactsSpec => []ResetKept
<1>1. ContactsInit => ResetKept BY DEF ContactsInit, ResetKept
<1>2. ASSUME ResetKept, [ContactsNext]_contactVars PROVE ResetKept'
  <2>1. CASE UNCHANGED <<wanted, lost, pending, resetter>> BY <1>2, <2>1 DEF ResetKept
  <2>2. CASE ClientReset BY <2>2 DEF ClientReset, ResetKept
  <2>3. CASE Claim BY <1>2, <2>3 DEF Claim, ResetKept, contactPast, asked
  <2>4. CASE ClaimLost
    <3>1. resetter' = resetter /\ wanted' = wanted /\ resetter # "clear"
      BY <2>4 DEF ClaimLost
    <3>2. \/ UNCHANGED <<pending, lost>>
          \/ pending' = FALSE /\ lost' = (lost \/ pending)
      BY <2>4, Zenon DEF ClaimLost
    <3>3. CASE UNCHANGED <<pending, lost>> BY <2>1, <3>1, <3>3
    <3>4. CASE pending' = FALSE /\ lost' = (lost \/ pending)
      BY <1>2, <3>1, <3>4, Zenon DEF ResetKept
    <3> QED BY <3>2, <3>3, <3>4, Zenon
  <2>5. CASE ClearContacts BY <1>2, <2>5, Zenon DEF ClearContacts, ResetKept, server
  <2>13. CASE ClearFails BY <1>2, <2>13, Zenon DEF ClearFails, ResetKept, server
  <2>6. CASE ForgetCursor BY <1>2, <2>6 DEF ForgetCursor, ResetKept, server, asked
  <2>14. CASE CommitFails BY <1>2, <2>14 DEF CommitFails, ResetKept, server, asked
  <2>7. CASE DeviceDies BY <1>2, <2>7, Zenon DEF DeviceDies, ResetKept, server
  <2>8. CASE Restart BY <1>2, <2>8, Zenon DEF Restart, ResetKept, thread
  <2>9. CASE \E t : Write(t) BY <2>1, <2>9 DEF Write, thread, asked
  <2>10. CASE \/ StartSync \/ HookDone \/ AskChanges \/ AskAll \/ ListDeleted
              \/ Receive \/ SaveCursor \/ SyncBreaks \/ ContactsTick \/ SetBack
    BY <2>1, <2>10 DEF StartSync, HookDone, AskChanges, AskAll, ListDeleted, Receive,
       SaveCursor, SyncBreaks, ContactsTick, SetBack, thread, server, contactPast, asked
  <2>11. CASE UNCHANGED contactVars BY <2>1, <2>11 DEF contactVars, server, thread, contactPast, asked
  <2>12. CASE \/ \E i \in Ids : Delete(i) \/ \E card \in Cards : Upsert(i, card)
              \/ \E batch \in Batches : Import(batch)
    BY <2>9, <2>12 DEF Delete, Upsert, Import
  <2> QED BY <1>2, <2>2, <2>3, <2>4, <2>5, <2>13, <2>6, <2>14, <2>7, <2>8, <2>10, <2>11, <2>12 DEF ContactsNext
<1> QED BY <1>1, <1>2, PTL DEF ContactsSpec

-----------------------------------------------------------------------------
(* The conversation log.  Turn j of a conversation is a question.           *)
Asks(c, j) == j \in DOMAIN talk[c] /\ talk[c][j].role = "user"

(* The device heard the answer to question j.                              *)
Heard(c, j) == j + 1 \in DOMAIN talk[c] /\ talk[c][j + 1].role = "assistant"

Beginning(t, n) == SubSeq(t, 1, n)

(* What was said before turn j, as the log has it.                          *)
SaidBefore(c, j) == Pairs(Spoken(Beginning(talk[c], j - 1)))

TextsAndAnswers == Texts \cup Answers

(* The messages are what the log is given once question j was answered.     *)
Tells(messages, c, j) ==
    /\ Asks(c, j) /\ (c \in waiting => j < Len(talk[c]))
    /\ \E reply \in TextsAndAnswers :
          /\ messages = SaidBefore(c, j) \o << <<"user", talk[c][j].text>>, <<"assistant", reply>> >>
          /\ Heard(c, j) => reply = talk[c][j + 1].text
    /\ Placed(messages) \subseteq said[c]

QuestionsOK ==
    \A c \in Convs :
        /\ \A j \in DOMAIN talk[c] :
              Asks(c, j) => talk[c][j].run \in 1..MaxRuns /\ talk[c][j].text \in Texts
        /\ \A i, j \in DOMAIN talk[c] :
              Asks(c, i) /\ Asks(c, j) /\ i < j => talk[c][i].run < talk[c][j].run
        /\ c \in waiting => Asks(c, Len(talk[c]))

SavesOK ==
    \A s \in saves : \E j \in DOMAIN talk[s.conversation] :
        Tells(Saved(s), s.conversation, j) /\ talk[s.conversation][j].run = s.run

(* The last run that was saved is in the log.                               *)
LatestKept ==
    \A c \in Convs \ disturbed : Apart(c) /\ latest[c] > 0 =>
        \E k \in DOMAIN rows : \E j \in DOMAIN talk[c] :
            Tells(rows[k].messages, c, j) /\ talk[c][j].run = latest[c]

(* What the device heard was saved or is about to be.                       *)
HeardSaved ==
    \A c \in Convs \ disturbed : \A j \in DOMAIN talk[c] :
        Asks(c, j) /\ Heard(c, j) =>
            \/ talk[c][j].run <= latest[c]
            \/ \E s \in saves : s.conversation = c /\ s.run = talk[c][j].run

LogInv == LogTypeOK /\ QuestionsOK /\ SavesOK /\ LatestKept /\ HeardSaved

LEMMA SpokenUnfolds ==
    ASSUME NEW S, NEW t \in Seq(S)
    PROVE  \E f : /\ f[0] = << >> /\ Spoken(t) = f[Len(t)]
                  /\ \A n \in 1 .. Len(t) :
                        f[n] = IF t[n].text = Silence THEN f[n - 1] ELSE Append(f[n - 1], t[n])
<1>1. PICK l : l = Len(t) OBVIOUS
<1>2. l \in Nat BY <1>1
<1> DEFINE OneMore(h, n) == IF t[n].text = Silence THEN h ELSE Append(h, t[n])
           Says(g, m) == g = [n \in 0 .. m |-> IF n = 0 THEN << >> ELSE OneMore(g[n - 1], n)]
           Heards     == CHOOSE g : Says(g, l)
<1>3. Spoken(t) = Heards[l] BY <1>1 DEF Spoken
<1> HIDE DEF OneMore
<1>4. \E g : Says(g, l)
  <2>1. PICK G : G = {m \in Nat : \E g : Says(g, m)} OBVIOUS
  <2>2. 0 \in G
    <3>1. PICK g : g = [n \in 0 .. 0 |-> << >>] OBVIOUS
    <3>2. Says(g, 0) BY <3>1
    <3> QED BY <2>1, <3>2
  <2>3. ASSUME NEW m \in Nat, m \in G
        PROVE  m + 1 \in G
    <3>1. PICK g : Says(g, m) BY <2>1, <2>3
    <3>2. PICK h : h = [n \in 0 .. m + 1 |-> IF n <= m THEN g[n] ELSE OneMore(g[m], m + 1)] OBVIOUS
    <3>3. \A n \in 0 .. m + 1 : h[n] = IF n = 0 THEN << >> ELSE OneMore(h[n - 1], n)
      <4> TAKE n \in 0 .. m + 1
      <4>1. CASE n = 0 BY <3>1, <3>2, <4>1
      <4>2. CASE n \in 1 .. m
        <5>1. n - 1 \in 0 .. m /\ n \in 0 .. m /\ n <= m /\ n - 1 <= m /\ n # 0 BY <4>2
        <5>2. h[n] = g[n] /\ h[n - 1] = g[n - 1] BY <3>2, <5>1
        <5>3. g[n] = OneMore(g[n - 1], n) BY <3>1, <5>1
        <5> QED BY <5>1, <5>2, <5>3
      <4>3. CASE n = m + 1
        <5>1. h[n] = OneMore(g[m], m + 1) BY <3>2, <4>3
        <5>2. h[m] = g[m] /\ n - 1 = m /\ n # 0 BY <3>2, <4>3
        <5> QED BY <4>3, <5>1, <5>2
      <4> QED BY <4>1, <4>2, <4>3
    <3>4. Says(h, m + 1) BY <3>2, <3>3
    <3> QED BY <2>1, <3>4
  <2>4. Nat \subseteq G BY <2>2, <2>3, SetInduction
  <2> QED BY <1>2, <2>1, <2>4
<1>5. Says(Heards, l) BY <1>4
<1>6. PICK f : f = Heards OBVIOUS
<1>7. f[0] = << >> /\ \A n \in 1 .. l : f[n] = OneMore(f[n - 1], n)
  <2>1. Says(f, l) BY <1>5, <1>6
  <2>2. f[0] = << >> BY <1>2, <2>1
  <2>3. ASSUME NEW n \in 1 .. l PROVE f[n] = OneMore(f[n - 1], n)
    <3>1. n \in 0 .. l /\ n # 0 BY <1>2
    <3> QED BY <2>1, <3>1
  <2> QED BY <2>2, <2>3
<1> HIDE DEF Heards
<1> QED BY <1>1, <1>3, <1>6, <1>7 DEF OneMore

LEMMA SpokenOfNone == Spoken(<< >>) = << >>
<1>1. << >> \in Seq(Turns) /\ Len(<< >>) = 0 OBVIOUS
<1> QED BY <1>1, SpokenUnfolds

LEMMA SpokenOfMore ==
    ASSUME NEW S, NEW t \in Seq(S), NEW x \in S
    PROVE  Spoken(Append(t, x)) = IF x.text = Silence THEN Spoken(t) ELSE Append(Spoken(t), x)
<1>1. PICK u, l : u = Append(t, x) /\ l = Len(t) OBVIOUS
<1>2. u \in Seq(S) /\ Len(u) = l + 1 /\ l \in Nat /\ u[l + 1] = x /\ \A n \in 1 .. l : u[n] = t[n]
  BY <1>1
<1>3. PICK f : /\ f[0] = << >> /\ Spoken(t) = f[l]
               /\ \A n \in 1 .. l :
                     f[n] = IF t[n].text = Silence THEN f[n - 1] ELSE Append(f[n - 1], t[n])
  BY <1>1, SpokenUnfolds
<1>4. PICK g : /\ g[0] = << >> /\ Spoken(u) = g[l + 1]
               /\ \A n \in 1 .. l + 1 :
                     g[n] = IF u[n].text = Silence THEN g[n - 1] ELSE Append(g[n - 1], u[n])
  <2>1. \E g : /\ g[0] = << >> /\ Spoken(u) = g[Len(u)]
               /\ \A n \in 1 .. Len(u) :
                     g[n] = IF u[n].text = Silence THEN g[n - 1] ELSE Append(g[n - 1], u[n])
    BY <1>2, SpokenUnfolds
  <2> QED BY <1>2, <2>1
<1>5. PICK G : G = {n \in Nat : n <= l => g[n] = f[n]} OBVIOUS
<1>6. 0 \in G BY <1>3, <1>4, <1>5
<1>7. ASSUME NEW n \in Nat, n \in G PROVE n + 1 \in G
  <2>1. SUFFICES ASSUME n + 1 <= l PROVE g[n + 1] = f[n + 1] BY <1>5
  <2>2. PICK m : m = n + 1 OBVIOUS
  <2>3. m \in 1 .. l /\ m \in 1 .. l + 1 /\ m - 1 = n /\ n <= l BY <1>2, <2>1, <2>2
  <2>4. g[n] = f[n] BY <1>5, <1>7, <2>3
  <2>5. g[m] = IF u[m].text = Silence THEN g[n] ELSE Append(g[n], u[m]) BY <1>4, <2>3
  <2>6. f[m] = IF t[m].text = Silence THEN f[n] ELSE Append(f[n], t[m]) BY <1>3, <2>3
  <2>7. u[m] = t[m] BY <1>2, <2>3
  <2> QED BY <2>2, <2>4, <2>5, <2>6, <2>7
<1>8. g[l] = f[l]
  <2>1. Nat \subseteq G BY <1>6, <1>7, SetInduction
  <2> QED BY <1>2, <1>5, <2>1
<1>9. g[l + 1] = IF x.text = Silence THEN g[l] ELSE Append(g[l], x)
  <2>1. l + 1 \in 1 .. l + 1 /\ l + 1 - 1 = l BY <1>2
  <2> QED BY <1>2, <1>4, <2>1
<1> QED BY <1>1, <1>3, <1>4, <1>8, <1>9

LEMMA SpokenIsTurns ==
    ASSUME NEW S, NEW t \in Seq(S)
    PROVE  Spoken(t) \in Seq(S)
<1>1. PICK l : l = Len(t) OBVIOUS
<1>2. l \in Nat /\ \A n \in 1 .. l : t[n] \in S BY <1>1
<1>3. PICK f : /\ f[0] = << >> /\ Spoken(t) = f[l]
               /\ \A n \in 1 .. l :
                     f[n] = IF t[n].text = Silence THEN f[n - 1] ELSE Append(f[n - 1], t[n])
  BY <1>1, SpokenUnfolds
<1>4. PICK G : G = {n \in Nat : n <= l => f[n] \in Seq(S)} OBVIOUS
<1>5. 0 \in G
  <2>1. << >> \in Seq(S) OBVIOUS
  <2>2. f[0] \in Seq(S) BY <1>3, <2>1
  <2> QED BY <1>4, <2>2
<1>6. ASSUME NEW n \in Nat, n \in G PROVE n + 1 \in G
  <2>1. SUFFICES ASSUME n + 1 <= l PROVE f[n + 1] \in Seq(S) BY <1>4
  <2>2. PICK m : m = n + 1 OBVIOUS
  <2>3. m \in 1 .. l /\ m - 1 = n /\ n <= l BY <1>2, <2>1, <2>2
  <2>4. f[n] \in Seq(S) BY <1>4, <1>6, <2>3
  <2>5. f[m] = IF t[m].text = Silence THEN f[n] ELSE Append(f[n], t[m]) BY <1>3, <2>3
  <2> QED BY <1>2, <2>2, <2>3, <2>4, <2>5
<1>7. Nat \subseteq G BY <1>5, <1>6, SetInduction
<1> QED BY <1>2, <1>3, <1>4, <1>7

LEMMA BeginningOf ==
    ASSUME NEW S, NEW t \in Seq(S), NEW n \in 0 .. Len(t)
    PROVE  /\ Beginning(t, n) \in Seq(S) /\ Len(Beginning(t, n)) = n
           /\ \A i \in 1 .. n : Beginning(t, n)[i] = t[i]
<1>1. PICK l : l = Len(t) OBVIOUS
<1>2. l \in Nat /\ n \in Nat /\ n <= l /\ \A i \in 1 .. l : t[i] \in S BY <1>1
<1>3. \A i \in 1 .. n : t[i] \in S BY <1>2
<1>4. PICK f : f = SubSeq(t, 1, n) OBVIOUS
<1>5. /\ f \in Seq(S) /\ Len(f) = IF 1 <= n THEN n - 1 + 1 ELSE 0
      /\ \A i \in 1 .. n - 1 + 1 : f[i] = t[1 + i - 1]
  BY <1>2, <1>3, <1>4, SubSeqProperties
<1>6. Len(f) = n BY <1>2, <1>5
<1>7. ASSUME NEW i \in 1 .. n PROVE f[i] = t[i]
  <2>1. i \in 1 .. n - 1 + 1 /\ 1 + i - 1 = i BY <1>2
  <2> QED BY <1>5, <2>1
<1> QED BY <1>4, <1>5, <1>6, <1>7 DEF Beginning

LEMMA SameSequence ==
    ASSUME NEW S, NEW a \in Seq(S), NEW b \in Seq(S), Len(a) = Len(b),
           \A i \in 1 .. Len(a) : a[i] = b[i]
    PROVE  a = b
BY SeqEqual

LEMMA NextBeginning ==
    ASSUME NEW S, NEW t \in Seq(S), NEW n \in Nat, n + 1 <= Len(t)
    PROVE  Beginning(t, n + 1) = Append(Beginning(t, n), t[n + 1])
<1>1. PICK l, m, x : l = Len(t) /\ m = n + 1 /\ x = t[n + 1] OBVIOUS
<1>2. l \in Nat /\ m \in 0 .. l /\ n \in 0 .. l /\ x \in S BY <1>1
<1>3. PICK a, b, c : a = Beginning(t, m) /\ b = Beginning(t, n) /\ c = Append(b, x) OBVIOUS
<1>4. a \in Seq(S) /\ Len(a) = m /\ \A i \in 1 .. m : a[i] = t[i] BY <1>1, <1>2, <1>3, BeginningOf
<1>5. b \in Seq(S) /\ Len(b) = n /\ \A i \in 1 .. n : b[i] = t[i] BY <1>1, <1>2, <1>3, BeginningOf
<1>6. c \in Seq(S) /\ Len(c) = m /\ c[m] = x /\ \A i \in 1 .. n : c[i] = b[i]
  BY <1>1, <1>2, <1>3, <1>5
<1>7. ASSUME NEW i \in 1 .. m PROVE a[i] = c[i]
  <2>1. i \in 1 .. n \/ i = m BY <1>1, <1>2
  <2> QED BY <1>1, <1>2, <1>4, <1>5, <1>6, <2>1
<1>8. a = c BY <1>4, <1>6, <1>7, SameSequence
<1> QED BY <1>1, <1>3, <1>8

LEMMA BeginningOfMore ==
    ASSUME NEW S, NEW t \in Seq(S), NEW x \in S, NEW n \in 0 .. Len(t)
    PROVE  Beginning(Append(t, x), n) = Beginning(t, n)
<1>1. PICK u, l : u = Append(t, x) /\ l = Len(t) OBVIOUS
<1>2. u \in Seq(S) /\ Len(u) = l + 1 /\ l \in Nat /\ \A i \in 1 .. l : u[i] = t[i] BY <1>1
<1>3. n \in 0 .. l /\ n \in 0 .. l + 1 BY <1>1, <1>2
<1>4. PICK a, b : a = Beginning(u, n) /\ b = Beginning(t, n) OBVIOUS
<1>5. a \in Seq(S) /\ Len(a) = n /\ \A i \in 1 .. n : a[i] = u[i] BY <1>2, <1>3, <1>4, BeginningOf
<1>6. b \in Seq(S) /\ Len(b) = n /\ \A i \in 1 .. n : b[i] = t[i] BY <1>1, <1>3, <1>4, BeginningOf
<1>7. ASSUME NEW i \in 1 .. n PROVE a[i] = b[i]
  <2>1. i \in 1 .. l BY <1>2, <1>3
  <2> QED BY <1>2, <1>5, <1>6, <2>1
<1>8. a = b BY <1>5, <1>6, <1>7, SameSequence
<1> QED BY <1>1, <1>4, <1>8

(* What was spoken early stays at its place.                                *)
LEMMA SpokenGrows ==
    ASSUME NEW S, NEW t \in Seq(S), NEW m \in Nat, NEW n \in Nat, m <= n, n <= Len(t)
    PROVE  LET a == Spoken(Beginning(t, m))
               b == Spoken(Beginning(t, n))
           IN  Len(a) <= Len(b) /\ \A i \in 1 .. Len(a) : b[i] = a[i]
<1>1. PICK l, a : l = Len(t) /\ a = Spoken(Beginning(t, m)) OBVIOUS
<1>2. l \in Nat BY <1>1
<1>3. a \in Seq(S)
  <2>1. Beginning(t, m) \in Seq(S) BY <1>1, <1>2, BeginningOf
  <2> QED BY <1>1, <2>1, SpokenIsTurns
<1> DEFINE Grown(b) == Len(a) <= Len(b) /\ \A i \in 1 .. Len(a) : b[i] = a[i]
<1>4. PICK G : G = {k \in Nat : m + k <= l => Grown(Spoken(Beginning(t, m + k)))} OBVIOUS
<1>5. 0 \in G
  <2>1. m + 0 = m BY <1>2
  <2>2. Grown(a) BY <1>3
  <2> QED BY <1>1, <1>4, <2>1, <2>2
<1>6. ASSUME NEW k \in Nat, k \in G PROVE k + 1 \in G
  <2>1. SUFFICES ASSUME m + (k + 1) <= l PROVE Grown(Spoken(Beginning(t, m + (k + 1)))) BY <1>4
  <2>2. PICK j : j = m + k OBVIOUS
  <2>3. j \in Nat /\ m + (k + 1) = j + 1 /\ j + 1 <= l /\ j <= l BY <1>2, <2>1, <2>2
  <2>4. PICK b, x : b = Spoken(Beginning(t, j)) /\ x = t[j + 1] OBVIOUS
  <2>5. Grown(b) BY <1>4, <1>6, <2>2, <2>3, <2>4
  <2>6. Beginning(t, j) \in Seq(S) BY <1>1, <1>2, <2>3, BeginningOf
  <2>7. b \in Seq(S) BY <2>4, <2>6, SpokenIsTurns
  <2>8. x \in S BY <1>1, <2>3, <2>4
  <2>9. Beginning(t, j + 1) = Append(Beginning(t, j), x) BY <1>1, <2>3, <2>4, NextBeginning
  <2>10. PICK c : c = Spoken(Beginning(t, j + 1)) OBVIOUS
  <2>11. c = IF x.text = Silence THEN b ELSE Append(b, x)
    BY <2>4, <2>6, <2>8, <2>9, <2>10, SpokenOfMore
  <2>12. Grown(Append(b, x))
    <3>1. PICK d, p, q : d = Append(b, x) /\ p = Len(b) /\ q = Len(a) OBVIOUS
    <3>2. p \in Nat /\ q \in Nat /\ q <= p /\ Len(d) = p + 1 /\ \A i \in 1 .. p : d[i] = b[i]
      BY <1>3, <2>5, <2>7, <2>8, <3>1
    <3>3. q <= Len(d) BY <3>2
    <3>4. ASSUME NEW i \in 1 .. q PROVE d[i] = a[i]
      <4>1. i \in 1 .. p BY <3>2
      <4> QED BY <2>5, <3>1, <3>2, <4>1
    <3> QED BY <3>1, <3>3, <3>4
  <2>13. Grown(c) BY <2>5, <2>11, <2>12
  <2> QED BY <2>3, <2>10, <2>13
<1>7. Nat \subseteq G BY <1>5, <1>6, SetInduction
<1>8. PICK k : k = n - m OBVIOUS
<1>9. k \in Nat /\ m + k = n /\ n <= l BY <1>1, <1>8
<1>10. Grown(Spoken(Beginning(t, n))) BY <1>4, <1>7, <1>9
<1> QED BY <1>1, <1>10

(* Two turns in a row with texts are next to each other in what is spoken.  *)
LEMMA SpokenTogether ==
    ASSUME NEW S, NEW t \in Seq(S), NEW i \in Nat \ {0}, NEW n \in Nat, i + 1 <= n, n <= Len(t),
           t[i].text # Silence, t[i + 1].text # Silence, NEW b, b = Spoken(Beginning(t, n))
    PROVE  \E x \in Nat \ {0} : x + 1 <= Len(b) /\ b[x] = t[i] /\ b[x + 1] = t[i + 1]
<1>1. PICK l, h : l = Len(t) /\ h = i - 1 OBVIOUS
<1>2. l \in Nat /\ h \in Nat /\ h + 1 = i /\ h + 1 <= l /\ i + 1 <= l /\ h <= l BY <1>1
<1>3. PICK a, c, d : /\ a = Spoken(Beginning(t, h)) /\ c = Spoken(Beginning(t, i))
                     /\ d = Spoken(Beginning(t, i + 1))
  OBVIOUS
<1>4. Beginning(t, h) \in Seq(S) /\ Beginning(t, i) \in Seq(S) BY <1>1, <1>2, BeginningOf
<1>5. t[i] \in S /\ t[i + 1] \in S BY <1>1, <1>2
<1>6. a \in Seq(S) BY <1>3, <1>4, SpokenIsTurns
<1>7. c = Append(a, t[i])
  <2>1. Beginning(t, i) = Append(Beginning(t, h), t[i]) BY <1>1, <1>2, NextBeginning
  <2> QED BY <1>3, <1>4, <1>5, <2>1, SpokenOfMore
<1>8. d = Append(c, t[i + 1])
  <2>1. Beginning(t, i + 1) = Append(Beginning(t, i), t[i + 1]) BY <1>1, <1>2, NextBeginning
  <2> QED BY <1>3, <1>4, <1>5, <2>1, SpokenOfMore
<1>9. PICK p : p = Len(a) OBVIOUS
<1>10. p \in Nat /\ Len(c) = p + 1 /\ c \in Seq(S) /\ c[p + 1] = t[i] BY <1>5, <1>6, <1>7, <1>9
<1>11. Len(d) = p + 2 /\ d[p + 1] = c[p + 1] /\ d[p + 2] = t[i + 1]
  <2>1. p + 1 \in 1 .. Len(c) /\ Len(c) + 1 = p + 2 BY <1>10
  <2> QED BY <1>5, <1>8, <1>10, <2>1
<1>12. Len(d) <= Len(b) /\ \A k \in 1 .. Len(d) : b[k] = d[k]
  BY <1>2, <1>3, SpokenGrows
<1>13. b \in Seq(S)
  <2>1. n \in 0 .. Len(t) BY <1>1, <1>2
  <2>2. Beginning(t, n) \in Seq(S) BY <2>1, BeginningOf
  <2> QED BY <2>2, SpokenIsTurns
<1>14. Len(b) \in Nat BY <1>13
<1>15. p + 1 \in Nat \ {0} /\ p + 1 \in 1 .. Len(d) /\ p + 2 \in 1 .. Len(d) /\ p + 1 + 1 = p + 2
  BY <1>10, <1>11
<1>16. p + 1 + 1 <= Len(b) BY <1>10, <1>11, <1>12, <1>14
<1>17. b[p + 1] = t[i] /\ b[p + 1 + 1] = t[i + 1] BY <1>10, <1>11, <1>12, <1>15
<1> QED BY <1>15, <1>16, <1>17

-----------------------------------------------------------------------------
LEMMA TalkOf ==
    ASSUME LogTypeOK, NEW c \in Convs, NEW n, n = Len(talk[c])
    PROVE  /\ talk[c] \in Seq(Turns) /\ n \in Nat /\ DOMAIN talk[c] = 1 .. n
           /\ \A i \in 1 .. n : talk[c][i] \in Turns
<1>1. talk[c] \in Seq(Turns) BY DEF LogTypeOK
<1> QED BY <1>1

LEMMA PairsOf ==
    ASSUME NEW t \in Seq(Turns), NEW p, p = Pairs(t)
    PROVE  /\ p \in Seq(Messages) /\ Len(p) = Len(t)
           /\ \A i \in 1 .. Len(t) : p[i] = <<t[i].role, t[i].text>>
<1>1. PICK l : l = Len(t) OBVIOUS
<1>2. l \in Nat /\ DOMAIN t = 1 .. l /\ \A i \in 1 .. l : t[i] \in Turns BY <1>1
<1> DEFINE Pair(i) == <<t[i].role, t[i].text>>
<1>3. p = [i \in 1 .. l |-> Pair(i)] BY <1>2 DEF Pairs
<1>4. \A i \in 1 .. l : Pair(i) \in Messages BY <1>2 DEF Turns, Messages
<1>5. p \in Seq(Messages) /\ Len(p) = l BY <1>2, <1>3, <1>4
<1>6. \A i \in 1 .. l : p[i] = Pair(i) BY <1>3
<1> QED BY <1>1, <1>5, <1>6

LEMMA SaidBeforeTyped ==
    ASSUME LogTypeOK, NEW c \in Convs, NEW j \in DOMAIN talk[c]
    PROVE  SaidBefore(c, j) \in Seq(Messages)
<1>1. PICK n, t, h : n = Len(talk[c]) /\ t = talk[c] /\ h = j - 1 OBVIOUS
<1>2. t \in Seq(Turns) /\ n \in Nat /\ j \in 1 .. n BY <1>1, TalkOf
<1>3. h \in 0 .. Len(t) BY <1>1, <1>2
<1>4. Beginning(t, h) \in Seq(Turns) BY <1>2, <1>3, BeginningOf
<1>5. Spoken(Beginning(t, h)) \in Seq(Turns) BY <1>4, SpokenIsTurns
<1> QED BY <1>1, <1>5, PairsOf DEF SaidBefore

LEMMA TwoMore ==
    ASSUME NEW S, NEW h \in Seq(S), NEW x \in S, NEW y \in S, NEW m, m = h \o <<x, y>>
    PROVE  /\ m \in Seq(S) /\ Len(m) = Len(h) + 2 /\ Len(h) \in Nat
           /\ m[Len(h) + 1] = x /\ m[Len(h) + 2] = y /\ \A i \in 1 .. Len(h) : m[i] = h[i]
<1>1. PICK l, p : l = Len(h) /\ p = <<x, y>> OBVIOUS
<1>2. p \in Seq(S) /\ Len(p) = 2 /\ p[1] = x /\ p[2] = y BY <1>1
<1>3. l \in Nat BY <1>1
<1>4. /\ m \in Seq(S) /\ Len(m) = l + 2
      /\ \A k \in 1 .. l + 2 : m[k] = IF k <= l THEN h[k] ELSE p[k - l]
  BY <1>1, <1>2
<1>5. m[l + 1] = x
  <2>1. PICK k : k = l + 1 OBVIOUS
  <2>2. k \in 1 .. l + 2 /\ ~ (k <= l) /\ k - l = 1 BY <1>3, <2>1
  <2>3. m[k] = p[k - l] BY <1>4, <2>2
  <2> QED BY <1>2, <2>1, <2>2, <2>3
<1>6. m[l + 2] = y
  <2>1. PICK k : k = l + 2 OBVIOUS
  <2>2. k \in 1 .. l + 2 /\ ~ (k <= l) /\ k - l = 2 BY <1>3, <2>1
  <2>3. m[k] = p[k - l] BY <1>4, <2>2
  <2> QED BY <1>2, <2>1, <2>2, <2>3
<1>7. \A i \in 1 .. l : m[i] = h[i]
  <2> TAKE i \in 1 .. l
  <2>1. i \in 1 .. l + 2 /\ i <= l BY <1>3
  <2> QED BY <1>4, <2>1
<1> QED BY <1>1, <1>3, <1>4, <1>5, <1>6, <1>7

-----------------------------------------------------------------------------
(* A conversation goes on: a question, the answer to the last one, nothing. *)
Continues(c) ==
    /\ \/ talk'[c] = talk[c] /\ (c \in waiting' => c \in waiting)
       \/ \E x \in Turns : /\ talk'[c] = Append(talk[c], x)
                           /\ x.role = "assistant" => c \in waiting /\ c \notin waiting'
    /\ said[c] \subseteq said'[c]

LEMMA TurnsStay ==
    ASSUME LogTypeOK, NEW c \in Convs, Continues(c), NEW j \in DOMAIN talk[c]
    PROVE  /\ j \in DOMAIN talk'[c] /\ talk'[c][j] = talk[c][j]
           /\ SaidBefore(c, j)' = SaidBefore(c, j)
<1>1. PICK t, n, h : t = talk[c] /\ n = Len(t) /\ h = j - 1 OBVIOUS
<1>2. t \in Seq(Turns) /\ n \in Nat /\ j \in 1 .. n BY <1>1, TalkOf
<1>3. CASE talk'[c] = t BY <1>1, <1>3 DEF SaidBefore
<1>4. ASSUME NEW x \in Turns, talk'[c] = Append(t, x)
      PROVE  /\ j \in DOMAIN talk'[c] /\ talk'[c][j] = t[j]
             /\ SaidBefore(c, j)' = SaidBefore(c, j)
  <2>1. PICK u : u = Append(t, x) OBVIOUS
  <2>2. j \in DOMAIN u /\ u[j] = t[j] BY <1>1, <1>2, <2>1
  <2>3. h \in 0 .. Len(t) BY <1>1, <1>2
  <2>4. Beginning(u, h) = Beginning(t, h) BY <1>2, <2>1, <2>3, BeginningOfMore
  <2>5. SaidBefore(c, j)' = Pairs(Spoken(Beginning(u, h))) BY <1>1, <1>4, <2>1 DEF SaidBefore
  <2>6. SaidBefore(c, j) = Pairs(Spoken(Beginning(t, h))) BY <1>1 DEF SaidBefore
  <2> QED BY <1>4, <2>1, <2>2, <2>4, <2>5, <2>6
<1> QED BY <1>1, <1>3, <1>4 DEF Continues

LEMMA TellsStays ==
    ASSUME LogTypeOK, NEW c \in Convs, Continues(c), NEW j \in DOMAIN talk[c],
           NEW messages, Tells(messages, c, j)
    PROVE  Tells(messages, c, j)' /\ talk'[c][j] = talk[c][j] /\ j \in DOMAIN talk'[c]
<1>1. PICK t, n : t = talk[c] /\ n = Len(t) OBVIOUS
<1>2. t \in Seq(Turns) /\ n \in Nat /\ j \in 1 .. n /\ DOMAIN t = 1 .. n BY <1>1, TalkOf
<1>3. j \in DOMAIN talk'[c] /\ talk'[c][j] = t[j] /\ SaidBefore(c, j)' = SaidBefore(c, j)
  BY <1>1, TurnsStay
<1>4. t[j].role = "user" /\ (c \in waiting => j < n) BY <1>1 DEF Tells, Asks
<1>5. PICK a \in TextsAndAnswers :
         /\ messages = SaidBefore(c, j) \o << <<"user", t[j].text>>, <<"assistant", a>> >>
         /\ Heard(c, j) => a = t[j + 1].text
  BY <1>1 DEF Tells
<1>6. Asks(c, j)' BY <1>3, <1>4 DEF Asks
<1>7. Placed(messages) \subseteq said'[c] BY DEF Tells, Continues
<1>8. c \in waiting' => j < Len(talk'[c])
  <2>1. CASE talk'[c] = t /\ (c \in waiting' => c \in waiting) BY <1>1, <1>4, <2>1
  <2>2. ASSUME NEW x \in Turns, talk'[c] = Append(t, x) PROVE j < Len(talk'[c])
    BY <1>1, <1>2, <2>2
  <2> QED BY <1>1, <2>1, <2>2 DEF Continues
<1>9. Heard(c, j)' => a = talk'[c][j + 1].text
  <2>1. CASE talk'[c] = t BY <1>1, <1>5, <2>1 DEF Heard
  <2>2. ASSUME NEW x \in Turns, talk'[c] = Append(t, x), Heard(c, j)',
               x.role = "assistant" => c \in waiting
        PROVE  a = talk'[c][j + 1].text
    <3>1. PICK u, k : u = Append(t, x) /\ k = j + 1 OBVIOUS
    <3>2. Len(u) = n + 1 /\ u[n + 1] = x /\ \A i \in 1 .. n : u[i] = t[i]
      BY <1>1, <1>2, <3>1
    <3>3. k \in DOMAIN u /\ u[k].role = "assistant" BY <2>2, <3>1 DEF Heard
    <3>4. CASE k = n + 1
      <4>1. j = n BY <1>2, <3>1, <3>4
      <4>2. c \in waiting BY <2>2, <3>2, <3>3, <3>4
      <4> QED BY <1>2, <1>4, <4>1, <4>2
    <3>5. CASE k # n + 1
      <4>1. k \in 1 .. n BY <1>2, <3>1, <3>5
      <4>2. u[k] = t[k] BY <3>2, <4>1
      <4>3. Heard(c, j) BY <1>1, <1>2, <3>1, <3>3, <4>1, <4>2 DEF Heard
      <4> QED BY <1>5, <2>2, <3>1, <4>2, <4>3
    <3> QED BY <3>4, <3>5
  <2> QED BY <1>1, <2>1, <2>2 DEF Continues
<1>10. messages = SaidBefore(c, j)' \o << <<"user", talk'[c][j].text>>, <<"assistant", a>> >>
  BY <1>3, <1>5
<1>11. Tells(messages, c, j)' BY <1>6, <1>7, <1>8, <1>9, <1>10 DEF Tells, TextsAndAnswers
<1> QED BY <1>1, <1>3, <1>11

(* The run of a question asked now is after all runs so far.                *)
LEMMA RunsAreBounded ==
    ASSUME LogTypeOK, QuestionsOK
    PROVE  /\ RunsSoFar \in 0..MaxRuns
           /\ \A c \in Convs : \A j \in DOMAIN talk[c] : Asks(c, j) => talk[c][j].run <= RunsSoFar
<1>1. PICK R : R = UNION {{talk[c][i].run : i \in UserIndices(talk[c])} : c \in Convs} OBVIOUS
<1>2. R \subseteq 1..MaxRuns
  <2>1. \A c \in Convs : \A i \in UserIndices(talk[c]) : talk[c][i].run \in 1..MaxRuns
    BY DEF QuestionsOK, Asks, UserIndices
  <2> QED BY <1>1, <2>1
<1>3. PICK S : S = {0} \cup R OBVIOUS
<1>4. MaxRuns \in Nat /\ S \in SUBSET (0..MaxRuns) /\ S # {} BY <1>2, <1>3, LogAssumption
<1>5. Max(S) \in S /\ \A x \in S : x <= Max(S) BY <1>4, GreatestOfSome
<1>6. RunsSoFar = Max(S) BY <1>1, <1>3 DEF RunsSoFar
<1>7. ASSUME NEW c \in Convs, NEW j \in DOMAIN talk[c], Asks(c, j)
      PROVE  talk[c][j].run \in S
  <2>1. j \in UserIndices(talk[c]) BY <1>7 DEF Asks, UserIndices
  <2> QED BY <1>1, <1>3, <2>1
<1> QED BY <1>4, <1>5, <1>6, <1>7

LEMMA LogInitInv == LogInit => LogInv
<1> SUFFICES ASSUME LogInit PROVE LogInv OBVIOUS
<1> USE DEF LogInit
<1>1. LogTypeOK
  <2>1. MaxLogTime \in Nat /\ MaxLosses \in Nat /\ MaxRuns \in Nat BY LogAssumption
  <2>2. talk \in [Convs -> Seq(Turns)] OBVIOUS
  <2>3. rows \in Seq([created : 0..clock, messages : Seq(Messages)]) /\ DOMAIN rows = {} OBVIOUS
  <2>4. latest \in [Convs -> 0..MaxRuns] BY <2>1
  <2>5. clock \in 0..MaxLogTime /\ losses \in 0..MaxLosses BY <2>1
  <2>6. said \in [Convs -> SUBSET (Nat \X Messages)] OBVIOUS
  <2> QED BY <2>2, <2>3, <2>4, <2>5, <2>6 DEF LogTypeOK
<1>2. \A c \in Convs : DOMAIN talk[c] = {} OBVIOUS
<1>3. QuestionsOK BY <1>2 DEF QuestionsOK
<1>4. SavesOK /\ LatestKept BY DEF SavesOK, LatestKept
<1>5. HeardSaved BY <1>2 DEF HeardSaved
<1> QED BY <1>1, <1>3, <1>4, <1>5 DEF LogInv

(* As long as the conversations go on, what waits to be saved and what was  *)
(* saved still tells them.                                                  *)
LEMMA SavesStay ==
    ASSUME LogInv, \A c \in Convs : Continues(c), NEW s \in saves
    PROVE  \E j \in DOMAIN talk'[s.conversation] :
              Tells(Saved(s), s.conversation, j)' /\ talk'[s.conversation][j].run = s.run
<1>1. LogTypeOK BY DEF LogInv
<1>2. PICK c, messages : c = s.conversation /\ messages = Saved(s) OBVIOUS
<1>3. c \in Convs BY <1>1, <1>2 DEF LogTypeOK, Tasks
<1>4. PICK j \in DOMAIN talk[c] : Tells(messages, c, j) /\ talk[c][j].run = s.run
  BY <1>2 DEF LogInv, SavesOK
<1>5. Tells(messages, c, j)' /\ talk'[c][j] = talk[c][j] /\ j \in DOMAIN talk'[c]
  BY <1>1, <1>3, <1>4, TellsStays
<1> QED BY <1>2, <1>4, <1>5

LEMMA ApartBefore ==
    ASSUME NEW c \in Convs, \A d \in Convs : Continues(d), Apart(c)'
    PROVE  Apart(c)
BY DEF Apart, Continues

LEMMA LatestStays ==
    ASSUME LogInv, \A d \in Convs : Continues(d), NEW c \in Convs \ disturbed, Apart(c)',
           latest[c] > 0, NEW n, n = latest[c]
    PROVE  \E k \in DOMAIN rows : \E j \in DOMAIN talk'[c] :
              \E messages : /\ messages = rows[k].messages /\ Tells(messages, c, j)
                            /\ Tells(messages, c, j)' /\ talk'[c][j].run = n
<1>1. LogTypeOK BY DEF LogInv
<1>2. Apart(c) BY ApartBefore
<1>3. PICK k \in DOMAIN rows : \E j \in DOMAIN talk[c] :
         Tells(rows[k].messages, c, j) /\ talk[c][j].run = latest[c]
  BY <1>2 DEF LogInv, LatestKept
<1>4. PICK messages : messages = rows[k].messages OBVIOUS
<1>5. PICK j \in DOMAIN talk[c] : Tells(messages, c, j) /\ talk[c][j].run = n
  BY <1>3, <1>4
<1>6. Tells(messages, c, j)' /\ talk'[c][j] = talk[c][j] /\ j \in DOMAIN talk'[c]
  BY <1>1, <1>5, TellsStays
<1> QED BY <1>4, <1>5, <1>6

(* A step of the device that leaves the log alone.                          *)
LEMMA LogUntouched ==
    ASSUME LogInv, \A c \in Convs : Continues(c), UNCHANGED <<rows, latest, disturbed>>,
           saves \subseteq saves'
    PROVE  LatestKept' /\ \A s \in saves : \E j \in DOMAIN talk'[s.conversation] :
              Tells(Saved(s), s.conversation, j)' /\ talk'[s.conversation][j].run = s.run
<1>1. LatestKept'
  <2>1. SUFFICES ASSUME NEW c \in Convs \ disturbed, Apart(c)', latest[c] > 0
                 PROVE  \E k \in DOMAIN rows : \E j \in DOMAIN talk'[c] :
                           Tells(rows[k].messages, c, j)' /\ talk'[c][j].run = latest[c]
    BY DEF LatestKept
  <2>2. PICK n : n = latest[c] OBVIOUS
  <2>3. PICK k \in DOMAIN rows, j \in DOMAIN talk'[c] : \E messages :
           messages = rows[k].messages /\ Tells(messages, c, j)' /\ talk'[c][j].run = n
    BY <2>1, <2>2, LatestStays
  <2>4. Tells(rows[k].messages, c, j)' BY <2>3
  <2> QED BY <2>2, <2>3, <2>4
<1> QED BY <1>1, SavesStay

LEMMA LastAsked ==
    ASSUME LogInv, NEW c \in waiting, NEW n, n = Len(talk[c])
    PROVE  /\ c \in Convs /\ n \in DOMAIN talk[c] /\ Asks(c, n) /\ LastUser(talk[c]) = n
           /\ History(talk[c]) = SaidBefore(c, n)
<1>1. c \in Convs /\ LogTypeOK BY DEF LogInv, LogTypeOK
<1>2. Asks(c, n) BY <1>1 DEF LogInv, QuestionsOK
<1>3. PICK t, h : t = talk[c] /\ h = n - 1 OBVIOUS
<1>4. t \in Seq(Turns) /\ n \in Nat /\ DOMAIN t = 1 .. n BY <1>1, <1>3, TalkOf
<1>5. n \in 1 .. n /\ h \in 0 .. n /\ h \in Nat BY <1>2, <1>3, <1>4 DEF Asks
<1>6. n \in UserIndices(t) /\ UserIndices(t) \subseteq 1 .. n
  BY <1>2, <1>3, <1>4 DEF Asks, UserIndices
<1>7. LastUser(t) = n
  <2>1. PICK S : S = UserIndices(t) OBVIOUS
  <2>2. S \in SUBSET (0 .. n) /\ S # {} BY <1>4, <1>6, <2>1
  <2>3. Max(S) \in S /\ \A x \in S : x <= Max(S) BY <1>4, <2>2, GreatestOfSome
  <2>4. Max(S) = n BY <1>4, <1>6, <2>1, <2>3
  <2> QED BY <2>1, <2>4 DEF LastUser
<1>8. Earlier(t) = Beginning(t, h)
  <2>1. Earlier(t) = RemoveAt(t, n) BY <1>6, <1>7 DEF Earlier
  <2>2. RemoveAt(t, n) = SubSeq(t, 1, n - 1) \o SubSeq(t, n + 1, Len(t)) BY DEF RemoveAt
  <2>3. SubSeq(t, n + 1, Len(t)) = << >> BY <1>3, <1>4, SubSeqEmpty
  <2>4. PICK f : f = SubSeq(t, 1, n - 1) OBVIOUS
  <2>5. f = Beginning(t, h) BY <1>3, <2>4 DEF Beginning
  <2>6. f \in Seq(Turns) BY <1>3, <1>4, <1>5, <2>5, BeginningOf
  <2>7. f \o << >> = f BY <2>6
  <2> QED BY <2>1, <2>2, <2>3, <2>4, <2>5, <2>7
<1> QED BY <1>1, <1>2, <1>3, <1>7, <1>8 DEF History, SaidBefore, Asks

(* A conversation in which no answer arrives hears no more than before.     *)
LEMMA HeardBefore ==
    ASSUME LogInv, NEW c \in Convs, NEW j \in DOMAIN talk'[c], Asks(c, j)', Heard(c, j)',
           \/ talk'[c] = talk[c]
           \/ \E x \in Turns : talk'[c] = Append(talk[c], x) /\ x.role # "assistant"
           \/ \E x \in Turns : talk'[c] = Append(talk[c], x) /\ j # Len(talk[c])
    PROVE  j \in DOMAIN talk[c] /\ Asks(c, j) /\ Heard(c, j) /\ talk'[c][j] = talk[c][j]
<1>1. PICK t, n, k : t = talk[c] /\ n = Len(talk[c]) /\ k = j + 1 OBVIOUS
<1>2. t \in Seq(Turns) /\ n \in Nat /\ DOMAIN t = 1 .. n BY <1>1, TalkOf DEF LogInv
<1>3. CASE talk'[c] = t BY <1>1, <1>3 DEF Asks, Heard
<1>4. ASSUME NEW x \in Turns, talk'[c] = Append(t, x), x.role # "assistant" \/ j # n
      PROVE  j \in DOMAIN t /\ Asks(c, j) /\ Heard(c, j) /\ talk'[c][j] = t[j]
  <2>1. PICK u : u = Append(t, x) OBVIOUS
  <2>2. DOMAIN u = 1 .. n + 1 /\ u[n + 1] = x /\ \A i \in 1 .. n : u[i] = t[i]
    BY <1>1, <1>2, <2>1
  <2>3. /\ j \in DOMAIN u /\ u[j].role = "user"
        /\ k \in DOMAIN u /\ u[k].role = "assistant"
    BY <1>1, <1>4, <2>1 DEF Asks, Heard
  <2>4. k # n + 1
    <3>1. SUFFICES ASSUME k = n + 1 PROVE FALSE OBVIOUS
    <3>2. j = n BY <1>1, <1>2, <2>2, <2>3, <3>1
    <3>3. x.role = "assistant" BY <2>2, <2>3, <3>1
    <3> QED BY <1>4, <3>2, <3>3
  <2>5. j \in 1 .. n /\ k \in 1 .. n BY <1>1, <1>2, <2>2, <2>3, <2>4
  <2> QED BY <1>1, <1>2, <1>4, <2>1, <2>2, <2>3, <2>5 DEF Asks, Heard
<1> QED BY <1>1, <1>3, <1>4

LEMMA LogAskKeeps ==
    ASSUME LogInv, NEW c \in Convs, NEW text \in Texts, Ask(c, text)
    PROVE  LogInv'
<1>1. LogTypeOK /\ QuestionsOK BY DEF LogInv
<1>2. PICK r, x, t, n : /\ r = RunsSoFar /\ x = UserTurn(r + 1, text)
                        /\ t = talk[c] /\ n = Len(t)
  OBVIOUS
<1>3. t \in Seq(Turns) /\ n \in Nat /\ DOMAIN t = 1 .. n /\ \A i \in 1 .. n : t[i] \in Turns
  BY <1>1, <1>2, TalkOf
<1>4. r \in 0..MaxRuns /\ \A j \in DOMAIN t : Asks(c, j) => t[j].run <= r
  BY <1>1, <1>2, RunsAreBounded
<1>5. r + 1 \in 1..MaxRuns BY <1>2, <1>4, LogAssumption DEF Ask
<1>6. x \in Turns /\ x.role = "user" /\ x.run = r + 1 /\ x.text = text
  BY <1>2, <1>5 DEF UserTurn, Turns
<1>7. /\ UNCHANGED <<rows, saves, latest, said, disturbed, clock, losses>>
      /\ waiting' = waiting \cup {c} /\ c \notin waiting
  BY DEF Ask, log
<1>8. PICK u : u = Append(t, x) OBVIOUS
<1>9. talk' = [talk EXCEPT ![c] = u] BY <1>2, <1>8 DEF Ask
<1>10. talk'[c] = u /\ \A d \in Convs \ {c} : talk'[d] = talk[d] BY <1>1, <1>9 DEF LogTypeOK
<1>11. u \in Seq(Turns) /\ DOMAIN u = 1 .. n + 1 /\ Len(u) = n + 1 /\ u[n + 1] = x
       /\ \A i \in 1 .. n : u[i] = t[i]
  BY <1>2, <1>3, <1>6, <1>8
<1>12. \A d \in Convs : Continues(d)
  <2> TAKE d \in Convs
  <2>1. CASE d = c
    <3>1. talk'[c] = Append(talk[c], x) /\ x.role # "assistant" BY <1>2, <1>6, <1>8, <1>10
    <3> QED BY <1>6, <1>7, <2>1, <3>1 DEF Continues
  <2>2. CASE d # c BY <1>7, <1>10, <2>2 DEF Continues
  <2> QED BY <2>1, <2>2
<1>13. LogTypeOK'
  <2>1. talk' \in [Convs -> Seq(Turns)] BY <1>1, <1>9, <1>11 DEF LogTypeOK
  <2>2. waiting' \subseteq Convs BY <1>1, <1>7 DEF LogTypeOK
  <2> QED BY <1>1, <1>7, <2>1, <2>2 DEF LogTypeOK
<1>14. QuestionsOK'
  <2>1. SUFFICES ASSUME NEW d \in Convs
                 PROVE  /\ \A j \in DOMAIN talk'[d] : Asks(d, j)' =>
                              talk'[d][j].run \in 1..MaxRuns /\ talk'[d][j].text \in Texts
                        /\ \A i, j \in DOMAIN talk'[d] : Asks(d, i)' /\ Asks(d, j)' /\ i < j
                              => talk'[d][i].run < talk'[d][j].run
                        /\ d \in waiting' => Asks(d, Len(talk[d]))'
    BY DEF QuestionsOK
  <2>2. CASE d # c BY <1>1, <1>7, <1>10, <2>2 DEF QuestionsOK, Asks
  <2>3. CASE d = c
    <3>1. \A j \in 1 .. n : Asks(c, j)' <=> Asks(c, j)
      BY <1>2, <1>3, <1>10, <1>11 DEF Asks
    <3>2. \A j \in 1 .. n : Asks(c, j)' =>
             t[j].run \in 1..MaxRuns /\ t[j].text \in Texts /\ t[j].run <= r
      BY <1>1, <1>2, <1>3, <1>4, <3>1 DEF QuestionsOK
    <3>3. ASSUME NEW j \in DOMAIN u, Asks(c, j)'
          PROVE  u[j].run \in 1..MaxRuns /\ u[j].text \in Texts
      <4>1. CASE j \in 1 .. n BY <1>11, <3>2, <3>3, <4>1
      <4>2. CASE j = n + 1 BY <1>5, <1>6, <1>11, <4>2
      <4> QED BY <1>3, <1>11, <4>1, <4>2
    <3>4. ASSUME NEW i \in DOMAIN u, NEW j \in DOMAIN u, Asks(c, i)', Asks(c, j)', i < j
          PROVE  u[i].run < u[j].run
      <4>1. CASE j \in 1 .. n
        <5>1. i \in 1 .. n BY <1>3, <1>11, <3>4, <4>1
        <5>2. Asks(c, i) /\ Asks(c, j) BY <3>1, <3>4, <4>1, <5>1
        <5>3. t[i].run < t[j].run BY <1>1, <1>2, <1>3, <3>4, <4>1, <5>1, <5>2 DEF QuestionsOK
        <5> QED BY <1>11, <4>1, <5>1, <5>3
      <4>2. CASE j = n + 1
        <5>1. i \in 1 .. n BY <1>3, <1>11, <3>4, <4>2
        <5>2. u[i].run \in 1..MaxRuns /\ u[i].run <= r BY <1>11, <3>2, <3>4, <5>1
        <5> QED BY <1>4, <1>5, <1>6, <1>11, <4>2, <5>2
      <4> QED BY <1>3, <1>11, <4>1, <4>2
    <3>5. Asks(c, Len(talk[c]))'
      <4>1. Asks(c, n + 1)' BY <1>3, <1>6, <1>10, <1>11 DEF Asks
      <4> QED BY <1>10, <1>11, <4>1
    <3> QED BY <1>10, <2>3, <3>3, <3>4, <3>5
  <2> QED BY <2>2, <2>3
<1>15. SavesOK' /\ LatestKept'
  <2>1. LatestKept' /\ \A s \in saves : \E j \in DOMAIN talk'[s.conversation] :
           Tells(Saved(s), s.conversation, j)' /\ talk'[s.conversation][j].run = s.run
    BY <1>7, <1>12, LogUntouched
  <2> QED BY <1>7, <2>1 DEF SavesOK
<1>16. HeardSaved'
  <2>1. SUFFICES ASSUME NEW d \in Convs \ disturbed, NEW j \in DOMAIN talk'[d],
                        Asks(d, j)', Heard(d, j)'
                 PROVE  \/ talk'[d][j].run <= latest[d]
                        \/ \E s \in saves : s.conversation = d /\ s.run = talk'[d][j].run
    BY <1>7 DEF HeardSaved
  <2>2. \/ talk'[d] = talk[d]
        \/ \E y \in Turns : talk'[d] = Append(talk[d], y) /\ y.role # "assistant"
    BY <1>2, <1>6, <1>8, <1>10
  <2>3. j \in DOMAIN talk[d] /\ Asks(d, j) /\ Heard(d, j) /\ talk'[d][j] = talk[d][j]
    BY <2>1, <2>2, HeardBefore
  <2> QED BY <2>3 DEF LogInv, HeardSaved
<1> QED BY <1>13, <1>14, <1>15, <1>16 DEF LogInv

(* The task of a question that was answered tells it.                       *)
LEMMA TaskTells ==
    ASSUME LogInv, NEW c \in waiting, NEW reply \in Answers, NEW n, n = Len(talk[c])
    PROVE  LET s == Task(c, reply) IN
           /\ s \in Tasks /\ s.conversation = c /\ s.run = talk[c][n].run
           /\ Saved(s) = SaidBefore(c, n) \o << <<"user", talk[c][n].text>>, <<"assistant", reply>> >>
<1>1. /\ c \in Convs /\ n \in DOMAIN talk[c] /\ Asks(c, n) /\ LastUser(talk[c]) = n
      /\ History(talk[c]) = SaidBefore(c, n)
  BY LastAsked
<1>2. LogTypeOK BY DEF LogInv
<1>3. PICK q, h : q = talk[c][n] /\ h = SaidBefore(c, n) OBVIOUS
<1>4. h \in Seq(Messages) BY <1>1, <1>2, <1>3, SaidBeforeTyped
<1>5. q.run \in 1..MaxRuns /\ q.text \in Texts BY <1>1, <1>3 DEF LogInv, QuestionsOK
<1>6. PICK s : s = Task(c, reply) OBVIOUS
<1>7. s = [conversation |-> c, run |-> q.run, history |-> h, text |-> q.text, answer |-> reply]
  BY <1>1, <1>3, <1>6 DEF Task
<1>8. s \in Tasks BY <1>1, <1>4, <1>5, <1>7 DEF Tasks
<1>9. Saved(s) = h \o << <<"user", q.text>>, <<"assistant", reply>> >> BY <1>7 DEF Saved
<1>10. s.conversation = c /\ s.run = q.run BY <1>7
<1>11. /\ s \in Tasks /\ s.conversation = c /\ s.run = talk[c][n].run
       /\ Saved(s) = SaidBefore(c, n) \o << <<"user", talk[c][n].text>>, <<"assistant", reply>> >>
  BY <1>3, <1>8, <1>9, <1>10
<1> HIDE DEF Task
<1> QED BY <1>6, <1>11

LEMMA LogAnswerKeeps ==
    ASSUME LogInv, NEW c \in Convs, NEW reply \in Answers, NEW arrives \in BOOLEAN,
           Answer(c, reply, arrives)
    PROVE  LogInv'
<1>1. LogTypeOK /\ QuestionsOK BY DEF LogInv
<1>2. PICK t, n, x, s : /\ t = talk[c] /\ n = Len(t) /\ x = AnswerTurn(reply)
                        /\ s = Task(c, reply)
  OBVIOUS
<1>3. t \in Seq(Turns) /\ n \in Nat /\ DOMAIN t = 1 .. n /\ \A i \in 1 .. n : t[i] \in Turns
  BY <1>1, <1>2, TalkOf
<1>4. c \in waiting /\ waiting' = waiting \ {c} BY DEF Answer
<1>5. n \in DOMAIN t /\ Asks(c, n) BY <1>2, <1>4, LastAsked
<1>6. PICK messages : messages = Saved(s) OBVIOUS
<1>7. /\ s \in Tasks /\ s.conversation = c /\ s.run = t[n].run
      /\ messages = SaidBefore(c, n) \o << <<"user", t[n].text>>, <<"assistant", reply>> >>
  BY <1>2, <1>4, <1>6, TaskTells, SMTT(30)
<1>8. saves' = saves \cup {s} /\ UNCHANGED <<rows, latest, disturbed, clock>>
  BY <1>2 DEF Answer
<1>9. PICK q : q = Placed(messages) OBVIOUS
<1>10. said' = [said EXCEPT ![c] = @ \cup q] BY <1>2, <1>6, <1>9 DEF Answer
<1>11. x \in Turns /\ x.role = "assistant" /\ x.text = reply BY <1>2 DEF AnswerTurn, Turns
<1>12. PICK u : u = IF arrives THEN Append(t, x) ELSE t OBVIOUS
<1>13. talk' = [talk EXCEPT ![c] = u] 
  <2>1. CASE arrives BY <1>2, <1>12, <2>1 DEF Answer
  <2>2. CASE ~ arrives
    <3>1. talk' = talk BY <2>2 DEF Answer
    <3>2. talk \in [Convs -> Seq(Turns)] BY <1>1 DEF LogTypeOK
    <3> QED BY <1>2, <1>12, <2>2, <3>1, <3>2
  <2> QED BY <2>1, <2>2
<1>14. talk'[c] = u /\ \A d \in Convs \ {c} : talk'[d] = talk[d]
  BY <1>1, <1>13 DEF LogTypeOK
<1>15. u \in Seq(Turns) /\ \A i \in 1 .. n : i \in DOMAIN u /\ u[i] = t[i]
  BY <1>3, <1>11, <1>12
<1>16. \A d \in Convs : said[d] \subseteq said'[d]
  <2>1. \A d \in Convs : said'[d] = IF d = c THEN said[c] \cup q ELSE said[d]
    BY <1>1, <1>10 DEF LogTypeOK
  <2> QED BY <2>1
<1>17. \A d \in Convs : Continues(d)
  <2> TAKE d \in Convs
  <2>1. CASE d = c
    <3>1. c \notin waiting' BY <1>4
    <3>2. u = t \/ u = Append(t, x) BY <1>12
    <3> QED BY <1>2, <1>4, <1>11, <1>14, <1>16, <2>1, <3>1, <3>2 DEF Continues
  <2>2. CASE d # c BY <1>4, <1>14, <1>16, <2>2 DEF Continues
  <2> QED BY <2>1, <2>2
<1>18. LogTypeOK'
  <2>1. talk' \in [Convs -> Seq(Turns)] BY <1>1, <1>13, <1>15 DEF LogTypeOK
  <2>2. waiting' \subseteq Convs /\ saves' \subseteq Tasks BY <1>1, <1>4, <1>7, <1>8 DEF LogTypeOK
  <2>3. losses' \in 0..MaxLosses
    <3>1. losses \in 0..MaxLosses BY <1>1 DEF LogTypeOK
    <3>2. losses' = losses \/ (losses < MaxLosses /\ losses' = losses + 1) BY DEF Answer, Lose
    <3> QED BY <3>1, <3>2, LogAssumption
  <2>4. q \subseteq Nat \X Messages
    <3>1. SaidBefore(c, n) \in Seq(Messages) BY <1>1, <1>2, <1>5, SaidBeforeTyped
    <3>2. <<"user", t[n].text>> \in Messages /\ <<"assistant", reply>> \in Messages
      BY <1>1, <1>2, <1>5 DEF QuestionsOK, Messages
    <3>3. messages \in Seq(Messages) BY <1>7, <3>1, <3>2, TwoMore
    <3> QED BY <1>9, <3>3 DEF Placed
  <2>5. said' \in [Convs -> SUBSET (Nat \X Messages)] BY <1>1, <1>10, <2>4 DEF LogTypeOK
  <2> QED BY <1>1, <1>8, <2>1, <2>2, <2>3, <2>5 DEF LogTypeOK
<1>19. QuestionsOK'
  <2>1. SUFFICES ASSUME NEW d \in Convs
                 PROVE  /\ \A j \in DOMAIN talk'[d] : Asks(d, j)' =>
                              talk'[d][j].run \in 1..MaxRuns /\ talk'[d][j].text \in Texts
                        /\ \A i, j \in DOMAIN talk'[d] : Asks(d, i)' /\ Asks(d, j)' /\ i < j
                              => talk'[d][i].run < talk'[d][j].run
                        /\ d \in waiting' => Asks(d, Len(talk[d]))'
    BY DEF QuestionsOK
  <2>2. CASE d # c BY <1>1, <1>4, <1>14, <2>2 DEF QuestionsOK, Asks
  <2>3. CASE d = c
    <3>1. ASSUME NEW j \in DOMAIN u, Asks(c, j)'
          PROVE  j \in DOMAIN t /\ Asks(c, j) /\ u[j] = t[j]
      <4>1. CASE j \in 1 .. n BY <1>2, <1>3, <1>14, <1>15, <3>1, <4>1 DEF Asks
      <4>2. CASE j \notin 1 .. n
        <5>1. u = Append(t, x) BY <1>3, <1>12, <4>2
        <5>2. j = n + 1 /\ u[j] = x BY <1>2, <1>3, <4>2, <5>1
        <5> QED BY <1>11, <1>14, <3>1, <5>2 DEF Asks
      <4> QED BY <4>1, <4>2
    <3>2. ASSUME NEW j \in DOMAIN u, Asks(c, j)'
          PROVE  u[j].run \in 1..MaxRuns /\ u[j].text \in Texts
      BY <1>1, <1>2, <3>1, <3>2 DEF QuestionsOK
    <3>3. ASSUME NEW i \in DOMAIN u, NEW j \in DOMAIN u, Asks(c, i)', Asks(c, j)', i < j
          PROVE  u[i].run < u[j].run
      <4>1. i \in DOMAIN t /\ Asks(c, i) /\ u[i] = t[i] BY <3>1, <3>3
      <4>2. j \in DOMAIN t /\ Asks(c, j) /\ u[j] = t[j] BY <3>1, <3>3
      <4> QED BY <1>1, <1>2, <3>3, <4>1, <4>2 DEF QuestionsOK
    <3>4. c \notin waiting' BY <1>4
    <3> QED BY <1>14, <2>3, <3>2, <3>3, <3>4
  <2> QED BY <2>2, <2>3
<1>20. LatestKept' /\ \A r \in saves : \E j \in DOMAIN talk'[r.conversation] :
          Tells(Saved(r), r.conversation, j)' /\ talk'[r.conversation][j].run = r.run
  <2>1. UNCHANGED <<rows, latest, disturbed>> /\ saves \subseteq saves' BY <1>8
  <2> QED BY <1>17, <2>1, LogUntouched
<1>21. Tells(messages, c, n)' /\ n \in DOMAIN talk'[c] /\ talk'[c][n].run = s.run
  <2>1. n \in DOMAIN talk'[c] /\ talk'[c][n] = t[n] /\ SaidBefore(c, n)' = SaidBefore(c, n)
    BY <1>1, <1>2, <1>5, <1>17, TurnsStay
  <2>2. Asks(c, n)' BY <1>5, <1>2, <2>1 DEF Asks
  <2>3. c \notin waiting' BY <1>4
  <2>4. messages = SaidBefore(c, n)' \o << <<"user", talk'[c][n].text>>, <<"assistant", reply>> >>
    BY <1>7, <2>1
  <2>5. Heard(c, n)' => reply = talk'[c][n + 1].text
    <3>1. SUFFICES ASSUME Heard(c, n)' PROVE reply = u[n + 1].text BY <1>14
    <3>2. n + 1 \in DOMAIN u BY <1>14, <3>1 DEF Heard
    <3>3. u = Append(t, x) BY <1>3, <1>12, <3>2
    <3>4. u[n + 1] = x BY <1>2, <1>3, <3>3
    <3> QED BY <1>11, <3>4
  <2>6. Placed(messages) \subseteq said'[c] BY <1>1, <1>9, <1>10 DEF LogTypeOK
  <2>7. Tells(messages, c, n)' BY <2>2, <2>3, <2>4, <2>5, <2>6 DEF Tells, TextsAndAnswers
  <2> QED BY <1>7, <2>1, <2>7
<1>22. SavesOK'
  <2>1. SUFFICES ASSUME NEW r \in saves \cup {s}
                 PROVE  \E j \in DOMAIN talk'[r.conversation] :
                           Tells(Saved(r), r.conversation, j)' /\ talk'[r.conversation][j].run = r.run
    BY <1>8 DEF SavesOK
  <2>2. CASE r \in saves BY <1>20, <2>2
  <2>3. CASE r = s BY <1>6, <1>7, <1>21, <2>3
  <2> QED BY <2>1, <2>2, <2>3
<1>23. HeardSaved'
  <2>1. SUFFICES ASSUME NEW d \in Convs \ disturbed, NEW j \in DOMAIN talk'[d],
                        Asks(d, j)', Heard(d, j)'
                 PROVE  \/ talk'[d][j].run <= latest[d]
                        \/ \E r \in saves' : r.conversation = d /\ r.run = talk'[d][j].run
    BY <1>8 DEF HeardSaved
  <2>2. CASE d = c /\ j = n BY <1>7, <1>8, <1>21, <2>2
  <2>3. CASE ~ (d = c /\ j = n)
    <3>1. \/ talk'[d] = talk[d]
          \/ \E y \in Turns : talk'[d] = Append(talk[d], y) /\ j # Len(talk[d])
      BY <1>2, <1>11, <1>12, <1>14, <2>3
    <3>2. j \in DOMAIN talk[d] /\ Asks(d, j) /\ Heard(d, j) /\ talk'[d][j] = talk[d][j]
      BY <2>1, <3>1, HeardBefore
    <3> QED BY <1>8, <3>2 DEF LogInv, HeardSaved
  <2> QED BY <2>2, <2>3
<1> QED BY <1>18, <1>19, <1>20, <1>22, <1>23 DEF LogInv

-----------------------------------------------------------------------------
(* Steps in which nothing is asked or answered.                             *)
LEMMA NothingIsSaid ==
    ASSUME LogInv, UNCHANGED <<talk, said>>, waiting' \subseteq waiting
    PROVE  QuestionsOK' /\ \A c \in Convs : Continues(c)
<1>1. talk' = talk /\ said' = said OBVIOUS
<1>2. \A c \in Convs : Continues(c) BY <1>1 DEF Continues
<1>3. QuestionsOK' BY <1>1 DEF LogInv, QuestionsOK, Asks
<1> QED BY <1>2, <1>3

LEMMA LossesAreCounted ==
    ASSUME LogTypeOK, UNCHANGED losses \/ Lose
    PROVE  losses' \in 0..MaxLosses
<1>1. losses \in 0..MaxLosses BY DEF LogTypeOK
<1> QED BY <1>1, LogAssumption DEF Lose

LEMMA HeardStays ==
    ASSUME LogInv, UNCHANGED <<talk, latest>>, saves \subseteq saves', disturbed \subseteq disturbed'
    PROVE  HeardSaved'
<1>1. talk' = talk /\ latest' = latest OBVIOUS
<1> QED BY <1>1 DEF LogInv, HeardSaved, Asks, Heard

LEMMA LogGiveUpKeeps ==
    ASSUME LogInv, NEW c \in Convs, GiveUp(c)
    PROVE  LogInv'
<1>1. LogTypeOK BY DEF LogInv
<1>2. /\ talk' = talk /\ rows' = rows /\ saves' = saves /\ latest' = latest
      /\ said' = said /\ disturbed' = disturbed /\ clock' = clock
      /\ waiting' = waiting \ {c}
  BY DEF GiveUp, log
<1>3. QuestionsOK' /\ \A d \in Convs : Continues(d) BY <1>2, NothingIsSaid
<1>4. LogTypeOK'
  <2>1. losses' \in 0..MaxLosses BY <1>1, LossesAreCounted DEF GiveUp
  <2> QED BY <1>1, <1>2, <2>1 DEF LogTypeOK
<1>5. LatestKept' /\ SavesOK'
  <2>1. UNCHANGED <<rows, latest, disturbed>> /\ saves \subseteq saves' BY <1>2
  <2>2. LatestKept' /\ \A s \in saves : \E j \in DOMAIN talk'[s.conversation] :
           Tells(Saved(s), s.conversation, j)' /\ talk'[s.conversation][j].run = s.run
    BY <1>3, <2>1, LogUntouched
  <2> QED BY <1>2, <2>2 DEF SavesOK
<1>6. HeardSaved' BY <1>2, HeardStays
<1> QED BY <1>3, <1>4, <1>5, <1>6 DEF LogInv

LEMMA LogTickKeeps == ASSUME LogInv, LogTick PROVE LogInv'
<1>1. LogTypeOK BY DEF LogInv
<1>2. /\ talk' = talk /\ rows' = rows /\ saves' = saves /\ latest' = latest
      /\ said' = said /\ disturbed' = disturbed /\ losses' = losses /\ waiting' = waiting
      /\ clock < MaxLogTime /\ clock' = clock + 1
  BY DEF LogTick, log, logDevice
<1>3. QuestionsOK' /\ \A d \in Convs : Continues(d) BY <1>2, NothingIsSaid
<1>4. LogTypeOK'
  <2>1. clock' \in 0..MaxLogTime BY <1>1, <1>2, LogAssumption DEF LogTypeOK
  <2>2. rows' \in Seq([created : 0..clock', messages : Seq(Messages)])
    <3>1. PICK l : l = Len(rows) OBVIOUS
    <3>2. l \in Nat /\ DOMAIN rows = 1 .. l BY <1>1, <3>1 DEF LogTypeOK
    <3>3. PICK R, Q : /\ R = [created : 0..clock, messages : Seq(Messages)]
                      /\ Q = [created : 0..(clock'), messages : Seq(Messages)]
      OBVIOUS
    <3>4. R \subseteq Q
      <4>1. 0..clock \subseteq 0..(clock') BY <1>1, <1>2 DEF LogTypeOK
      <4> QED BY <3>3, <4>1
    <3>5. rows \in Seq(R) BY <1>1, <3>3 DEF LogTypeOK
    <3>6. rows \in Seq(Q) BY <3>4, <3>5
    <3> QED BY <1>2, <3>3, <3>6
  <2> QED BY <1>1, <1>2, <2>1, <2>2 DEF LogTypeOK
<1>5. LatestKept' /\ SavesOK'
  <2>1. UNCHANGED <<rows, latest, disturbed>> /\ saves \subseteq saves' BY <1>2
  <2>2. LatestKept' /\ \A s \in saves : \E j \in DOMAIN talk'[s.conversation] :
           Tells(Saved(s), s.conversation, j)' /\ talk'[s.conversation][j].run = s.run
    BY <1>3, <2>1, LogUntouched
  <2> QED BY <1>2, <2>2 DEF SavesOK
<1>6. HeardSaved' BY <1>2, HeardStays
<1> QED BY <1>3, <1>4, <1>5, <1>6 DEF LogInv

LEMMA SaveFailsKeeps ==
    ASSUME LogInv, NEW s \in saves, SaveFails(s)
    PROVE  LogInv'
<1>1. LogTypeOK BY DEF LogInv
<1>2. /\ talk' = talk /\ rows' = rows /\ latest' = latest /\ waiting' = waiting
      /\ said' = said /\ clock' = clock /\ saves' = saves \ {s}
      /\ disturbed' = disturbed \cup {s.conversation}
  BY DEF SaveFails, logDevice
<1>3. QuestionsOK' /\ \A d \in Convs : Continues(d) BY <1>2, NothingIsSaid
<1>4. LogTypeOK'
  <2>1. losses' \in 0..MaxLosses BY <1>1, LossesAreCounted DEF SaveFails
  <2>2. s.conversation \in Convs BY <1>1 DEF LogTypeOK, Tasks
  <2>3. disturbed' \subseteq Convs /\ saves' \subseteq Tasks BY <1>1, <1>2, <2>2 DEF LogTypeOK
  <2> QED BY <1>1, <1>2, <2>1, <2>3 DEF LogTypeOK
<1>5. SavesOK'
  <2>1. \A r \in saves : \E j \in DOMAIN talk'[r.conversation] :
           Tells(Saved(r), r.conversation, j)' /\ talk'[r.conversation][j].run = r.run
    BY <1>3, SavesStay
  <2> QED BY <1>2, <2>1 DEF SavesOK
<1>6. LatestKept'
  <2>1. SUFFICES ASSUME NEW c \in Convs \ disturbed, Apart(c)', latest[c] > 0
                 PROVE  \E k \in DOMAIN rows : \E j \in DOMAIN talk'[c] :
                           Tells(rows[k].messages, c, j)' /\ talk'[c][j].run = latest[c]
    BY <1>2 DEF LatestKept
  <2>2. PICK n : n = latest[c] OBVIOUS
  <2>3. PICK k \in DOMAIN rows, j \in DOMAIN talk'[c] : \E messages :
           messages = rows[k].messages /\ Tells(messages, c, j)' /\ talk'[c][j].run = n
    BY <1>3, <2>1, <2>2, LatestStays
  <2>4. PICK messages : messages = rows[k].messages /\ Tells(messages, c, j)' BY <2>3
  <2>5. Tells(rows[k].messages, c, j)' BY <1>2, <2>4
  <2> QED BY <2>2, <2>3, <2>5
<1>7. HeardSaved'
  <2>1. SUFFICES ASSUME NEW c \in Convs \ disturbed', NEW j \in DOMAIN talk[c],
                        Asks(c, j), Heard(c, j)
                 PROVE  \/ talk[c][j].run <= latest[c]
                        \/ \E r \in saves' : r.conversation = c /\ r.run = talk[c][j].run
    BY <1>2 DEF HeardSaved, Asks, Heard
  <2>2. c \in Convs \ disturbed /\ c # s.conversation BY <1>2
  <2>3. CASE talk[c][j].run <= latest[c] BY <2>3
  <2>4. CASE \E r \in saves : r.conversation = c /\ r.run = talk[c][j].run BY <1>2, <2>2, <2>4
  <2> QED BY <2>1, <2>2, <2>3, <2>4 DEF LogInv, HeardSaved
<1> QED BY <1>3, <1>4, <1>5, <1>6, <1>7 DEF LogInv

LEMMA LeastOfSome ==
    ASSUME NEW S \in SUBSET Nat, S # {}
    PROVE  Min(S) \in S
<1>1. PICK m \in S : \A x \in S : ~ (<<x, m>> \in NatLess) BY NatLessWF, WFMin
<1>2. \A x \in S : m <= x
  <2> TAKE x \in S
  <2>1. ~ (x < m) BY <1>1 DEF NatLess
  <2> QED BY <2>1
<1>3. PICK g : g = Min(S) OBVIOUS
<1>4. g \in S BY <1>2, <1>3 DEF Min
<1> QED BY <1>3, <1>4

(* The place of the previous message is where the history has it.           *)
LEMMA PreviousIsSaid ==
    ASSUME NEW h \in Seq(Messages), NEW p \in Previous(h)
    PROVE  p.seq \in DOMAIN h /\ h[p.seq] = p.message
<1>1. PICK n, S, last, T : /\ n = Len(h) /\ S = {i \in DOMAIN h : h[i][1] # "system"}
                           /\ last = h[Max(S)] /\ T = {i \in DOMAIN h : h[i] = last}
  OBVIOUS
<1>2. n \in Nat /\ DOMAIN h = 1 .. n BY <1>1
<1>3. S # {} /\ p = [message |-> last, seq |-> Min(T)] BY <1>1 DEF Previous
<1>4. Max(S) \in S
  <2>1. S \in SUBSET (0 .. n) BY <1>1, <1>2
  <2> QED BY <1>2, <1>3, <2>1, GreatestOfSome
<1>5. Max(S) \in T BY <1>1, <1>4
<1>6. T \in SUBSET Nat BY <1>1, <1>2
<1>7. PICK g : g = Min(T) OBVIOUS
<1>8. g \in T BY <1>5, <1>6, <1>7, LeastOfSome
<1>9. p.seq = g /\ p.message = last BY <1>3, <1>7
<1> QED BY <1>1, <1>8, <1>9

LEMMA SavedIsMessages ==
    ASSUME NEW s \in Tasks, NEW m, m = Saved(s)
    PROVE  /\ m \in Seq(Messages) /\ Len(m) >= 2
           /\ \A i \in DOMAIN s.history : i \in DOMAIN m /\ m[i] = s.history[i]
<1>1. PICK h, x, y : h = s.history /\ x = <<"user", s.text>> /\ y = <<"assistant", s.answer>>
  OBVIOUS
<1>2. h \in Seq(Messages) /\ x \in Messages /\ y \in Messages BY <1>1 DEF Tasks, Messages
<1>3. m = h \o <<x, y>> BY <1>1 DEF Saved
<1>4. PICK l : l = Len(h) OBVIOUS
<1>5. l \in Nat /\ DOMAIN h = 1 .. l BY <1>2, <1>4
<1>6. m \in Seq(Messages) /\ Len(m) = l + 2 /\ \A i \in 1 .. l : m[i] = h[i]
  BY <1>2, <1>3, <1>4, TwoMore
<1>7. Len(m) >= 2 BY <1>5, <1>6
<1>8. ASSUME NEW i \in DOMAIN h PROVE i \in DOMAIN m /\ m[i] = h[i]
  <2>1. i \in 1 .. l /\ i \in 1 .. Len(m) BY <1>5, <1>6
  <2> QED BY <1>6, <2>1
<1> QED BY <1>1, <1>6, <1>7, <1>8

LogRows == [created : 0..clock, messages : Seq(Messages)]

(* The save writes one row, and rewrites only a row that holds the previous *)
(* message at its place.                                                    *)
LEMMA RowsAfterSave ==
    ASSUME LogInv, NEW s \in saves, Save(s), NEW m, m = Saved(s)
    PROVE  /\ rows' \in Seq(LogRows) /\ \A k \in DOMAIN rows' : Len(rows'[k].messages) >= 2
           /\ \E k \in DOMAIN rows' :
                 /\ rows'[k].messages = m
                 /\ \A i \in DOMAIN rows :
                       i \in DOMAIN rows' /\ \/ rows'[i] = rows[i]
                                             \/ \E p \in Previous(s.history) : Holds(rows[i], p)
<1>1. LogTypeOK BY DEF LogInv
<1>2. s \in Tasks BY <1>1 DEF LogTypeOK
<1>3. m \in Seq(Messages) /\ Len(m) >= 2 BY <1>2, SavedIsMessages
<1>4. PICK l : l = Len(rows) OBVIOUS
<1>5. /\ rows \in Seq(LogRows) /\ l \in Nat /\ DOMAIN rows = 1 .. l
      /\ \A k \in 1 .. l : rows[k] \in LogRows /\ Len(rows[k].messages) >= 2
  <2>1. PICK R : R = [created : 0..clock, messages : Seq(Messages)] OBVIOUS
  <2>2. rows \in Seq(R) BY <1>1, <2>1 DEF LogTypeOK
  <2>3. rows \in Seq(LogRows) BY <2>1, <2>2 DEF LogRows
  <2>4. l \in Nat /\ DOMAIN rows = 1 .. l /\ \A k \in 1 .. l : rows[k] \in R BY <1>4, <2>2
  <2>5. \A k \in 1 .. l : Len(rows[k].messages) >= 2 BY <1>1, <2>4 DEF LogTypeOK
  <2>6. R = LogRows BY <2>1 DEF LogRows
  <2> QED BY <2>3, <2>4, <2>5, <2>6
<1>6. clock \in Nat BY <1>1 DEF LogTypeOK
<1>7. CASE rows' = Inserted(rows, s, clock)
  <2>1. PICK r, u : r = [created |-> clock, messages |-> m] /\ u = Append(rows, r) OBVIOUS
  <2>2. r \in LogRows /\ r.messages = m BY <1>3, <1>6, <2>1 DEF LogRows
  <2>3. u \in Seq(LogRows) /\ DOMAIN u = 1 .. l + 1 /\ u[l + 1] = r
        /\ \A k \in 1 .. l : u[k] = rows[k]
    BY <1>4, <1>5, <2>1, <2>2
  <2>4. rows' = u BY <1>7, <2>1 DEF Inserted
  <2>5. \A k \in DOMAIN u : Len(u[k].messages) >= 2
    <3> TAKE k \in DOMAIN u
    <3>1. k \in 1 .. l \/ k = l + 1 BY <1>5, <2>3
    <3> QED BY <1>3, <1>5, <2>2, <2>3, <3>1
  <2>6. l + 1 \in DOMAIN u /\ u[l + 1].messages = m BY <1>5, <2>2, <2>3
  <2>7. \A i \in DOMAIN rows : i \in DOMAIN u /\ u[i] = rows[i] BY <1>5, <2>3
  <2> QED BY <2>3, <2>4, <2>5, <2>6, <2>7
<1>8. ASSUME NEW i \in Candidates(rows, s, clock - Recent), rows' = Merged(rows, s, i)
      PROVE  /\ rows' \in Seq(LogRows) /\ \A k \in DOMAIN rows' : Len(rows'[k].messages) >= 2
             /\ i \in DOMAIN rows' /\ rows'[i].messages = m
             /\ \A k \in DOMAIN rows :
                   k \in DOMAIN rows' /\ \/ rows'[k] = rows[k]
                                         \/ \E p \in Previous(s.history) : Holds(rows[k], p)
  <2>1. i \in DOMAIN rows /\ \E p \in Previous(s.history) : Holds(rows[i], p)
    BY DEF Candidates
  <2>2. PICK r, u : r = [rows[i] EXCEPT !.messages = m] /\ u = [rows EXCEPT ![i] = r] OBVIOUS
  <2>3. r \in LogRows /\ r.messages = m BY <1>3, <1>5, <2>1, <2>2 DEF LogRows
  <2>4. rows' = u BY <1>8, <2>2 DEF Merged
  <2>5. DOMAIN u = 1 .. l /\ \A k \in 1 .. l : u[k] = IF k = i THEN r ELSE rows[k] BY <1>5, <2>2
  <2>6. u \in Seq(LogRows)
    <3>1. \A k \in 1 .. l : u[k] \in LogRows BY <1>5, <2>3, <2>5
    <3>2. u = [k \in 1 .. l |-> u[k]] BY <1>5, <2>2
    <3> QED BY <1>5, <3>1, <3>2
  <2>7. \A k \in DOMAIN u : Len(u[k].messages) >= 2 BY <1>3, <1>5, <2>3, <2>5
  <2> QED BY <1>5, <2>1, <2>3, <2>4, <2>5, <2>6, <2>7
<1>9. \/ rows' = Inserted(rows, s, clock)
      \/ \E i \in Candidates(rows, s, clock - Recent) : rows' = Merged(rows, s, i)
  BY DEF Save
<1>10. CASE \E i \in Candidates(rows, s, clock - Recent) : rows' = Merged(rows, s, i) BY <1>8, <1>10
<1> QED BY <1>7, <1>9, <1>10

LEMMA LogSaveKeeps ==
    ASSUME LogInv, NEW s \in saves, Save(s)
    PROVE  LogInv'
<1>1. LogTypeOK BY DEF LogInv
<1>2. PICK b, m, n : b = s.conversation /\ m = Saved(s) /\ n = s.run OBVIOUS
<1>3. s \in Tasks /\ b \in Convs /\ n \in 1..MaxRuns /\ s.history \in Seq(Messages)
  BY <1>1, <1>2 DEF LogTypeOK, Tasks
<1>4. /\ talk' = talk /\ waiting' = waiting /\ said' = said /\ clock' = clock
      /\ losses' = losses /\ saves' = saves \ {s}
      /\ latest' = [latest EXCEPT ![b] = Max({@, n})]
      /\ disturbed' = IF latest[b] > n THEN disturbed \cup {b} ELSE disturbed
  BY <1>2 DEF Save, Done, logDevice
<1>5. latest \in [Convs -> 0..MaxRuns] /\ MaxRuns \in Nat BY <1>1, LogAssumption DEF LogTypeOK
<1>6. PICK o : o = latest[b] OBVIOUS
<1>7. o \in Nat /\ o <= MaxRuns /\ n \in Nat /\ n <= MaxRuns BY <1>3, <1>5, <1>6
<1>8. PICK g : g = IF o <= n THEN n ELSE o OBVIOUS
<1>9. latest' = [latest EXCEPT ![b] = g]
  <2>1. Max({o, n}) = g BY <1>7, <1>8, GreaterOfTwo
  <2> QED BY <1>4, <1>6, <2>1
<1>10. g \in 0..MaxRuns /\ o <= g /\ n <= g BY <1>7, <1>8
<1>11. latest'[b] = g /\ \A d \in Convs \ {b} : latest'[d] = latest[d] BY <1>3, <1>5, <1>9
<1>12. QuestionsOK' /\ \A d \in Convs : Continues(d) BY <1>4, NothingIsSaid
<1>13. /\ rows' \in Seq(LogRows) /\ \A k \in DOMAIN rows' : Len(rows'[k].messages) >= 2
       /\ \E k \in DOMAIN rows' :
             /\ rows'[k].messages = m
             /\ \A i \in DOMAIN rows :
                   i \in DOMAIN rows' /\ \/ rows'[i] = rows[i]
                                         \/ \E p \in Previous(s.history) : Holds(rows[i], p)
  BY <1>2, RowsAfterSave
<1>14. LogTypeOK'
  <2>1. latest' \in [Convs -> 0..MaxRuns] BY <1>5, <1>9, <1>10
  <2>2. disturbed' \subseteq Convs /\ saves' \subseteq Tasks BY <1>1, <1>3, <1>4 DEF LogTypeOK
  <2>3. rows' \in Seq([created : 0..clock', messages : Seq(Messages)])
    BY <1>4, <1>13 DEF LogRows
  <2> QED BY <1>1, <1>4, <1>13, <2>1, <2>2, <2>3 DEF LogTypeOK
<1>15. \A r \in saves : \E j \in DOMAIN talk'[r.conversation] :
          Tells(Saved(r), r.conversation, j)' /\ talk'[r.conversation][j].run = r.run
  BY <1>12, SavesStay
<1>16. SavesOK' BY <1>4, <1>15 DEF SavesOK
<1>17. LatestKept'
  <2>1. SUFFICES ASSUME NEW c \in Convs \ disturbed', Apart(c)', latest'[c] > 0
                 PROVE  \E k \in DOMAIN rows' : \E j \in DOMAIN talk'[c] :
                           Tells(rows[k].messages, c, j)' /\ talk'[c][j].run = latest'[c]
    BY DEF LatestKept
  <2>2. CASE c = b
    <3>1. ~ (o > n) BY <1>4, <1>6, <2>1, <2>2
    <3>2. g = n BY <1>7, <1>8, <3>1
    <3>3. PICK k \in DOMAIN rows' : rows'[k].messages = m BY <1>13
    <3>4. PICK j \in DOMAIN talk'[b] : Tells(m, b, j)' /\ talk'[b][j].run = n
      BY <1>2, <1>15
    <3>5. Tells(rows[k].messages, b, j)' BY <3>3, <3>4
    <3> QED BY <1>11, <2>2, <3>2, <3>4, <3>5
  <2>3. CASE c # b
    <3>1. PICK q : q = latest[c] OBVIOUS
    <3>2. latest'[c] = q /\ q > 0 /\ c \in Convs \ disturbed BY <1>4, <1>11, <2>1, <2>3, <3>1
    <3>3. PICK k \in DOMAIN rows, j \in DOMAIN talk'[c] : \E messages :
             /\ messages = rows[k].messages /\ Tells(messages, c, j)
             /\ Tells(messages, c, j)' /\ talk'[c][j].run = q
      BY <1>12, <2>1, <3>1, <3>2, LatestStays
    <3>4. PICK messages : /\ messages = rows[k].messages /\ Tells(messages, c, j)
                          /\ Tells(messages, c, j)'
      BY <3>3
    <3>5. PICK i \in DOMAIN rows' : \A h \in DOMAIN rows :
             h \in DOMAIN rows' /\ \/ rows'[h] = rows[h]
                                   \/ \E p \in Previous(s.history) : Holds(rows[h], p)
      BY <1>13
    <3>6. ASSUME NEW p \in Previous(s.history), Holds(rows[k], p) PROVE FALSE
      <4>1. PICK e, v : e = p.seq /\ v = <<p.seq, p.message>> OBVIOUS
      <4>2. e \in DOMAIN messages /\ messages[e] = p.message BY <3>4, <3>6, <4>1 DEF Holds
      <4>3. v \in said[c]
        <5>1. v \in Placed(messages) BY <4>1, <4>2 DEF Placed
        <5> QED BY <3>4, <5>1 DEF Tells
      <4>4. e \in DOMAIN s.history /\ s.history[e] = p.message BY <1>3, <4>1, PreviousIsSaid
      <4>5. e \in DOMAIN m /\ m[e] = p.message BY <1>2, <1>3, <4>4, SavedIsMessages
      <4>6. v \in said[b]
        <5>1. v \in Placed(m) BY <4>1, <4>5 DEF Placed
        <5>2. Placed(m) \subseteq said[b] BY <1>1, <1>2 DEF LogInv, SavesOK, Tells
        <5> QED BY <5>1, <5>2
      <4>7. said[c] \cap said[b] = {} BY <1>3, <1>4, <2>1, <2>3 DEF Apart
      <4> QED BY <4>3, <4>6, <4>7
    <3>7. k \in DOMAIN rows' /\ rows'[k] = rows[k] BY <3>5, <3>6
    <3>8. Tells(rows[k].messages, c, j)' BY <3>4, <3>7
    <3> QED BY <3>2, <3>3, <3>7, <3>8
  <2> QED BY <2>2, <2>3
<1>18. HeardSaved'
  <2>1. SUFFICES ASSUME NEW c \in Convs \ disturbed', NEW j \in DOMAIN talk[c],
                        Asks(c, j), Heard(c, j)
                 PROVE  \/ talk[c][j].run <= latest'[c]
                        \/ \E r \in saves' : r.conversation = c /\ r.run = talk[c][j].run
    BY <1>4 DEF HeardSaved, Asks, Heard
  <2>2. PICK q : q = talk[c][j].run OBVIOUS
  <2>3. q \in Nat BY <2>1, <2>2 DEF LogInv, QuestionsOK
  <2>4. c \in Convs \ disturbed BY <1>4
  <2>5. CASE q <= latest[c]
    <3>1. CASE c = b BY <1>6, <1>7, <1>10, <1>11, <2>2, <2>3, <2>5, <3>1
    <3>2. CASE c # b BY <1>11, <2>2, <2>5, <3>2
    <3> QED BY <3>1, <3>2
  <2>6. ASSUME NEW r \in saves, r.conversation = c, r.run = q
        PROVE  q <= latest'[c] \/ r \in saves'
    BY <1>2, <1>4, <1>10, <1>11, <2>6
  <2>7. q <= latest[c] \/ \E r \in saves : r.conversation = c /\ r.run = q
    BY <2>1, <2>2, <2>4 DEF LogInv, HeardSaved
  <2> QED BY <2>2, <2>5, <2>6, <2>7
<1> QED BY <1>12, <1>14, <1>16, <1>17, <1>18 DEF LogInv

LEMMA LogNextInv == LogInv /\ [LogNext]_logVars => LogInv'
<1> SUFFICES ASSUME LogInv, [LogNext]_logVars PROVE LogInv' OBVIOUS
<1>1. CASE LogNext
  <2>1. CASE \E c \in Convs : \/ \E t \in Texts : Ask(c, t)
                              \/ \E a \in Answers, arrives \in BOOLEAN : Answer(c, a, arrives)
                              \/ GiveUp(c)
    BY <2>1, LogAskKeeps, LogAnswerKeeps, LogGiveUpKeeps
  <2>2. CASE \E s \in saves : Save(s) \/ SaveFails(s) BY <2>2, LogSaveKeeps, SaveFailsKeeps
  <2>3. CASE LogTick BY <2>3, LogTickKeeps
  <2> QED BY <1>1, <2>1, <2>2, <2>3 DEF LogNext
<1>2. CASE UNCHANGED logVars
  <2>1. /\ talk' = talk /\ waiting' = waiting /\ rows' = rows /\ saves' = saves
        /\ latest' = latest /\ said' = said /\ disturbed' = disturbed
        /\ clock' = clock /\ losses' = losses
    BY <1>2 DEF logVars, log, logDevice
  <2>2. QuestionsOK' /\ \A d \in Convs : Continues(d) BY <2>1, NothingIsSaid
  <2>3. LogTypeOK' BY <2>1 DEF LogInv, LogTypeOK
  <2>4. LatestKept' /\ SavesOK'
    <3>1. UNCHANGED <<rows, latest, disturbed>> /\ saves \subseteq saves' BY <2>1
    <3>2. LatestKept' /\ \A s \in saves : \E j \in DOMAIN talk'[s.conversation] :
             Tells(Saved(s), s.conversation, j)' /\ talk'[s.conversation][j].run = s.run
      BY <2>2, <3>1, LogUntouched
    <3> QED BY <2>1, <3>2 DEF SavesOK
  <2>5. HeardSaved' BY <2>1, HeardStays
  <2> QED BY <2>2, <2>3, <2>4, <2>5 DEF LogInv
<1> QED BY <1>1, <1>2

LEMMA LogInvariance == LogSpec => []LogInv
<1>1. LogInit => LogInv BY LogInitInv
<1>2. LogInv /\ [LogNext]_logVars => LogInv' BY LogNextInv
<1> QED BY <1>1, <1>2, PTL DEF LogSpec

-----------------------------------------------------------------------------
LEMMA TwoInARow ==
    ASSUME NEW S, NEW m \in Seq(S), NEW y \in Nat \ {0}, y + 1 <= Len(m)
    PROVE  SubSeq(m, y, y + 1) = <<m[y], m[y + 1]>>
<1>1. PICK l, z : l = Len(m) /\ z = y + 1 OBVIOUS
<1>2. l \in Nat /\ z \in Nat /\ y <= z /\ y \in 1 .. l /\ z \in 1 .. l /\ z - y + 1 = 2 BY <1>1
<1>3. PICK f : f = SubSeq(m, y, z) OBVIOUS
<1>4. \A i \in y .. z : m[i] \in S
  <2>1. \A i \in 1 .. l : m[i] \in S BY <1>1
  <2> QED BY <1>2, <2>1
<1>5. f \in Seq(S) /\ Len(f) = z - y + 1 /\ \A i \in 1 .. z - y + 1 : f[i] = m[y + i - 1]
  <2>1. /\ f \in Seq(S) /\ Len(f) = IF y <= z THEN z - y + 1 ELSE 0
        /\ \A i \in 1 .. z - y + 1 : f[i] = m[y + i - 1]
    BY <1>2, <1>3, <1>4, SubSeqProperties
  <2> QED BY <1>2, <2>1
<1>6. f[1] = m[y] /\ f[2] = m[z]
  <2>1. 1 \in 1 .. z - y + 1 /\ 2 \in 1 .. z - y + 1 /\ y + 1 - 1 = y /\ y + 2 - 1 = z
    BY <1>1, <1>2
  <2> QED BY <1>5, <2>1
<1>7. PICK p : p = <<m[y], m[z]>> OBVIOUS
<1>8. p \in Seq(S) /\ Len(p) = 2 /\ p[1] = m[y] /\ p[2] = m[z]
  <2>1. m[y] \in S /\ m[z] \in S BY <1>1, <1>2
  <2> QED BY <1>7, <2>1
<1>9. Len(f) = 2 BY <1>2, <1>5
<1>10. \A i \in 1 .. Len(f) : f[i] = p[i] BY <1>6, <1>8, <1>9
<1>11. f = p BY <1>5, <1>8, <1>9, <1>10, SameSequence
<1> QED BY <1>1, <1>3, <1>7, <1>11

(* The messages of a question have each exchange up to it.                  *)
LEMMA ExchangeIsTold ==
    ASSUME LogInv, NEW c \in Convs, NEW j \in DOMAIN talk[c], NEW i \in DOMAIN talk[c], i <= j,
           Asks(c, i), Heard(c, i), talk[c][i + 1].text # Silence,
           NEW messages, Tells(messages, c, j)
    PROVE  \E y \in Nat \ {0} : y + 1 <= Len(messages) /\ SubSeq(messages, y, y + 1) = Exchange(c, i)
<1>1. LogTypeOK BY DEF LogInv
<1>2. PICK t, n, g : t = talk[c] /\ n = Len(t) /\ g = i + 1 OBVIOUS
<1>3. t \in Seq(Turns) /\ n \in Nat /\ DOMAIN t = 1 .. n /\ \A k \in 1 .. n : t[k] \in Turns
  BY <1>1, <1>2, TalkOf
<1>4. i \in 1 .. n /\ j \in 1 .. n /\ g \in 1 .. n BY <1>2, <1>3 DEF Heard
<1>5. t[i].role = "user" /\ t[j].role = "user" /\ t[g].role = "assistant" /\ t[g].text # Silence
  BY <1>2 DEF Asks, Heard, Tells
<1>6. t[i].text \in Texts /\ t[j].text \in Texts
  <2>1. Asks(c, j) BY DEF Tells
  <2> QED BY <1>2, <2>1 DEF LogInv, QuestionsOK
<1>7. t[i].text # Silence BY <1>6, LogAssumption
<1>8. PICK h : h = SaidBefore(c, j) OBVIOUS
<1>9. h \in Seq(Messages) BY <1>1, <1>8, SaidBeforeTyped
<1>10. PICK reply \in TextsAndAnswers :
          /\ messages = h \o << <<"user", t[j].text>>, <<"assistant", reply>> >>
          /\ Heard(c, j) => reply = t[j + 1].text
  BY <1>2, <1>8 DEF Tells
<1>11. PICK u, a : u = <<"user", t[j].text>> /\ a = <<"assistant", reply>> OBVIOUS
<1>12. u \in Messages /\ a \in Messages BY <1>6, <1>10, <1>11 DEF Messages, TextsAndAnswers
<1>13. PICK l : l = Len(h) OBVIOUS
<1>14. /\ messages \in Seq(Messages) /\ Len(messages) = l + 2 /\ l \in Nat
       /\ messages[l + 1] = u /\ messages[l + 2] = a
       /\ \A k \in 1 .. l : messages[k] = h[k]
  <2>1. messages = h \o <<u, a>> BY <1>10, <1>11
  <2> QED BY <1>9, <1>12, <1>13, <2>1, TwoMore
<1>15. PICK x : x = << <<"user", t[i].text>>, <<"assistant", t[g].text>> >> OBVIOUS
<1>16. Exchange(c, i) = x BY <1>2, <1>15 DEF Exchange
<1>17. SUFFICES ASSUME TRUE
                PROVE  \E y \in Nat \ {0} : /\ y + 1 <= Len(messages)
                                            /\ messages[y] = x[1] /\ messages[y + 1] = x[2]
  <2>1. ASSUME NEW y \in Nat \ {0}, y + 1 <= Len(messages), messages[y] = x[1], messages[y + 1] = x[2]
        PROVE  SubSeq(messages, y, y + 1) = x
    <3>1. SubSeq(messages, y, y + 1) = <<messages[y], messages[y + 1]>> BY <1>14, <2>1, TwoInARow
    <3> QED BY <1>15, <2>1, <3>1
  <2> QED BY <1>16, <2>1
<1>18. x[1] = <<"user", t[i].text>> /\ x[2] = <<"assistant", t[g].text>> BY <1>15
<1>19. CASE i = j
  <2>1. Heard(c, j) BY <1>19
  <2>2. reply = t[g].text BY <1>2, <1>10, <1>19, <2>1
  <2>3. u = x[1] /\ a = x[2] BY <1>11, <1>18, <1>19, <2>2
  <2>4. l + 1 \in Nat \ {0} /\ l + 1 + 1 = l + 2 BY <1>14
  <2>5. l + 1 + 1 <= Len(messages) BY <1>14
  <2>6. messages[l + 1] = x[1] /\ messages[l + 1 + 1] = x[2] BY <1>14, <2>3, <2>4
  <2> QED BY <2>4, <2>5, <2>6
<1>20. CASE i # j
  <2>1. PICK e : e = j - 1 OBVIOUS
  <2>2. g # j BY <1>5
  <2>3. e \in Nat /\ g <= e /\ e <= n /\ e \in 0 .. Len(t) BY <1>2, <1>3, <1>4, <1>20, <2>1, <2>2
  <2>4. PICK b : b = Spoken(Beginning(t, e)) OBVIOUS
  <2>5. b \in Seq(Turns)
    <3>1. Beginning(t, e) \in Seq(Turns) BY <1>3, <2>3, BeginningOf
    <3> QED BY <2>4, <3>1, SpokenIsTurns
  <2>6. h = Pairs(b) BY <1>2, <1>8, <2>1, <2>4 DEF SaidBefore
  <2>7. Len(h) = Len(b) /\ \A k \in 1 .. Len(b) : h[k] = <<b[k].role, b[k].text>>
    BY <2>5, <2>6, PairsOf
  <2>8. PICK y \in Nat \ {0} : y + 1 <= Len(b) /\ b[y] = t[i] /\ b[y + 1] = t[g]
    <3>1. i \in Nat \ {0} /\ i + 1 <= e /\ e <= Len(t) BY <1>2, <1>3, <1>4, <2>3
    <3>2. t[i + 1].text # Silence BY <1>2, <1>5
    <3>3. t \in Seq(Turns) /\ e \in Nat /\ b = Spoken(Beginning(t, e)) BY <1>3, <2>3, <2>4
    <3>4. \E y \in Nat \ {0} : y + 1 <= Len(b) /\ b[y] = t[i] /\ b[y + 1] = t[i + 1]
      BY <1>7, <3>1, <3>2, <3>3, SpokenTogether, SMTT(30)
    <3> QED BY <1>2, <3>4
  <2>9. y \in 1 .. l /\ y + 1 \in 1 .. l BY <1>13, <1>14, <2>7, <2>8
  <2>10. h[y] = x[1] /\ h[y + 1] = x[2]
    <3>1. h[y] = <<b[y].role, b[y].text>> BY <1>13, <2>7, <2>9
    <3>2. h[y + 1] = <<b[y + 1].role, b[y + 1].text>> BY <1>13, <2>7, <2>9
    <3> QED BY <1>5, <1>18, <2>8, <3>1, <3>2
  <2>11. messages[y] = x[1] /\ messages[y + 1] = x[2] BY <1>14, <2>9, <2>10
  <2>12. y + 1 <= Len(messages) BY <1>14, <2>9
  <2> QED BY <2>11, <2>12
<1> QED BY <1>19, <1>20

LEMMA InvKeepsExchanges == LogInv => ExchangesKept
<1> SUFFICES ASSUME LogInv, NEW c \in Convs \ disturbed, Apart(c), NEW i \in DOMAIN talk[c],
                    i + 1 \in DOMAIN talk[c],
                    talk[c][i].role = "user", talk[c][i + 1].role = "assistant",
                    talk[c][i + 1].text # Silence,
                    \A s \in saves : s.run # talk[c][i].run
             PROVE  Written(Exchange(c, i))
  BY DEF ExchangesKept
<1>1. Asks(c, i) /\ Heard(c, i) BY DEF Asks, Heard
<1>2. PICK r, q : r = talk[c][i].run /\ q = latest[c] OBVIOUS
<1>3. r \in 1..MaxRuns /\ MaxRuns \in Nat BY <1>1, <1>2, LogAssumption DEF LogInv, QuestionsOK
<1>4. q \in 0..MaxRuns BY <1>2 DEF LogInv, LogTypeOK
<1>5. r <= q BY <1>1, <1>2 DEF LogInv, HeardSaved
<1>6. q > 0 BY <1>3, <1>4, <1>5
<1>7. PICK k \in DOMAIN rows : \E j \in DOMAIN talk[c] :
         Tells(rows[k].messages, c, j) /\ talk[c][j].run = q
  BY <1>2, <1>6 DEF LogInv, LatestKept
<1>8. PICK j \in DOMAIN talk[c] : Tells(rows[k].messages, c, j) /\ talk[c][j].run = q BY <1>7
<1>9. i \in Nat /\ j \in Nat
  <2>1. talk[c] \in Seq(Turns) BY DEF LogInv, LogTypeOK
  <2> QED BY <2>1
<1>10. i <= j
  <2>1. SUFFICES ASSUME j < i PROVE FALSE BY <1>9
  <2>2. Asks(c, j) BY <1>8 DEF Tells
  <2>3. q < r BY <1>1, <1>2, <1>8, <2>1, <2>2 DEF LogInv, QuestionsOK
  <2> QED BY <1>3, <1>4, <1>5, <2>3
<1>11. PICK messages : messages = rows[k].messages OBVIOUS
<1>12. PICK y \in Nat \ {0} :
          y + 1 <= Len(messages) /\ SubSeq(messages, y, y + 1) = Exchange(c, i)
  BY <1>1, <1>8, <1>10, <1>11, ExchangeIsTold
<1>13. y \in 1 .. (Len(messages) - 1)
  <2>1. LogTypeOK BY DEF LogInv
  <2>2. rows[k] \in [created : 0..clock, messages : Seq(Messages)]
    <3>1. PICK R : R = [created : 0..clock, messages : Seq(Messages)] OBVIOUS
    <3>2. rows \in Seq(R) BY <2>1, <3>1 DEF LogTypeOK
    <3>3. rows[k] \in R BY <1>7, <3>2
    <3> QED BY <3>1, <3>3
  <2>3. Len(messages) \in Nat BY <1>11, <2>2
  <2> QED BY <1>12, <2>3
<1> QED BY <1>11, <1>12, <1>13 DEF Written

(* The conversation log has its types; a row has at least an exchange       *)
(* (save_understand_conversation in db.rs).                                 *)
THEOREM LogTypes == LogSpec => []LogTypeOK
<1>1. LogInv => LogTypeOK BY DEF LogInv
<1> QED BY <1>1, LogInvariance, PTL

(* An exchange that was saved stays in the log, whatever is asked and saved *)
(* later, for any number of conversations and questions: as long as the     *)
(* saves of its conversation came in order and no other conversation gave   *)
(* the log the same message for the same place.                             *)
THEOREM ExchangesAreKept == LogSpec => []ExchangesKept
<1>1. LogInv => ExchangesKept BY InvKeepsExchanges
<1> QED BY <1>1, LogInvariance, PTL

-----------------------------------------------------------------------------
(* Side by side, the log, the memories and the contacts keep their types.   *)
THEOREM StoresAreTyped == LogSpec /\ MediaSpec /\ ContactsSpec => []StoresTyped
<1>1. LogTypeOK /\ MTypeOK /\ CTypeOK => StoresTyped BY DEF StoresTyped
<1> QED BY <1>1, LogTypes, MediaTypes, ContactTypes, PTL
=============================================================================
