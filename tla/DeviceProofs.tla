---------------------------- MODULE DeviceProofs ----------------------------
(* Theorems about three programs of the device: the supervision of the      *)
(* server (ServerRuntime), the flag of the carrier lock (CarrierLock) and   *)
(* the parser of a profile's metadata (BF25Parser).                         *)
EXTENDS ServerRuntime, CarrierLock, BF25Parser, WellFoundedInduction, TLAPS

-----------------------------------------------------------------------------
(* ServerRuntime, for any number of processes.                              *)
LEMMA NextRuntimeTyped == RuntimeTypeOK /\ [RuntimeNext]_runtimeVars => RuntimeTypeOK'
<1> SUFFICES ASSUME RuntimeTypeOK, [RuntimeNext]_runtimeVars PROVE RuntimeTypeOK'
  OBVIOUS
<1> USE DEF RuntimeTypeOK
<1>1. CASE Start
  BY <1>1 DEF Start
<1>2. CASE StartProcess
  BY <1>2 DEF StartProcess, StartProcessIfNeeded, Launch
<1>3. CASE StartFails
  BY <1>3 DEF StartFails
<1>4. CASE EnsureSupervisorThread
  BY <1>4 DEF EnsureSupervisorThread
<1>5. CASE Stop
  BY <1>5 DEF Stop
<1>6. CASE TakeProcess
  BY <1>6 DEF TakeProcess
<1>7. CASE Kill
  BY <1>7 DEF Kill
<1>15. CASE GiveUp
  BY <1>15 DEF GiveUp
<1>8. CASE Ask
  BY <1>8 DEF Ask
<1>9. CASE Look
  BY <1>9 DEF Look
<1>10. CASE Restart
  BY <1>10 DEF Restart, StartProcessIfNeeded, Launch
<1>11. CASE RestartFails
  BY <1>11 DEF RestartFails
<1>12. CASE SeeExit
  BY <1>12 DEF SeeExit
<1>13. CASE Crash
  BY <1>13 DEF Crash
<1>14. CASE UNCHANGED runtimeVars
  BY <1>14 DEF runtimeVars
<1> QED
  BY <1>1, <1>2, <1>3, <1>4, <1>5, <1>6, <1>7, <1>8, <1>9, <1>10, <1>11, <1>12, <1>13, <1>14, <1>15
     DEF RuntimeNext, MainStep, SupervisorStep

(* Every variable keeps its type.                                           *)
THEOREM RuntimeTypeCorrect == RuntimeSpec => []RuntimeTypeOK
<1>1. RuntimeInit => RuntimeTypeOK
  BY DEF RuntimeInit, RuntimeTypeOK
<1> QED
  BY <1>1, NextRuntimeTyped, PTL DEF RuntimeSpec

-----------------------------------------------------------------------------
(* OneServer is not inductive alone: stop takes the process into toStop,    *)
(* which must be free, and it is while the main thread does not end one.  *)
NothingTaken == main # "killing" => toStop = NoProcess

ServerInv == OneServer /\ NothingTaken

LEMMA NextServerInv == RuntimeTypeOK /\ ServerInv /\ [RuntimeNext]_runtimeVars => ServerInv'
<1> SUFFICES ASSUME RuntimeTypeOK, ServerInv, [RuntimeNext]_runtimeVars PROVE ServerInv'
  OBVIOUS
<1> USE DEF RuntimeTypeOK, ServerInv, OneServer, NothingTaken
<1>1. CASE Start
  BY <1>1 DEF Start
<1>2. ASSUME StartProcessIfNeeded, toStop' = toStop PROVE OneServer'
  <2>1. CASE process \in alive
    BY <1>2, <2>1 DEF StartProcessIfNeeded
  <2>2. CASE process \notin alive
    BY <1>2, <2>2 DEF StartProcessIfNeeded, Launch
  <2> QED
    BY <2>1, <2>2
<1>3. CASE StartProcess
  BY <1>2, <1>3 DEF StartProcess
<1>4. CASE StartFails
  BY <1>4 DEF StartFails
<1>5. CASE EnsureSupervisorThread
  BY <1>5 DEF EnsureSupervisorThread
<1>6. CASE Stop
  BY <1>6 DEF Stop
<1>7. CASE TakeProcess
  BY <1>7 DEF TakeProcess
<1>8. CASE Kill
  BY <1>8 DEF Kill
<1>16. CASE GiveUp
  BY <1>16 DEF GiveUp
<1>9. CASE Ask
  BY <1>9 DEF Ask
<1>10. CASE Look
  BY <1>10 DEF Look
<1>11. CASE Restart
  BY <1>2, <1>11 DEF Restart
<1>12. CASE RestartFails
  BY <1>12 DEF RestartFails
<1>13. CASE SeeExit
  BY <1>13 DEF SeeExit
<1>14. CASE Crash
  BY <1>14 DEF Crash
<1>15. CASE UNCHANGED runtimeVars
  BY <1>15 DEF runtimeVars
<1> QED
  BY <1>1, <1>3, <1>4, <1>5, <1>6, <1>7, <1>8, <1>9, <1>10, <1>11, <1>12, <1>13, <1>14, <1>15, <1>16
     DEF RuntimeNext, MainStep, SupervisorStep

(* Whatever starts, stops and ends by itself, and whenever the supervisor   *)
(* notices, a server that runs is the one in use, the one that stop is      *)
(* ending, or one it gave up on.                                            *)
THEOREM ServerKnown == RuntimeSpec => []OneServer
<1>1. RuntimeInit => ServerInv
  BY DEF RuntimeInit, ServerInv, OneServer, NothingTaken
<1>2. ServerInv => OneServer
  BY DEF ServerInv
<1> QED
  BY <1>1, <1>2, RuntimeTypeCorrect, NextServerInv, PTL DEF RuntimeSpec

-----------------------------------------------------------------------------
(* CarrierLock.  While intents do not overlap there is one at work, and one *)
(* that is about to delete a profile began without the bypass.              *)
Working(i) == pc[i] \notin Over \cup {"idle"}

LockTyped == pc \in [Intents -> Over \cup {"idle", "download", "delete", "other", "verify"}]

OneAtWork == \A i, j \in Intents : Working(i) /\ Working(j) => i = j

DeletesOpenly == \A i \in Intents : pc[i] = "delete" => ~ bypassActive

LockInv == LockTyped /\ OneAtWork /\ DeletesOpenly /\ ProtectedKept

LEMMA NextLockInv ==
    ASSUME ~ Overlap, LockInv, [LockNext]_lockVars
    PROVE  LockInv'
<1> USE LockAssumption
        DEF LockInv, LockTyped, OneAtWork, Working, DeletesOpenly, ProtectedKept, Over, Goto
<1>1. ASSUME NEW i \in Intents, OnStartCommand(i) PROVE LockInv'
  BY <1>1 DEF OnStartCommand
<1>2. ASSUME NEW i \in Intents, OtherWork(i) PROVE LockInv'
  BY <1>2 DEF OtherWork
<1>3. ASSUME NEW i \in Intents, StartDownload(i) PROVE LockInv'
  BY <1>3 DEF StartDownload
<1>4. ASSUME NEW i \in Intents, CheckCarrierLock(i) PROVE LockInv'
  BY <1>4 DEF CheckCarrierLock
<1>5. ASSUME NEW i \in Intents, DeleteProfileUtil(i) PROVE LockInv'
  BY <1>5 DEF DeleteProfileUtil
<1>6. ASSUME NEW i \in Intents, InspectionFails(i) PROVE LockInv'
  BY <1>6 DEF InspectionFails
<1>7. CASE UNCHANGED lockVars
  BY <1>7 DEF lockVars
<1> QED
  BY <1>1, <1>2, <1>3, <1>4, <1>5, <1>6, <1>7 DEF LockNext

(* However many intents there are and whatever they ask for, if one arrives *)
(* only when the last one's work is over, no protected profile is deleted   *)
(* but for one whose name could not be read: each intent clears the flag    *)
(* with which a download hides the names (hookCarrierLock).                 *)
THEOREM ProtectedAreKept ==
    ASSUME ~ Overlap
    PROVE  LockSpec => []ProtectedKept
<1>1. LockInit => LockInv
  BY LockAssumption
     DEF LockInit, LockInv, LockTyped, OneAtWork, Working, DeletesOpenly, ProtectedKept, Over
<1>2. LockInv /\ [LockNext]_lockVars => LockInv'
  BY NextLockInv
<1>3. LockInv => ProtectedKept
  BY DEF LockInv
<1> QED
  BY <1>1, <1>2, <1>3, PTL DEF LockSpec

-----------------------------------------------------------------------------
(* Induction on a set of numbers, from the well-foundedness of <.           *)
NatLess == {p \in Nat \X Nat : p[1] < p[2]}

LEMMA NatLessWF == IsWellFoundedOn(NatLess, Nat)
<1>1. OpToRel(<, Nat) = NatLess
  BY DEF OpToRel, NatLess
<1> QED BY <1>1, NatLessThanWellFounded

LEMMA SetInduction ==
    ASSUME NEW S, 0 \in S, \A n \in Nat : n \in S => n + 1 \in S
    PROVE  Nat \subseteq S
<1> SUFFICES ASSUME Nat \ S # {} PROVE FALSE
  OBVIOUS
<1>1. \E x \in Nat \ S : \A y \in Nat \ S : ~ (<<y, x>> \in NatLess)
  BY NatLessWF, WFMin, Nat \ S \subseteq Nat
<1>2. PICK x \in Nat \ S : \A y \in Nat \ S : ~ (y < x)
  <2>1. PICK x \in Nat \ S : \A y \in Nat \ S : ~ (<<y, x>> \in NatLess) BY <1>1
  <2>2. \A y \in Nat \ S : ~ (y < x)
    <3> TAKE y \in Nat \ S
    <3>1. <<y, x>> \notin NatLess BY <2>1
    <3> QED BY <3>1 DEF NatLess
  <2> QED BY <2>2
<1>3. x # 0 BY <1>2
<1>4. x - 1 \in Nat /\ x - 1 < x /\ x - 1 + 1 = x BY <1>2, <1>3
<1>5. x - 1 \in S BY <1>2, <1>4
<1> QED BY <1>2, <1>4, <1>5

-----------------------------------------------------------------------------
(* BF25Parser.  The recursion that places the elements has a solution, so   *)
(* each begins where the one before it ends.                                *)
LEMMA PlacesExist ==
    ASSUME NEW d
    PROVE  \A n \in Nat :
              \E start : start = [i \in 1 .. n |-> IF i = 1 THEN 0 ELSE start[i - 1] + d[i - 1].size]
<1> DEFINE Solves(f, n) == f = [i \in 1 .. n |-> IF i = 1 THEN 0 ELSE f[i - 1] + d[i - 1].size]
           S == {n \in Nat : \E f : Solves(f, n)}
<1>1. 0 \in S
  <2>1. Solves([i \in 1 .. 0 |-> 0], 0) OBVIOUS
  <2> QED BY <2>1
<1>2. ASSUME NEW n \in Nat, n \in S PROVE n + 1 \in S
  <2>1. PICK f : Solves(f, n) BY <1>2
  <2> DEFINE g == [i \in 1 .. n + 1 |-> IF i = 1 THEN 0 ELSE f[i - 1] + d[i - 1].size]
  <2>2. \A i \in 1 .. n : g[i] = f[i]
    BY <2>1
  <2>3. \A i \in 1 .. n + 1 : i # 1 => g[i - 1] = f[i - 1]
    <3> HIDE DEF g
    <3> TAKE i \in 1 .. n + 1
    <3>1. i # 1 => i - 1 \in 1 .. n OBVIOUS
    <3> QED BY <2>2, <3>1
  <2>4. g = [i \in 1 .. n + 1 |-> IF i = 1 THEN 0 ELSE g[i - 1] + d[i - 1].size]
    BY <2>3
  <2>5. Solves(g, n + 1)
    <3> HIDE DEF g
    <3> QED BY <2>4
  <2>6. \E h : Solves(h, n + 1)
    <3> HIDE DEF g, Solves
    <3> QED BY <2>5
  <2> QED BY <2>6
<1> HIDE DEF S
<1>3. Nat \subseteq S BY <1>1, <1>2, SetInduction
<1> QED BY <1>3 DEF S

LEMMA Places ==
    ASSUME NEW d, Len(d) \in Nat
    PROVE  /\ StartOf(d)[1] = 0
           /\ \A i \in 1 .. Len(d) : StartOf(d)[i + 1] = StartOf(d)[i] + d[i].size
<1> DEFINE n == Len(d) + 1
           st == StartOf(d)
<1>1. \E start : start = [i \in 1 .. n |-> IF i = 1 THEN 0 ELSE start[i - 1] + d[i - 1].size]
  <2>1. n \in Nat OBVIOUS
  <2> HIDE DEF n
  <2> QED BY <2>1, PlacesExist, Zenon
<1>2. st = [i \in 1 .. n |-> IF i = 1 THEN 0 ELSE st[i - 1] + d[i - 1].size]
  BY <1>1 DEF StartOf
<1> HIDE DEF st
<1>3. st[1] = 0 BY <1>2
<1>4. ASSUME NEW i \in 1 .. Len(d) PROVE st[i + 1] = st[i] + d[i].size
  <2>1. i + 1 \in 1 .. n /\ i + 1 # 1 /\ i + 1 - 1 = i OBVIOUS
  <2>2. st[i + 1] = IF i + 1 = 1 THEN 0 ELSE st[i + 1 - 1] + d[i + 1 - 1].size BY <1>2, <2>1
  <2> QED BY <2>1, <2>2
<1> QED BY <1>3, <1>4 DEF st


InputOK ==
    /\ data \in Seq(Element) /\ length \in Nat
    /\ offset \in Nat /\ iterations \in Nat /\ running \in BOOLEAN

LEMMA ElementFields ==
    ASSUME NEW e \in Element
    PROVE  e.size \in Nat /\ e.size >= 6 /\ TagSize(e.tag) \in {2, 4}
BY ParserAssumption DEF Element, TagSize

LEMMA InOrder ==
    ASSUME InputOK
    PROVE  \A j \in 1 .. Len(data) + 1 :
               Begin(j) \in Nat /\ \A i \in 1 .. j - 1 : Begin(i) < Begin(j)
<1> DEFINE n == Len(data)
           b(j) == Begin(j) \in Nat /\ \A i \in 1 .. j - 1 : Begin(i) < Begin(j)
           S == {m \in Nat : \A j \in 1 .. n + 1 : j <= m + 1 => b(j)}
<1>1. n \in Nat /\ \A j \in 1 .. n : data[j] \in Element
  BY DEF InputOK
<1>2. Begin(1) = 0 /\ \A j \in 1 .. n : Begin(j + 1) = Begin(j) + data[j].size
  BY <1>1, Places DEF Begin
<1>3. 0 \in S
  <2>1. \A j \in 1 .. n + 1 : j <= 0 + 1 => j = 1 BY <1>1
  <2>2. b(1) BY <1>2
  <2> HIDE DEF b
  <2> QED BY <2>1, <2>2
<1>4. ASSUME NEW m \in Nat, m \in S PROVE m + 1 \in S
  <2> SUFFICES ASSUME NEW j \in 1 .. n + 1, j = m + 2 PROVE b(j)
    <3>1. \A i \in 1 .. n + 1 : i <= m + 1 + 1 => i <= m + 1 \/ i = m + 2 BY <1>1
    <3>2. \A i \in 1 .. n + 1 : i <= m + 1 => b(i) BY <1>4
    <3> HIDE DEF b
    <3> QED BY <3>1, <3>2
  <2>1. m + 1 \in 1 .. n /\ m + 1 \in 1 .. n + 1 /\ m + 1 <= m + 1 BY <1>1
  <2>2. b(m + 1) BY <1>4, <2>1
  <2>3. Begin(j) = Begin(m + 1) + data[m + 1].size
    <3>1. Begin(m + 1 + 1) = Begin(m + 1) + data[m + 1].size BY <1>2, <2>1
    <3>2. j = m + 1 + 1 OBVIOUS
    <3> QED BY <3>1, <3>2
  <2>4. data[m + 1].size \in Nat /\ data[m + 1].size >= 6 BY <1>1, <2>1, ElementFields
  <2>5. Begin(j) \in Nat /\ Begin(m + 1) < Begin(j) BY <2>2, <2>3, <2>4
  <2>6. ASSUME NEW i \in 1 .. j - 1 PROVE Begin(i) < Begin(j)
    <3>1. CASE i = m + 1 BY <3>1, <2>5
    <3>2. CASE i # m + 1
      <4>1. i \in 1 .. m + 1 - 1 BY <3>2, <1>1
      <4>2. i \in 1 .. n + 1 /\ i <= m + 1 BY <4>1, <2>1, <1>1
      <4>3. b(i) BY <4>2, <1>4
      <4>4. Begin(i) \in Nat /\ Begin(m + 1) \in Nat /\ Begin(i) < Begin(m + 1) BY <4>1, <4>3, <2>2
      <4> QED BY <4>4, <2>5
    <3> QED BY <3>1, <3>2
  <2> QED BY <2>5, <2>6
<1> HIDE DEF S
<1>5. Nat \subseteq S BY <1>3, <1>4, SetInduction
<1>6. n \in S BY <1>1, <1>5
<1>7. \A j \in 1 .. n + 1 : j <= n + 1 BY <1>1
<1> QED BY <1>6, <1>7 DEF S


(* While no size is misreported the parser stands at the beginning of an    *)
(* element, past as many as it has counted, and has read what they hold.    *)
Honest == \A i \in 1 .. Len(data) : data[i].fault # "short"

FilledUpTo(k) == {data[i].tag : i \in {j \in 1 .. k : Fills(j)}}

AtElement(k) == /\ offset = Begin(k) /\ iterations = k - 1 /\ k - 1 <= MAX_ITERATIONS
                /\ \A j \in 1 .. k - 1 : Passable(j)
                /\ fields = FilledUpTo(k - 1)

ParserInv ==
    /\ InputOK
    /\ Honest => IF running THEN \E k \in 1 .. Len(data) + 1 : AtElement(k)
                            ELSE fields = {data[i].tag : i \in Readable}

LEMMA ReadableUpTo ==
    ASSUME InputOK, NEW k \in 1 .. Len(data) + 1, k - 1 <= MAX_ITERATIONS,
           \A j \in 1 .. k - 1 : Passable(j)
    PROVE  /\ k = Len(data) + 1 \/ k - 1 = MAX_ITERATIONS \/ (~ Passable(k) /\ ~ Fills(k))
                => {data[i].tag : i \in Readable} = FilledUpTo(k - 1)
           /\ k \in 1 .. Len(data) /\ k <= MAX_ITERATIONS /\ ~ Passable(k)
                => {data[i].tag : i \in Readable} = FilledUpTo(k)
<1>1. Len(data) \in Nat /\ MAX_ITERATIONS \in Nat
  BY ParserAssumption DEF InputOK
<1>2. ASSUME k = Len(data) + 1 \/ k - 1 = MAX_ITERATIONS \/ (~ Passable(k) /\ ~ Fills(k))
      PROVE  Readable = {j \in 1 .. k - 1 : Fills(j)}
  <2>1. ASSUME NEW i \in Readable PROVE i \in 1 .. k - 1 /\ Fills(i)
    <3>1. i \in 1 .. Len(data) /\ i <= MAX_ITERATIONS /\ Fills(i) /\ \A j \in 1 .. i - 1 : Passable(j)
      BY DEF Readable
    <3>2. i # k \/ i <= k - 1 BY <1>2, <3>1, <1>1
    <3>3. ~ (i > k /\ ~ Passable(k)) BY <3>1, <1>1
    <3> QED BY <1>2, <3>1, <3>2, <3>3, <1>1
  <2>2. ASSUME NEW i \in 1 .. k - 1, Fills(i) PROVE i \in Readable
    BY <2>2, <1>1 DEF Readable
  <2> QED BY <2>1, <2>2
<1>3. ASSUME k \in 1 .. Len(data), k <= MAX_ITERATIONS, ~ Passable(k)
      PROVE  Readable = {j \in 1 .. k : Fills(j)}
  <2>1. ASSUME NEW i \in Readable PROVE i \in 1 .. k /\ Fills(i)
    BY <1>1, <1>3 DEF Readable
  <2>2. ASSUME NEW i \in 1 .. k, Fills(i) PROVE i \in Readable
    BY <2>2, <1>1, <1>3 DEF Readable
  <2> QED BY <2>1, <2>2
<1>4. ASSUME k = Len(data) + 1 \/ k - 1 = MAX_ITERATIONS \/ (~ Passable(k) /\ ~ Fills(k))
      PROVE  {data[i].tag : i \in Readable} = FilledUpTo(k - 1)
  BY <1>2, <1>4 DEF FilledUpTo
<1>5. ASSUME k \in 1 .. Len(data), k <= MAX_ITERATIONS, ~ Passable(k)
      PROVE  {data[i].tag : i \in Readable} = FilledUpTo(k)
  BY <1>3, <1>5 DEF FilledUpTo
<1> QED BY <1>4, <1>5

LEMMA OneMore ==
    ASSUME InputOK, NEW k \in 1 .. Len(data)
    PROVE  FilledUpTo(k) = IF Fills(k) THEN FilledUpTo(k - 1) \cup {data[k].tag} ELSE FilledUpTo(k - 1)
<1>1. Len(data) \in Nat BY DEF InputOK
<1>2. \A i : i \in 1 .. k <=> i \in 1 .. k - 1 \/ i = k BY <1>1
<1>3. CASE Fills(k)
  <2>1. {j \in 1 .. k : Fills(j)} = {j \in 1 .. k - 1 : Fills(j)} \cup {k} BY <1>2, <1>3
  <2> QED BY <2>1, <1>3 DEF FilledUpTo
<1>4. CASE ~ Fills(k)
  <2>1. {j \in 1 .. k : Fills(j)} = {j \in 1 .. k - 1 : Fills(j)} BY <1>2, <1>4
  <2> QED BY <2>1, <1>4 DEF FilledUpTo
<1> QED BY <1>3, <1>4

(* What a step does while the input is honest.                              *)
LEMMA ElementHere ==
    ASSUME InputOK, InLoop, NEW k \in 1 .. Len(data) + 1, AtElement(k)
    PROVE  k \in 1 .. Len(data) /\ k <= MAX_ITERATIONS /\ ElementsHere = {data[k]}
<1>1. Len(data) \in Nat /\ MAX_ITERATIONS \in Nat BY ParserAssumption DEF InputOK
<1>2. offset = Begin(k) /\ iterations = k - 1 BY DEF AtElement
<1>3. offset < Begin(Len(data) + 1) BY DEF InLoop, dataEnd, Begin
<1>4. k # Len(data) + 1
  <2>1. Begin(k) \in Nat BY InOrder
  <2>2. ~ (Begin(k) < Begin(k)) BY <2>1
  <2> QED BY <1>2, <1>3, <2>2
<1>5. k \in 1 .. Len(data) /\ k <= MAX_ITERATIONS BY <1>1, <1>2, <1>4 DEF InLoop
<1>6. {i \in 1 .. Len(data) : Begin(i) = Begin(k)} = {k}
  <2>1. ASSUME NEW i \in 1 .. Len(data), i # k PROVE Begin(i) # Begin(k)
    <3>1. Begin(i) \in Nat /\ Begin(k) \in Nat BY InOrder, <1>1
    <3>2. CASE i < k
      <4>1. i \in 1 .. k - 1 BY <3>2, <1>5
      <4>2. Begin(i) < Begin(k) BY <4>1, InOrder
      <4> QED BY <4>2, <3>1
    <3>3. CASE i > k
      <4>1. k \in 1 .. i - 1 /\ i \in 1 .. Len(data) + 1 BY <3>3, <1>5, <1>1
      <4>2. Begin(k) < Begin(i) BY <4>1, InOrder
      <4> QED BY <4>2, <3>1
    <3>4. i < k \/ i > k BY <2>1, <1>1
    <3> QED BY <3>2, <3>3, <3>4
  <2> QED BY <2>1, <1>5
<1>7. {i \in 1 .. Len(data) : StartOf(data)[i] = offset} = {k} BY <1>2, <1>6 DEF Begin
<1>8. ElementsHere = {data[i] : i \in {k}} BY <1>7 DEF ElementsHere
<1> QED BY <1>5, <1>8


LEMMA NextParserInv ==
    ASSUME ParserInv, [ParserNext]_parserVars
    PROVE  ParserInv'
<1>1. InputOK BY DEF ParserInv
<1>2. MAX_ITERATIONS \in Nat /\ Len(data) \in Nat BY <1>1, ParserAssumption DEF InputOK
<1>3. UNCHANGED <<data, length>>
  BY DEF ParserNext, Finish, ReadElement, StopAtCut, StopAtElement, PassElement, LeaveLoop, parserVars
<1>4. InputOK'
  <2>1. CASE Finish \/ UNCHANGED parserVars
    BY <1>1, <2>1 DEF Finish, LeaveLoop, InputOK, parserVars
  <2>2. ASSUME InLoop, NEW e \in ElementsHere, iterations' = iterations + 1,
               StopAtCut(e) \/ StopAtElement(e) \/ PassElement(e)
        PROVE  InputOK'
    <3>1. e \in Element
      <4>1. \A i \in 1 .. Len(data) : data[i] \in Element BY <1>1 DEF InputOK
      <4> QED BY <2>2, <4>1 DEF ElementsHere
    <3>2. Consumed(e, offset) \in Nat
      BY <3>1, ElementFields DEF Consumed
    <3>3. offset' \in Nat /\ running' \in BOOLEAN
      <4>1. \/ offset' = offset /\ running' = FALSE
            \/ offset' = offset + Consumed(e, offset) /\ running' = running
        BY <2>2 DEF StopAtCut, StopAtElement, PassElement, LeaveLoop
      <4>2. offset \in Nat /\ running \in BOOLEAN BY <1>1 DEF InputOK
      <4>3. offset' \in Nat BY <4>1, <4>2, <3>2
      <4>4. running' \in BOOLEAN BY <4>1, <4>2, Zenon
      <4> QED BY <4>3, <4>4
    <3> QED BY <1>1, <1>3, <2>2, <3>3 DEF InputOK
  <2> QED BY <2>1, <2>2 DEF ParserNext, ReadElement
<1>5. /\ Begin(Len(data) + 1)' = Begin(Len(data) + 1) /\ Honest' = Honest
      /\ Readable' = Readable
      /\ \A k \in Nat : /\ Begin(k)' = Begin(k) /\ FilledUpTo(k)' = FilledUpTo(k)
                        /\ Passable(k)' = Passable(k)
  BY <1>3 DEF Honest, Readable, Begin, StartOf, FilledUpTo, Fills, Passable, FillWorks, LengthReadable
<1> SUFFICES ASSUME Honest
             PROVE  IF running' THEN (\E k \in 1 .. Len(data) + 1 : AtElement(k))'
                                ELSE fields' = {data[i].tag : i \in Readable}
  BY <1>3, <1>4, <1>5 DEF ParserInv
<1>6. CASE Finish
  <2>1. PICK k \in 1 .. Len(data) + 1 : AtElement(k) BY <1>6 DEF Finish, ParserInv
  <2>2. k = Len(data) + 1 \/ k - 1 = MAX_ITERATIONS
    <3>1. CASE offset >= dataEnd
      <4>1. SUFFICES ASSUME k # Len(data) + 1 PROVE FALSE OBVIOUS
      <4>2. k \in 1 .. Len(data) + 1 - 1 /\ Len(data) + 1 \in 1 .. Len(data) + 1 BY <1>2, <4>1
      <4>3. Begin(k) < Begin(Len(data) + 1) /\ Begin(k) \in Nat /\ Begin(Len(data) + 1) \in Nat
        BY <1>1, <4>2, InOrder
      <4> QED BY <2>1, <3>1, <4>3 DEF AtElement, dataEnd, Begin
    <3>2. CASE iterations >= MAX_ITERATIONS
      BY <1>2, <2>1, <3>2 DEF AtElement
    <3> QED BY <1>6, <3>1, <3>2 DEF Finish
  <2>3. {data[i].tag : i \in Readable} = FilledUpTo(k - 1)
    BY <1>1, <2>1, <2>2, ReadableUpTo DEF AtElement
  <2> QED BY <1>6, <2>1, <2>3 DEF Finish, LeaveLoop, AtElement
<1>7. CASE ReadElement
  <2>1. PICK k \in 1 .. Len(data) + 1 : AtElement(k)
    BY <1>7 DEF ReadElement, InLoop, ParserInv
  <2>2. InLoop BY <1>7 DEF ReadElement
  <2>3. k \in 1 .. Len(data) /\ k <= MAX_ITERATIONS /\ ElementsHere = {data[k]}
    BY <1>1, <2>1, <2>2, ElementHere
  <2>4. PICK e : e = data[k] OBVIOUS
  <2>5. /\ StopAtCut(e) \/ StopAtElement(e) \/ PassElement(e)
        /\ iterations' = iterations + 1
    BY <1>7, <2>3, <2>4 DEF ReadElement
  <2>6. e \in Element /\ e.fault # "short"
    <3>1. data[k] \in Element BY <1>1, <2>3 DEF InputOK
    <3> QED BY <2>3, <2>4, <3>1 DEF Honest
  <2>7. e.size \in Nat /\ e.size >= 6 /\ TagSize(e.tag) \in {2, 4} BY <2>6, ElementFields
  <2>8. /\ offset = Begin(k) /\ iterations = k - 1 /\ fields = FilledUpTo(k - 1)
        /\ k - 1 <= MAX_ITERATIONS /\ \A j \in 1 .. k - 1 : Passable(j)
    BY <2>1 DEF AtElement
  <2>9. Fills(k) <=> FillWorks(e, offset)
    BY <2>4, <2>8 DEF Fills
  <2>10. Passable(k) <=> IF FillWorks(e, offset) THEN e.fault # "zero" ELSE LengthReadable(e, offset)
    BY <2>4, <2>8, <2>9 DEF Passable
  <2>11. Consumed(e, offset) = IF FillWorks(e, offset) /\ e.fault = "zero" THEN 0 ELSE e.size
    BY <2>6 DEF Consumed
  <2>12. offset \in Nat /\ length \in Nat BY <1>1 DEF InputOK
  <2>13. CASE StopAtCut(e)
    <3>1. ~ FillWorks(e, offset) /\ ~ LengthReadable(e, offset)
      BY <2>7, <2>12, <2>13 DEF StopAtCut, FillWorks, LengthReadable
    <3>2. ~ Passable(k) /\ ~ Fills(k) BY <3>1, <2>9, <2>10
    <3>3. {data[i].tag : i \in Readable} = FilledUpTo(k - 1)
      BY <1>1, <2>1, <2>8, <3>2, ReadableUpTo
    <3>4. fields' = fields /\ ~ running' BY <2>13 DEF StopAtCut, LeaveLoop
    <3> QED BY <3>3, <3>4, <2>8
  <2>14. CASE StopAtElement(e)
    <3>1. ~ Passable(k) BY <2>7, <2>10, <2>11, <2>14 DEF StopAtElement
    <3>2. {data[i].tag : i \in Readable} = FilledUpTo(k)
      BY <1>1, <2>1, <2>3, <2>8, <3>1, ReadableUpTo
    <3>3. FilledUpTo(k) = IF Fills(k) THEN FilledUpTo(k - 1) \cup {data[k].tag} ELSE FilledUpTo(k - 1)
      BY <1>1, <2>3, OneMore
    <3>4. fields' = IF FillWorks(e, offset) THEN fields \cup {e.tag} ELSE fields
      BY <2>14 DEF StopAtElement
    <3>5. ~ running' BY <2>14 DEF StopAtElement, LeaveLoop
    <3> QED BY <3>2, <3>3, <3>4, <3>5, <2>4, <2>8, <2>9
  <2>15. CASE PassElement(e)
    <3>1. Passable(k) /\ Consumed(e, offset) = e.size
      BY <2>7, <2>10, <2>11, <2>15 DEF PassElement
    <3>2. fields' = IF FillWorks(e, offset) THEN fields \cup {e.tag} ELSE fields
      BY <2>15 DEF PassElement
    <3>3. FilledUpTo(k) = IF Fills(k) THEN FilledUpTo(k - 1) \cup {data[k].tag} ELSE FilledUpTo(k - 1)
      BY <1>1, <2>3, OneMore
    <3>4. fields' = FilledUpTo(k) BY <3>2, <3>3, <2>4, <2>8, <2>9
    <3>5. offset' = Begin(k) + data[k].size BY <2>4, <2>8, <2>15, <3>1 DEF PassElement
    <3>6. offset' = Begin(k + 1) BY <1>2, <2>3, <3>5, Places DEF Begin
    <3>7. k + 1 \in 1 .. Len(data) + 1 /\ k + 1 - 1 = k /\ iterations' = k /\ k \in Nat /\ k + 1 \in Nat
      BY <1>2, <2>3, <2>5, <2>8
    <3>8. \A j \in 1 .. k : Passable(j) /\ j \in Nat BY <2>8, <3>1, <2>3, <1>2
    <3>9. running' = running /\ running BY <2>2, <2>15 DEF PassElement, InLoop
    <3>10. AtElement(k + 1)'
      <4>1. offset' = Begin(k + 1)' BY <1>5, <3>6, <3>7
      <4>2. fields' = FilledUpTo(k)' BY <1>5, <3>4, <3>7
      <4>3. \A j \in 1 .. k : Passable(j)' BY <1>5, <3>8
      <4> QED BY <4>1, <4>2, <4>3, <3>7, <2>3 DEF AtElement
    <3>11. (\E i \in 1 .. Len(data) + 1 : AtElement(i))' BY <1>3, <3>7, <3>10
    <3> QED BY <3>9, <3>11
  <2> QED BY <2>5, <2>13, <2>14, <2>15
<1>8. CASE UNCHANGED parserVars
  <2>1. fields' = fields /\ running' = running /\ offset' = offset /\ iterations' = iterations
    BY <1>8 DEF parserVars
  <2>2. CASE running
    <3>1. PICK k \in 1 .. Len(data) + 1 : AtElement(k) BY <2>2 DEF ParserInv
    <3>2. AtElement(k)'
      <4>1. \A j \in 1 .. k - 1 : Passable(j)' <=> Passable(j) BY <1>2, <1>5
      <4>2. k \in Nat /\ k - 1 \in Nat BY <1>2
      <4> QED BY <1>5, <2>1, <3>1, <4>1, <4>2 DEF AtElement
    <3> QED BY <1>3, <2>1, <2>2, <3>2
  <2>3. CASE ~ running
    BY <2>1, <2>3 DEF ParserInv
  <2> QED BY <2>2, <2>3
<1> QED BY <1>6, <1>7, <1>8 DEF ParserNext

(* Whatever elements the metadata has, known or not, of one-byte or two-byte *)
(* tags, wherever it is cut off and whichever fields the vendor's code fails *)
(* on: parseBF25 reads each field that can be reached, unless a size was     *)
(* misreported.                                                              *)
THEOREM AllFieldsAreRead == ParserSpec => []ReadsAllFields
<1>1. ASSUME ParserInit PROVE ParserInv
  <2>1. PICK n \in 0 .. MaxElements : data \in [1 .. n -> Element] BY <1>1 DEF ParserInit
  <2>2. data \in Seq(Element) /\ Len(data) \in Nat BY <2>1, ParserAssumption
  <2>3. /\ offset = 0 /\ iterations = 0 /\ fields = {} /\ running = TRUE
        /\ length \in {m \in 0 .. dataEnd : m % 2 = 0}
    BY <1>1 DEF ParserInit
  <2>4. length \in Nat BY <2>3
  <2>5. InputOK BY <2>2, <2>3, <2>4 DEF InputOK
  <2>6. Begin(1) = 0 BY <2>2, Places DEF Begin
  <2>7. AtElement(1) BY <2>3, <2>6, ParserAssumption DEF AtElement, FilledUpTo
  <2>8. 1 \in 1 .. Len(data) + 1 BY <2>2
  <2> QED BY <2>3, <2>5, <2>7, <2>8 DEF ParserInv
<1>2. ParserInv /\ [ParserNext]_parserVars => ParserInv'
  BY NextParserInv
<1>3. ParserInv => ReadsAllFields
  BY DEF ParserInv, ReadsAllFields, Honest
<1> QED BY <1>1, <1>2, <1>3, PTL DEF ParserSpec
=============================================================================
