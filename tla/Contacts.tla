------------------------------ MODULE Contacts ------------------------------
(* The contacts of the server (api/contacts.rs, db/contacts.rs), the stream *)
(* of changes the device's copy follows (services/contacts.rs), and the     *)
(* reset of that copy (hook/ContactsHooks.kt).  The device's sync worker is *)
(* external: it applies the pages it is sent and, after the last one,       *)
(* keeps the greatest modification time in them as its cursor.              *)
EXTENDS Integers, Sequences, FiniteSets, SequencesExt

CONSTANTS
    Ids,        \* contact ids
    Cards,      \* what is known of somebody: a phone number, an email address
    Batches,    \* what is imported at once: sequences of cards, each with an id or Nothing
    Nothing,    \* no row, no card, no number, no id
    PageSize,   \* the device's, at least 1
    MaxContactsTime, MaxWrites, MaxMishaps  \* bounds

Items == [id : Ids \cup {Nothing}, card : Cards]
People == [card : Cards, at : 1..MaxContactsTime, live : BOOLEAN]

ASSUME ContactsAssumption ==
    /\ IsFiniteSet(Ids) /\ PageSize \in Nat \ {0} /\ MaxContactsTime \in Nat \ {0}
    /\ Batches \subseteq Seq(Items)

VARIABLES
    people,     \* the table contacts: card, modification time, deleted or not
    pending,    \* contact_client_reset_pending
    time,       \* milliseconds
    cards, cursor,      \* the device's copy, and how far it has followed
    sync,       \* the device's sync worker
    resetter, tasks,    \* the hook's reset thread and what is submitted to it
    handed,     \* history: the greatest time that was sent to the device
    missed,     \* history: contacts changed too late for their time
    wanted,     \* history: a reset was asked for and not made
    lost,       \* history: by now nobody knows that it was asked for
    crossed,    \* history: the cursor was forgotten during a sync, or not with the contacts
    writes, mishaps

server == <<people, pending, time>>
copy   == <<cards, cursor>>
thread == <<resetter, tasks>>
asked  == <<wanted, lost>>
contactPast   == <<handed, missed, asked, crossed>>
contactVars   == <<server, copy, sync, thread, contactPast, writes, mishaps>>

NoSync == [phase |-> "idle", pages |-> << >>, page |-> 0]

ContactsInit == /\ people = [i \in Ids |-> Nothing] /\ pending = FALSE /\ time = 1
                /\ cards = [i \in Ids |-> Nothing] /\ cursor = 0
                /\ sync = NoSync /\ resetter = "idle" /\ tasks = 0
                /\ handed = 0 /\ missed = {} /\ wanted = FALSE /\ lost = FALSE /\ crossed = FALSE
                /\ writes = 0 /\ mishaps = 0

Mishap == mishaps < MaxMishaps /\ mishaps' = mishaps + 1

-----------------------------------------------------------------------------
(* The table.  A deleted contact keeps its row.                             *)
Live(table)   == {i \in Ids : table[i] # Nothing /\ table[i].live}
Unused(table) == {i \in Ids : table[i] = Nothing}

(* Mutated forms (named ..._) of a definition stand before it: each is a    *)
(* bug the properties have to notice.                                       *)
SavedRow(card) == [card |-> card, at |-> time, live |-> TRUE]

Deleted(row) == [row EXCEPT !.live = FALSE, !.at = time]

(* find_match_id: by phone number, then by email address.                   *)
By(table, card, key) ==
    {i \in Live(table) : card[key] # Nothing /\ table[i].card[key] = card[key]}

Targets(table, item) ==
    IF item.id # Nothing THEN {item.id}
    ELSE IF By(table, item.card, "phone") # {} THEN By(table, item.card, "phone")
    ELSE IF By(table, item.card, "email") # {} THEN By(table, item.card, "email")
    ELSE Unused(table)

(* The tables an import may leave: one transaction, one time.               *)
MergedWith(table, item) ==
    {[table EXCEPT ![i] = SavedRow(item.card)] : i \in Targets(table, item)}

Imported(batch) ==
    LET tables[k \in 0 .. Len(batch)] ==
            IF k = 0 THEN {people} ELSE UNION {MergedWith(t, batch[k]) : t \in tables[k - 1]}
    IN tables[Len(batch)]

DistinctIds(batch) ==
    \A i, j \in DOMAIN batch : i # j /\ batch[i].id = batch[j].id => batch[i].id = Nothing

(* A full listing reads the table twice.                                    *)
Between == sync.phase = "listed"

Write(table) ==
    LET changed == {i \in Ids : table[i] # people[i]}
    IN /\ writes < MaxWrites /\ writes' = writes + 1
       /\ people' = table
       /\ missed' = IF time <= handed \/ Between THEN missed \cup changed ELSE missed \ changed
       /\ UNCHANGED <<pending, time, copy, sync, thread, handed, asked, crossed, mishaps>>

Upsert(i, card) == Write([people EXCEPT ![i] = SavedRow(card)])
Delete(i) == i \in Live(people) /\ Write([people EXCEPT ![i] = Deleted(@)])
Import(batch) == DistinctIds(batch) /\ \E table \in Imported(batch) : Write(table)
-----------------------------------------------------------------------------
(* The stream.  A change is a contact with its card, or a deletion.         *)
Change(i) == [id |-> i, card |-> IF people[i].live THEN people[i].card ELSE Nothing,
              at |-> people[i].at]
Changes(ids) == SetToSeq({Change(i) : i \in ids})

Newer_LiveOnly(since) == {i \in Live(people) : people[i].at > since}
Newer(since) == {i \in Ids : people[i] # Nothing /\ people[i].at > since}
Gone         == {i \in Ids : people[i] # Nothing} \ Live(people)

PageCount(n) == Max({1, (n + PageSize - 1) \div PageSize})

(* What get_contacts_paginated_streaming makes of a list: at least a page.  *)
Pages(list) ==
    LET n == Len(list)
    IN [p \in 1 .. PageCount(n) |->
          [content |-> SubSeq(list, (p - 1) * PageSize + 1, Min({p * PageSize, n})),
           number |-> p, total |-> PageCount(n)]]

Times(list) == {list[i].at : i \in DOMAIN list}
Greatest(times) == Max({0} \cup times)

Send(list) == /\ sync' = [phase |-> "pages", pages |-> Pages(list), page |-> 1]
              /\ handed' = Max({handed, Greatest(Times(list))})

-----------------------------------------------------------------------------
(* The device.  A sync starts by the server's broadcast or on its own; the  *)
(* hook first has its thread claim a reset, and waits for it two seconds.   *)
StartSync == /\ sync.phase = "idle" /\ sync' = [NoSync EXCEPT !.phase = "hook"]
             /\ tasks' = tasks + 1
             /\ UNCHANGED <<server, copy, resetter, contactPast, writes, mishaps>>

HookDone == /\ sync.phase = "hook" /\ sync' = [sync EXCEPT !.phase = "ask"]
            /\ IF resetter = "idle" /\ tasks = 0 THEN UNCHANGED mishaps ELSE Mishap
            /\ UNCHANGED <<server, copy, thread, contactPast, writes>>

AskChanges == /\ sync.phase = "ask" /\ cursor # 0
              /\ Send(Changes(Newer(cursor)))
              /\ UNCHANGED <<server, copy, thread, missed, asked, crossed, writes, mishaps>>

AskAll == /\ sync.phase = "ask" /\ cursor = 0
          /\ sync' = [phase |-> "listed", pages |-> Changes(Live(people)), page |-> 0]
          /\ UNCHANGED <<server, copy, thread, contactPast, writes, mishaps>>

ListDeleted == /\ sync.phase = "listed"
               /\ Send(sync.pages \o Changes(Gone))
               /\ UNCHANGED <<server, copy, thread, missed, asked, crossed, writes, mishaps>>

(* Of two changes of a contact in a page the later one stays.               *)
Applied(list) ==
    [i \in Ids |-> LET own == {k \in DOMAIN list : list[k].id = i}
                   IN IF own = {} THEN cards[i] ELSE list[Max(own)].card]

Receive ==
    /\ sync.phase = "pages"
    /\ LET page == sync.pages[sync.page]
       IN /\ cards' = Applied(page.content)
          /\ sync' = IF page.number = page.total THEN [sync EXCEPT !.phase = "save"]
                                                 ELSE [sync EXCEPT !.page = @ + 1]
    /\ UNCHANGED <<server, cursor, thread, contactPast, writes, mishaps>>

SaveCursor ==
    /\ sync.phase = "save" /\ sync' = NoSync
    /\ cursor' = LET seen == Greatest(UNION {Times(sync.pages[p].content) : p \in 1..sync.page})
                 IN IF seen = 0 THEN cursor ELSE seen
    /\ UNCHANGED <<server, cards, thread, contactPast, writes, mishaps>>

SyncBreaks == /\ sync.phase \notin {"idle", "hook"} /\ Mishap
              /\ sync' = NoSync
              /\ UNCHANGED <<server, copy, thread, contactPast, writes>>

-----------------------------------------------------------------------------
(* The reset: the portal asks for it, the device claims it.                 *)
ClientReset == /\ ~ pending /\ pending' = TRUE
               /\ wanted' = TRUE /\ lost' = FALSE
               /\ UNCHANGED <<people, time, copy, sync, thread, handed, missed, crossed, writes, mishaps>>

Claim_ReadsAfter ==
    /\ resetter = "idle" /\ tasks > 0 /\ tasks' = tasks - 1
    /\ pending' = FALSE
    /\ resetter' = IF pending' THEN "clear" ELSE "idle"
    /\ UNCHANGED <<people, time, copy, sync, contactPast, writes, mishaps>>

Claim == /\ resetter = "idle" /\ tasks > 0 /\ tasks' = tasks - 1
         /\ pending' = FALSE
         /\ resetter' = IF pending THEN "clear" ELSE "idle"
         /\ UNCHANGED <<people, time, copy, sync, contactPast, writes, mishaps>>

(* The request or the answer is lost; so is the reset that was claimed.     *)
ClaimLost == /\ resetter = "idle" /\ tasks > 0 /\ tasks' = tasks - 1
             /\ Mishap
             /\ \/ UNCHANGED <<pending, lost>>
                \/ pending' = FALSE /\ lost' = (lost \/ pending)
             /\ UNCHANGED <<people, time, copy, sync, resetter, handed, missed, wanted, crossed, writes>>

ClearContacts == /\ resetter = "clear" /\ resetter' = "forget"
                 /\ cards' = [i \in Ids |-> Nothing] /\ wanted' = pending
                 /\ UNCHANGED <<server, cursor, sync, tasks, handed, missed, lost, crossed, writes, mishaps>>

(* The device's database cannot be reached or cleared: the hook logs it,    *)
(* lets the sync go on and does not tell the server.                        *)
ClearFails == /\ resetter = "clear" /\ resetter' = "idle" /\ Mishap
              /\ lost' = (lost \/ ~ pending)
              /\ UNCHANGED <<server, copy, sync, tasks, handed, missed, wanted, crossed, writes>>

ForgetCursor == /\ resetter = "forget" /\ resetter' = "idle"
                /\ cursor' = 0
                /\ crossed' = (sync.phase \notin {"idle", "hook"})
                /\ UNCHANGED <<server, cards, sync, tasks, handed, missed, asked, writes, mishaps>>

(* The preferences are not committed: the contacts are gone, the cursor     *)
(* stays.                                                                   *)
CommitFails == /\ resetter = "forget" /\ resetter' = "idle" /\ Mishap
               /\ crossed' = TRUE
               /\ UNCHANGED <<server, copy, sync, tasks, handed, missed, asked, writes>>

(* The device is killed, also with a reset claimed or half made.            *)
DeviceDies == /\ resetter # "idle" \/ sync.phase # "idle"
              /\ Mishap
              /\ resetter' = "idle" /\ tasks' = 0 /\ sync' = NoSync
              /\ crossed' = (crossed \/ resetter = "forget")
              /\ lost' = (lost \/ (resetter = "clear" /\ ~ pending))
              /\ UNCHANGED <<server, copy, handed, missed, wanted, writes>>

(* The server restarts: a stream breaks off, and the flag was in memory.    *)
Restart == /\ Mishap /\ pending' = FALSE
           /\ lost' = (lost \/ (pending /\ resetter # "clear"))
           /\ sync' = IF sync.phase \in {"listed", "pages"} THEN NoSync ELSE sync
           /\ UNCHANGED <<people, time, copy, thread, handed, missed, wanted, crossed, writes>>

ContactsTick == /\ time < MaxContactsTime /\ time' = time + 1
                /\ UNCHANGED <<people, pending, copy, sync, thread, contactPast, writes, mishaps>>

(* The clock is set back.                                                   *)
SetBack == /\ time > 1 /\ time' = time - 1 /\ Mishap
           /\ UNCHANGED <<people, pending, copy, sync, thread, contactPast, writes>>

ContactsNext == \/ \E i \in Ids : Delete(i) \/ \E card \in Cards : Upsert(i, card)
                \/ \E batch \in Batches : Import(batch)
                \/ StartSync \/ HookDone \/ AskChanges \/ AskAll \/ ListDeleted
                \/ Receive \/ SaveCursor \/ SyncBreaks
                \/ ClientReset \/ Claim \/ ClaimLost
                \/ ClearContacts \/ ClearFails \/ ForgetCursor \/ CommitFails
                \/ DeviceDies \/ Restart \/ ContactsTick \/ SetBack

ContactsSpec == ContactsInit /\ [][ContactsNext]_contactVars

-----------------------------------------------------------------------------
(* Rows and copies have the types the code gives them.                      *)
CTypeOK ==
    /\ people \in [Ids -> People \cup {Nothing}] /\ time \in 1..MaxContactsTime
    /\ cards \in [Ids -> Cards \cup {Nothing}] /\ cursor \in 0..MaxContactsTime
    /\ sync.phase \in {"idle", "hook", "ask", "listed", "pages", "save"}
    /\ resetter \in {"idle", "clear", "forget"} /\ pending \in BOOLEAN

Quiet == sync.phase = "idle" /\ resetter = "idle"

(* Between syncs the device has the contacts of the server as of its        *)
(* cursor: those not changed since it has, and those deleted it has not.    *)
(* Excepted are a reset that overran its two seconds into a sync, one that  *)
(* cleared the contacts and not the cursor, and a change whose time was     *)
(* already sent, or that fell between the two reads of a full listing.      *)
CopyFollows ==
    Quiet /\ ~ crossed =>
        \A i \in Ids \ missed :
            people[i] # Nothing /\ people[i].at <= cursor
            => cards[i] = IF people[i].live THEN people[i].card ELSE Nothing

(* A reset that was asked for and not made is still to be made, or was lost *)
(* in one of four ways: with the answer to its claim, with the memory of    *)
(* the server, with the device's process after the claim, or because the    *)
(* device's contacts could not be cleared.                                  *)
ResetKept == wanted => pending \/ resetter = "clear" \/ lost
=============================================================================
