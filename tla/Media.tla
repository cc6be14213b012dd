------------------------------- MODULE Media -------------------------------
(* The memories of the device: photos, videos and notes, created and        *)
(* uploaded through services/capture.rs and main.rs's upload handler, kept  *)
(* by storage.rs as a directory and by db.rs as a row, shown by api.rs.     *)
(*                                                                          *)
(* A handler holds the store's mutex and makes one call after the other to  *)
(* the file system or the database.  Every call runs on a blocking thread:  *)
(* when the client goes away the handler is dropped and frees the mutex,    *)
(* and the call it waited for is carried out later all the same.            *)
EXTENDS Integers, Sequences, FiniteSets, SequencesExt

CONSTANTS
    Memories,   \* uuids, each created at most once
    Unknown,    \* the directory for files nobody has heard of
    Assets,     \* what the device uploads of a photo or a video
    Thumbs,     \* how many thumbnails a photo comes with at most
    Body,       \* the file of a note or a food log
    Absent,     \* no row, no directory, no URL
    MaxFaults   \* bound on crashes, dropped clients, failing calls and lost events

VARIABLES
    table,       \* the table of memories, with their files
    disk,       \* the media directory
    holder,     \* the handler that holds the mutex, or Free
    late,       \* calls whose handler was dropped
    born,       \* the memories that were created, or begun
    known, url, sent,   \* the device: what it was told of, and what it has sent
    shown,      \* the portal: the memories it heard of
    spoiled,    \* history: uploads cut off by a retry, or sent to the unknown bucket
    doomed,     \* history: memories whose deletion has begun
    unseen,     \* history: memories whose change the portal was not told of
    faults

mediaStore  == <<table, disk>>
mediaDevice == <<born, known, url, sent>>
mediaPast   == <<spoiled, doomed, unseen>>
mediaVars   == <<mediaStore, holder, late, mediaDevice, shown, mediaPast, faults>>

Dirs  == Memories \cup {Unknown}
Names == Assets \cup 1..Thumbs \cup {Body}
Empty == [n \in Names |-> "none"]

Statuses    == {"pending", "complete", "failed"}
MemoryRows  == [status: Statuses, thumbs: 0..Thumbs, files: SUBSET Names]
Directories == [Names -> {"none", "cut", "whole"}]

ASSUME MediaAssumption ==
    /\ Thumbs \in Nat /\ MaxFaults \in Nat
    /\ Unknown \notin Memories /\ Absent \notin Dirs
    /\ Body \notin Assets /\ Body \notin 1..Thumbs /\ Assets \cap (1..Thumbs) = {}
    /\ Absent \notin MemoryRows /\ Absent \notin Directories

(* Nobody holds the mutex.                                                  *)
Free == [op |-> "none", memory |-> Absent, on |-> Absent, todo |-> << >>, more |-> {},
         changed |-> FALSE]

MediaInit == /\ table = [m \in Memories |-> Absent] /\ disk = [d \in Dirs |-> Absent]
             /\ holder = Free /\ late = {} /\ born = {}
             /\ known = {} /\ sent = {}
             /\ url = [m \in Memories |-> [a \in Assets |-> Absent]]
             /\ shown = [m \in Memories |-> "none"]
             /\ spoiled = {} /\ doomed = {} /\ unseen = {} /\ faults = 0

-----------------------------------------------------------------------------
(* The calls.  One that fails ends its handler (part 0), or a thumbnail or  *)
(* the body, of which the rest is then left out.                            *)
Call(do, at, on, part) == [do |-> do, at |-> at, on |-> on, part |-> part]

File(call, content) == disk' = [disk EXCEPT ![call.at][call.on] = content] /\ UNCHANGED table
Row(call, row)      == table' = [table EXCEPT ![call.at] = row] /\ UNCHANGED disk

Possible(call) ==
    CASE call.do \in {"truncate", "write"} -> disk[call.at] # Absent
      [] call.do = "add" -> table[call.at] # Absent      \* the foreign key
      [] OTHER -> TRUE

NewRow(files) == [status |-> "pending", thumbs |-> 0, files |-> files]

Update(call, field) ==
    IF table[call.at] = Absent THEN UNCHANGED mediaStore ELSE Row(call, field)

Do(call) ==
    \/ /\ call.do = "mkdir"
       /\ disk' = [disk EXCEPT ![call.at] = IF @ = Absent THEN Empty ELSE @]
       /\ UNCHANGED table
    \/ call.do = "insert"   /\ Row(call, NewRow(call.on))
    \/ call.do = "truncate" /\ File(call, "cut")
    \/ call.do = "write"    /\ File(call, "whole")
    \/ call.do = "count"    /\ Update(call, [table[call.at] EXCEPT !.thumbs = call.on])
    \/ call.do = "add"      /\ Row(call, [table[call.at] EXCEPT !.files = @ \cup {call.on}])
    \/ call.do = "status"   /\ Update(call, [table[call.at] EXCEPT !.status = call.on])
    \/ call.do = "remove"   /\ disk' = [disk EXCEPT ![call.at] = Absent] /\ UNCHANGED table
    \/ call.do = "delete"   /\ Row(call, Absent)

(* A crash or an error may leave the rows of the files unwritten, or a file *)
(* cut off.                                                                 *)
Half(call) == \/ call.do = "insert" /\ Row(call, NewRow({}))
              \/ call.do = "write" /\ disk[call.at] # Absent /\ File(call, "cut")

(* What a call takes away: a file that is written again, a whole memory.    *)
Cut(call)  == IF call.do = "truncate" THEN {<<call.at, call.on>>} ELSE {}
Doom(call) == IF call.do = "remove" THEN {call.at} ELSE {}

-----------------------------------------------------------------------------
Begin(op, m, on, todo, more) ==
    /\ holder = Free
    /\ holder' = [op |-> op, memory |-> m, on |-> on, todo |-> todo, more |-> more,
                  changed |-> FALSE]

(* Mutated forms (named ..._) of a definition stand before it: each is a    *)
(* bug the properties have to notice.                                       *)
Registered_RowFirst(m, files) == << Call("insert", m, files, 0), Call("mkdir", m, Absent, 0) >>
Registered(m, files) == << Call("mkdir", m, Absent, 0), Call("insert", m, files, 0) >>

(* save_thumbnail.                                                          *)
Thumbnail(m, i) == << Call("write", m, i, i), Call("count", m, i, i), Call("add", m, i, i) >>

(* save_upload.                                                             *)
Upload(d, name, part) == << Call("truncate", d, name, part), Call("write", d, name, part) >>

CreateMemory(m, files, todo, more) ==
    /\ m \notin born /\ born' = born \cup {m}
    /\ Begin("create", m, files, Registered(m, files) \o todo, more)
    /\ UNCHANGED <<mediaStore, late, known, url, sent, shown, mediaPast, faults>>

(* A photo or a video: its thumbnails come with it, its files later.        *)
CreateCapture(m) ==
    \E filled \in SUBSET (1..Thumbs) : CreateMemory(m, Assets, << >>, filled)

(* A note or a food log: all of it comes with the call, or it is empty.     *)
CreateNote(m) == \E body \in {<< >>, Upload(m, Body, 1)} : CreateMemory(m, {}, body, {})

(* upload_file: where to put the file; a name the database cannot place, or *)
(* fails to look up, goes to the unknown bucket.                            *)
Owner(m, a) == IF table[m] # Absent /\ a \in table[m].files THEN m ELSE Unknown

UploadFile(m, a) ==
    /\ holder = Free /\ m \in known
    /\ \/ url' = [url EXCEPT ![m][a] = Owner(m, a)] /\ UNCHANGED faults
       \/ url' = [url EXCEPT ![m][a] = Unknown] /\ faults < MaxFaults /\ faults' = faults + 1
    /\ UNCHANGED <<mediaStore, holder, late, born, known, sent, shown, mediaPast>>

PutFile(m, a) ==
    /\ url[m][a] # Absent
    /\ LET d == url[m][a]
       IN Begin("put", m, a, (IF disk[d] = Absent THEN << Call("mkdir", d, Absent, 0) >> ELSE << >>)
                             \o Upload(d, a, 0), {})
    /\ UNCHANGED <<mediaStore, late, mediaDevice, shown, mediaPast, faults>>

(* upload_complete: the device reports success when it has sent everything. *)
Report_AlwaysSuccess(m, success) ==
    /\ m \in known
    /\ success => \A a \in Assets : <<m, a>> \in sent
    /\ Begin("complete", m, Absent, << Call("status", m, "complete", 0) >>, {})
    /\ UNCHANGED <<mediaStore, late, mediaDevice, shown, mediaPast, faults>>

Report(m, success) ==
    /\ m \in known
    /\ success => \A a \in Assets : <<m, a>> \in sent
    /\ IF success THEN Begin("complete", m, Absent, << Call("status", m, "complete", 0) >>, {})
                  ELSE Begin("fail", m, Absent, << Call("status", m, "failed", 0) >>, {})
    /\ UNCHANGED <<mediaStore, late, mediaDevice, shown, mediaPast, faults>>

(* delete_memory, from the device or the portal.                            *)
DeleteMemory(m) ==
    /\ m \in known \/ table[m] # Absent
    /\ Begin("delete", m, Absent,
             (IF disk[m] # Absent THEN << Call("remove", m, Absent, 0) >> ELSE << >>)
             \o << Call("delete", m, Absent, 0) >>, {})
    /\ UNCHANGED <<mediaStore, late, mediaDevice, shown, mediaPast, faults>>

-----------------------------------------------------------------------------
Busy == holder # Free /\ holder.todo # << >>
Next1 == Head(holder.todo)

(* The handler with a part of its work done: the thumbnails that came with  *)
(* a photo are saved one after the other, in order.                         *)
Onward(todo) ==
    IF todo # << >> \/ holder.more = {} THEN [holder EXCEPT !.todo = todo]
    ELSE LET i == Min(holder.more)
         IN [holder EXCEPT !.todo = Thumbnail(holder.memory, i), !.more = @ \ {i}]

Step == /\ Busy /\ Possible(Next1) /\ Do(Next1)
        /\ holder' = [Onward(Tail(holder.todo)) EXCEPT
                         !.changed = Next1.at \in Memories /\ table[Next1.at] # Absent]
        /\ spoiled' = (spoiled \cup (Cut(Next1) \cap sent))
                      \ (IF Next1.do = "write" THEN {<<Next1.at, Next1.on>>} ELSE {})
        /\ doomed' = doomed \cup Doom(Next1)
        /\ UNCHANGED <<late, mediaDevice, shown, unseen, faults>>

(* A call that fails: the part of it is left out, or the handler ends with  *)
(* an error.                                                                *)
Fault == faults < MaxFaults /\ faults' = faults + 1
Unfinished == unseen' = unseen \cup {holder.memory}

Fails == /\ Busy
         /\ IF Possible(Next1) THEN Fault /\ (Half(Next1) \/ UNCHANGED mediaStore)
                               ELSE UNCHANGED <<mediaStore, faults>>
         /\ IF Next1.part = 0
              THEN holder' = Free /\ Unfinished
              ELSE holder' = Onward(<< >>) /\ UNCHANGED unseen
         /\ UNCHANGED <<late, mediaDevice, shown, spoiled, doomed>>

Dropped == /\ holder # Free /\ Fault /\ Unfinished
           /\ holder' = Free
           /\ late' = IF Busy THEN late \cup {Next1} ELSE late
           /\ UNCHANGED <<mediaStore, mediaDevice, shown, spoiled, doomed>>

Late(call) == /\ late' = late \ {call}
              /\ IF Possible(call)
                   THEN /\ Do(call)
                        /\ spoiled' = spoiled \cup Cut(call) /\ doomed' = doomed \cup Doom(call)
                   ELSE UNCHANGED <<mediaStore, spoiled, doomed>>
              /\ unseen' = unseen \cup ({call.at} \cap Memories)
              /\ UNCHANGED <<holder, mediaDevice, shown, faults>>

(* The server is killed and started again; the portal lists anew.           *)
View(m) == IF table'[m] = Absent THEN "none" ELSE
           IF table'[m].status = "complete" THEN "complete" ELSE "pending"

Crash == /\ holder # Free \/ late # {}
         /\ Fault
         /\ \/ Busy /\ Half(Next1)
            \/ UNCHANGED mediaStore
         /\ holder' = Free /\ late' = {} /\ unseen' = {}
         /\ shown' = [m \in Memories |-> View(m)]
         /\ UNCHANGED <<mediaDevice, spoiled, doomed>>

(* The end of a handler: the event for the portal, and the reply.  The      *)
(* stream of a slow portal skips an event, and a memory that cannot be read *)
(* back after its creation has none.                                        *)
NoEvent == UNCHANGED <<shown, unseen, faults>>
Untold  == Fault /\ Unfinished /\ UNCHANGED shown

Told(m, heard) == \/ shown' = [shown EXCEPT ![m] = heard] /\ UNCHANGED <<unseen, faults>>
                  \/ Untold

Announce_AnyCompletion ==
    LET m == holder.memory IN
    CASE holder.op = "create" /\ table[m] # Absent   -> Told(m, "pending") \/ Untold
      [] holder.op = "complete"                     -> Told(m, "complete")
      [] holder.op = "delete" /\ holder.changed     -> Told(m, "none")
      [] OTHER -> NoEvent

Announce ==
    LET m == holder.memory IN
    CASE holder.op = "create" /\ table[m] # Absent   -> Told(m, "pending") \/ Untold
      [] holder.op = "complete" /\ holder.changed   -> Told(m, "complete")
      [] holder.op = "delete" /\ holder.changed     -> Told(m, "none")
      [] OTHER -> NoEvent

Reply == LET m == holder.memory  upload == <<m, holder.on>> IN
    /\ known' = IF holder.op = "create" /\ holder.on = Assets THEN known \cup {m} ELSE known
    /\ sent'  = IF holder.op = "put" THEN sent \cup {upload} ELSE sent
    /\ spoiled' = IF holder.op = "put" /\ url[m][holder.on] = Unknown THEN spoiled \cup {upload}
                                                                    ELSE spoiled

Finish == /\ holder # Free /\ holder.todo = << >> /\ holder' = Free
          /\ Announce
          /\ Reply \/ UNCHANGED <<known, sent, spoiled>>     \* the reply is lost
          /\ UNCHANGED <<mediaStore, late, born, url, doomed>>

MediaNext == \/ \E m \in Memories :
                   \/ CreateCapture(m) \/ CreateNote(m) \/ DeleteMemory(m)
                   \/ \E a \in Assets : UploadFile(m, a) \/ PutFile(m, a)
                   \/ \E success \in BOOLEAN : Report(m, success)
             \/ Step \/ Fails \/ Dropped \/ Crash \/ Finish
             \/ \E call \in late : Late(call)

MediaSpec == MediaInit /\ [][MediaNext]_mediaVars

-----------------------------------------------------------------------------
(* Rows, files and views have the types the code gives them.                *)
MTypeOK ==
    /\ table \in [Memories -> MemoryRows \cup {Absent}]
    /\ disk \in [Dirs -> Directories \cup {Absent}]
    /\ shown \in [Memories -> {"none", "pending", "complete"}]
    /\ sent \subseteq Memories \X Assets /\ spoiled \subseteq Dirs \X Names

Listed(m) == table[m] # Absent /\ m \notin doomed

(* A memory that is complete has all its files, whatever was dropped on the *)
(* way, but for what its deletion, an upload cut off later or a failed      *)
(* look-up took away.                                                       *)
CompleteMeansUploaded ==
    \A m \in Memories : \A a \in Assets :
        Listed(m) /\ table[m].status = "complete" /\ a \in table[m].files
        => \/ disk[m] # Absent /\ disk[m][a] = "whole"
           \/ <<m, a>> \in spoiled

(* "Create memory record + directory first (so thumbnail writes succeed)":  *)
(* a memory in the table has its directory, until its deletion begins, and  *)
(* the last thumbnail that is counted can be read.                          *)
RowsHaveFiles ==
    \A m \in Memories : Listed(m) =>
        /\ disk[m] # Absent
        /\ table[m].thumbs > 0 => disk[m][table[m].thumbs] = "whole"


(* The portal shows the memories there are, and the complete ones as        *)
(* complete, but for those whose last change it was not told of: by a       *)
(* handler that was dropped or failed, by one that could not read back what *)
(* it had created, or because its stream skipped the event.                 *)
PortalAgrees ==
    holder = Free => \A m \in Memories \ unseen :
        /\ table[m] = Absent <=> shown[m] = "none"
        /\ table[m] # Absent /\ table[m].status = "complete" => shown[m] = "complete"
=============================================================================
