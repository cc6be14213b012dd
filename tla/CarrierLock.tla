---------------------------- MODULE CarrierLock ----------------------------
(* Two hooks of EsimLpaHooks.kt that meet in one flag.  While a download is *)
(* verified every profile is called "Humane", so that the vendor's carrier  *)
(* lock does not delete it; and a protected profile, known by its name, is  *)
(* not deleted.                                                             *)
EXTENDS Naturals, FiniteSets

CONSTANTS Intents,    \* intents for the LPA's service
          Kind,       \* "download", "delete" or "other", of each intent
          Overlap     \* TRUE if an intent may arrive before the last one's work ended

ASSUME LockAssumption ==
    Kind \in [Intents -> {"download", "delete", "other"}] /\ Overlap \in BOOLEAN

VARIABLES
    bypassActive,
    protected,   \* the intents whose profile has a protected name
    unread,      \* the intents for which looking at the profiles failed
    pc           \* how far the work of each intent is

lockVars == <<bypassActive, protected, unread, pc>>

Over == {"done", "kept", "deleted", "blocked"}

LockInit == /\ bypassActive = FALSE
            /\ protected \in SUBSET Intents
            /\ unread = {}
            /\ pc = [i \in Intents |-> "idle"]

Goto(i, from, to) == pc[i] = from /\ pc' = [pc EXCEPT ![i] = to]

-----------------------------------------------------------------------------
(* onStartCommand, with its hook.  A mutated form stands before it: it does *)
(* not clear the flag.                                                      *)
OnStartCommand_KeepsBypass(i) ==
    /\ Overlap \/ \A j \in Intents : pc[j] \in Over \cup {"idle"}
    /\ Goto(i, "idle", Kind[i])
    /\ UNCHANGED <<bypassActive, protected, unread>>

OnStartCommand(i) ==
    /\ Overlap \/ \A j \in Intents : pc[j] \in Over \cup {"idle"}
    /\ Goto(i, "idle", Kind[i])
    /\ bypassActive' = FALSE
    /\ UNCHANGED <<protected, unread>>

OtherWork(i) == Goto(i, "other", "done") /\ UNCHANGED <<bypassActive, protected, unread>>

(* downloadVerifyAndEnableProfileAPI, with its hook.                        *)
StartDownload(i) == /\ Goto(i, "download", "verify")
                    /\ bypassActive' = TRUE
                    /\ UNCHANGED <<protected, unread>>

(* The vendor's check: a profile that is not "Humane" is deleted.           *)
CheckCarrierLock(i) ==
    /\ Goto(i, "verify", IF bypassActive THEN "kept" ELSE "delete")
    /\ UNCHANGED <<bypassActive, protected, unread>>

(* deleteProfileUtil behind its hook, which reads the name it protects      *)
(* through the patched getProfileName.                                      *)
DeleteProfileUtil(i) ==
    /\ Goto(i, "delete", IF i \in protected /\ ~ bypassActive THEN "blocked" ELSE "deleted")
    /\ UNCHANGED <<bypassActive, protected, unread>>

(* The look at the profiles throws: "allowing delete".                      *)
InspectionFails(i) ==
    /\ Goto(i, "delete", "deleted")
    /\ unread' = unread \cup {i}
    /\ UNCHANGED <<bypassActive, protected>>

LockNext == \E i \in Intents :
                \/ OnStartCommand(i) \/ OtherWork(i)
                \/ StartDownload(i) \/ CheckCarrierLock(i)
                \/ DeleteProfileUtil(i) \/ InspectionFails(i)

LockSpec == LockInit /\ [][LockNext]_lockVars

-----------------------------------------------------------------------------
(* As long as intents do not overlap, a protected profile is deleted only   *)
(* if its name could not be read: a download leaves no flag behind that     *)
(* would hide it.                                                           *)
ProtectedKept == \A i \in protected \ unread : pc[i] # "deleted"
=============================================================================
