------------------------------- MODULE Stores -------------------------------
(* The stores of the server side by side: the images of the runs, the log   *)
(* of the conversations, the memories and the contacts.  Each has its own   *)
(* tables, files and mutex and its own callers, so they share no state.     *)
EXTENDS LiveImageHistory, ConversationLog, Media, Contacts

(* Every variable of the log, the memories and the contacts has the type    *)
(* the code gives it.                                                       *)
StoresTyped == LogTypeOK /\ MTypeOK /\ CTypeOK
=============================================================================
