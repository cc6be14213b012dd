--------------------------- MODULE LiveImageStore ---------------------------
(* The image store of server-rs/src/synapse/image_store.rs: AnalyzeImage    *)
(* puts the captured frame of a run into it, Understand looks for it.       *)
(*                                                                          *)
(* Each operation holds the store's mutex from end to end and is one        *)
(* action: it prunes first, and a put inserts after pruning.                *)
EXTENDS Integers, FiniteSets

CONSTANTS Runs,       \* run ids
          Frames,     \* JPEG bytes
          NONE,       \* Rust's None
          TTL,        \* IMAGE_TTL
          MaxImages,  \* MAX_IMAGES
          MaxTime     \* bound on the clock

Entry == [bytes: Frames, last_access: Nat]

ASSUME ImagesAssumption ==
    /\ NONE \notin Frames /\ NONE \notin Entry
    /\ TTL \in Nat \ {0} /\ MaxImages \in Nat \ {0} /\ MaxTime \in Nat
    /\ IsFiniteSet(Runs)

VARIABLES images,   \* LiveImageStore.inner
          now       \* the clock

Init == images = [r \in Runs |-> NONE] /\ now = 0

Held == {r \in Runs : images[r] # NONE}
Fresh == {r \in Held : now - images[r].last_access < TTL}

(* prune: the entries younger than the lifetime, or the MaxImages last used *)
(* of them; the sort over a hash map leaves ties open.                      *)
Pruned(keep) ==
    /\ keep \subseteq Fresh
    /\ IF Cardinality(Fresh) <= MaxImages THEN keep = Fresh
       ELSE /\ Cardinality(keep) = MaxImages
            /\ \A k \in keep, d \in Fresh \ keep :
                  images[k].last_access >= images[d].last_access

Kept(keep) == [r \in Runs |-> IF r \in keep THEN images[r] ELSE NONE]

-----------------------------------------------------------------------------
(* Mutated forms (named ..._) of the definitions below stand before them:   *)
(* each is a bug the properties have to notice.                             *)
Put_NoPrune(r, f) ==
    /\ images' = [images EXCEPT ![r] = [bytes |-> f, last_access |-> now]]
    /\ UNCHANGED now

Put(r, f) ==
    /\ \E keep \in SUBSET Runs :
          /\ Pruned(keep)
          /\ images' = [Kept(keep) EXCEPT ![r] = [bytes |-> f, last_access |-> now]]
    /\ UNCHANGED now

(* get_refresh, which returns found.                                        *)
GetRefresh_KeepsTime(r, found) ==
    /\ \E keep \in SUBSET Runs :
          /\ Pruned(keep)
          /\ found = IF r \in keep THEN images[r].bytes ELSE NONE
          /\ images' = Kept(keep)
    /\ UNCHANGED now

GetRefresh(r, found) ==
    /\ \E keep \in SUBSET Runs :
          /\ Pruned(keep)
          /\ found = IF r \in keep THEN images[r].bytes ELSE NONE
          /\ images' = IF r \in keep THEN [Kept(keep) EXCEPT ![r].last_access = now]
                                     ELSE Kept(keep)
    /\ UNCHANGED now

Tick == now < MaxTime /\ now' = now + 1 /\ UNCHANGED images

-----------------------------------------------------------------------------
(* Every variable has the type image_store.rs gives it.                     *)
TypeOK == images \in [Runs -> Entry \cup {NONE}] /\ now \in Nat

(* However many runs there are, the store holds at most one image more than *)
(* its cap: a put prunes before it inserts.                                 *)
BoundedByOneMore == Cardinality(Held) <= MaxImages + 1
=============================================================================
