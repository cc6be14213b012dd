-------------------------- MODULE LiveImageHistory --------------------------
(* LiveImageStore with the history that RunImages speaks of: what was put   *)
(* for a run, when it was last used, and what the last look for it found.   *)
EXTENDS LiveImageStore

VARIABLES put, used, answer

vars == <<images, now, put, used, answer>>
history == <<put, used, answer>>

HInit == /\ Init
         /\ put = [r \in Runs |-> NONE]
         /\ used = [r \in Runs |-> 0]
         /\ answer = [r \in Runs |-> NONE]

HPut(r, f) == /\ Put(r, f)
              /\ put' = [put EXCEPT ![r] = f]
              /\ used' = [used EXCEPT ![r] = now]
              /\ UNCHANGED answer

HGet(r, found) == /\ GetRefresh(r, found)
                  /\ answer' = [answer EXCEPT ![r] = found]
                  /\ used' = IF found = NONE THEN used ELSE [used EXCEPT ![r] = now]
                  /\ UNCHANGED put

HTick == Tick /\ UNCHANGED history

HNext == \/ \E r \in Runs, f \in Frames : HPut(r, f)
         \/ \E r \in Runs, found \in Frames \cup {NONE} : HGet(r, found)
         \/ HTick

HSpec == HInit /\ [][HNext]_vars

-----------------------------------------------------------------------------
Promise == INSTANCE RunImages WITH put <- put, used <- used, answer <- answer, now <- now

(* The store implements RunImages: a look that hits returns the last frame  *)
(* put for the run, one that misses has the excuse of age or of enough      *)
(* other runs, and nothing else a store does is visible.                    *)
ImplementsRunImages == Promise!Spec
=============================================================================
