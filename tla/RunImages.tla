----------------------------- MODULE RunImages -----------------------------
(* What a store of run images promises to AnalyzeImage and Understand: the  *)
(* image put for a run is found again under that run, and no other, while   *)
(* it is fresh and fewer than MaxImages other runs have been used since.    *)
EXTENDS Integers, FiniteSets

CONSTANTS Runs,       \* run ids
          Frames,     \* images
          NONE,       \* no image
          TTL,        \* how long an image lasts after its last use
          MaxImages,  \* how many runs the store remembers at least
          MaxTime     \* bound on the clock

VARIABLES
    put,      \* the last image put for each run
    used,     \* when it was put or last found
    answer,   \* what the last look for the run's image found
    now

vars == <<put, used, answer, now>>

Init == /\ put = [r \in Runs |-> NONE]
        /\ used = [r \in Runs |-> 0]
        /\ answer = [r \in Runs |-> NONE]
        /\ now = 0

Expired(r) == now - used[r] >= TTL

(* The runs used since r was, or at the same time.                          *)
Rivals(r) == {q \in Runs \ {r} : put[q] # NONE /\ used[q] >= used[r]}

MayForget(r) == put[r] = NONE \/ Expired(r) \/ Cardinality(Rivals(r)) >= MaxImages

Put(r, f) == /\ put' = [put EXCEPT ![r] = f]
             /\ used' = [used EXCEPT ![r] = now]
             /\ UNCHANGED <<answer, now>>

Hit(r) == /\ put[r] # NONE /\ ~ Expired(r)
          /\ answer' = [answer EXCEPT ![r] = put[r]]
          /\ used' = [used EXCEPT ![r] = now]
          /\ UNCHANGED <<put, now>>

Miss(r) == /\ MayForget(r)
           /\ answer' = [answer EXCEPT ![r] = NONE]
           /\ UNCHANGED <<put, used, now>>

Tick == /\ now < MaxTime
        /\ now' = now + 1
        /\ UNCHANGED <<put, used, answer>>

Next == \/ \E r \in Runs : \/ \E f \in Frames : Put(r, f)
                           \/ Hit(r) \/ Miss(r)
        \/ Tick

Spec == Init /\ [][Next]_vars
=============================================================================
