----------------------------- MODULE BufferRefs -----------------------------
(***************************************************************************)
(* What the lifecycle manager promises, with no tables, ids or kernel:     *)
(* each native handle in the process carries references to one kernel      *)
(* object; a call adds or drops one reference of one handle; an object     *)
(* has a Buffer in the process exactly while some handle holds a           *)
(* reference to it.  Handles without references come and go freely.        *)
(***************************************************************************)
EXTENDS Naturals

CONSTANTS Hnds, Objs

VARIABLES
    hobj,   \* the handles present in the process and the object each names
    refs,   \* references held through each handle
    live    \* objects that have a Buffer in the process

vars == <<hobj, refs, live>>

Holders(r) == {h \in Hnds : r[h] > 0}

(* A step never frees or re-points a handle that still holds references.  *)
HeldStable ==
    /\ DOMAIN hobj' \subseteq Hnds
    /\ \A h \in DOMAIN hobj' : hobj'[h] \in Objs
    /\ \A h \in Holders(refs') :
        /\ h \in DOMAIN hobj'
        /\ h \in Holders(refs) => h \in DOMAIN hobj /\ hobj'[h] = hobj[h]

Init ==
    /\ hobj = [h \in {} |-> {}]
    /\ refs = [h \in Hnds |-> 0]
    /\ live = {}

(* One more reference through h: its object has a Buffer.                 *)
Acquire(h) ==
    /\ h \in DOMAIN hobj'
    /\ refs' = [refs EXCEPT ![h] = @ + 1]
    /\ live' = live \cup {hobj'[h]}

(* One reference through h fewer: the Buffer goes with the last one.      *)
Drop(h) ==
    /\ refs[h] > 0
    /\ refs' = [refs EXCEPT ![h] = @ - 1]
    /\ live' = IF \E x \in Holders(refs') : hobj[x] = hobj[h]
               THEN live ELSE live \ {hobj[h]}

(* Handles arrive or are freed; no reference changes.                     *)
Env == UNCHANGED <<refs, live>>

Next == HeldStable /\ (Env \/ \E h \in Hnds : Acquire(h) \/ Drop(h))

Spec == Init /\ [][Next]_vars

=============================================================================
