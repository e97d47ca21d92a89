---------------------------- MODULE SobTreeHandoff ----------------------------
(***************************************************************************)
(* The promise behind both ways of handing a full leaf to a worker.        *)
(* sobtree_v2.h keeps a version in the job and takes the leaf's lock in a  *)
(* transaction; sobtree_v2a.h takes it by compare-and-swap and looks at    *)
(* the version under the lock.  What the index needs of either is only     *)
(* this: a worker may take any full, unlocked leaf no other thread has use *)
(* for, and then split it or give it back.  SpecAny adds that step, and a  *)
(* fill without a job, to the steps of SobTree.                            *)
(***************************************************************************)
EXTENDS SobTreeInv

-----------------------------------------------------------------------------
\* Nobody's new leaf is l, or comes from l.
NotCarried(l) ==
  \A u \in Thread : Carries(u) => loc[u].lp # l /\ loc[u].ptr # l

\* Worker w has taken a full leaf: it splits it, or gives it back as it is.
TakeLeaf(w) ==
  /\ pc[w] = "pop"
  /\ \E r \in Local, label \in {"copy", "unlock"} :
       /\ r.lp < nleaf
       /\ ~meta[r.lp].lock /\ isFull(r.lp) /\ NotCarried(r.lp)
       /\ meta' = [meta EXCEPT ![r.lp].lock = TRUE]
       /\ loc' = [loc EXCEPT ![w] = r]
       /\ Goto(w, label)
  /\ UNCHANGED <<search_layer, tail, version, nleaf, job_queue>>

\* FillSlot, with no job to push.
FillOnly(t) ==
  LET m == [loc[t].meta EXCEPT !.bitmap = @ \cup {loc[t].key}] IN
  /\ pc[t] = "fill"
  /\ meta' = [meta EXCEPT ![loc[t].lp] = m]
  /\ loc' = [loc EXCEPT ![t].meta = m]
  /\ Goto(t, "ret")
  /\ UNCHANGED <<search_layer, tail, version, nleaf, job_queue>>

Fills(t) == FillSlot(t) \/ FillOnly(t)

NextAny ==
  \/ Next
  \/ \E w \in Worker : TakeLeaf(w)
  \/ \E t \in Foreground : FillOnly(t)

SpecAny == Init /\ [][NextAny]_vars

-----------------------------------------------------------------------------
\* A thread's new leaf has room, and so has the leaf it was split from once
\* the split is published: neither is anybody's to take.
RoomInv ==
  \A t \in Thread :
    /\ Carries(t) => /\ ~isFull(loc[t].ptr)
                     /\ pc[t] # "publish" => ~isFull(loc[t].lp)
    /\ pc[t] \in {"publish", "addleft"} =>
         Cardinality(loc[t].meta.bitmap) = SPLIT
=============================================================================
