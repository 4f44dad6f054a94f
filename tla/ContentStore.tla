---------------------------- MODULE ContentStore -----------------------------
(***************************************************************************)
(* What a blob store promises its users: a map from digests to contents in *)
(* which a digest is absent or holds exactly the content it is the digest  *)
(* of.  Contents appear and disappear whole.  A digest is identified with  *)
(* its content: the hash is taken to have no collisions.                   *)
(***************************************************************************)
CONSTANTS Content,   \* the contents, and so the digests
          Absent     \* nothing is stored

VARIABLE store

Init == store = [d \in Content |-> Absent]

\* An upload of d becomes addressable.
Put(d) == store' = [store EXCEPT ![d] = d]

Delete(d) == store' = [store EXCEPT ![d] = Absent]

Next == \E d \in Content : Put(d) \/ Delete(d)

Spec == Init /\ [][Next]_store
=============================================================================
