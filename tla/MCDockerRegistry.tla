-------------------------- MODULE MCDockerRegistry ---------------------------
(* An image index of one platform image, that image, two signatures of it,  *)
(* and a second image that shares the layer of the first.                   *)
EXTENDS DockerRegistry, TLC

CONSTANTS idx, img, alt, sig, sbom, lay, sgn, signed

LayersOf == [m \in Manifests |->
               CASE m \in {img, alt} -> {lay} [] m = sig -> {sgn} [] OTHER -> {}]
SubsOf == [m \in Manifests |-> IF m = idx THEN {img} ELSE {}]
SubjectOf == [m \in Manifests |-> IF m \in {sig, sbom} THEN img ELSE None]
CosignedOf == [t \in Tags |-> IF t = signed THEN img ELSE None]
SourceTagOf == [t \in Tags |-> IF t = signed THEN sig ELSE None]
PusherSymmetry == Permutations(Pushers)
=============================================================================
