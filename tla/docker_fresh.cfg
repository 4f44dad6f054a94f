SPECIFICATION Spec
CONSTANTS
  idx = idx
  img = img
  alt = alt
  sig = sig
  sbom = sbom
  lay = lay
  sgn = sgn
  None = none
  signed = signed
  Manifests = {idx, img, alt}
  Blobs = {lay}
  Tags = {latest, v1}
  Immutable = {v1}
  Pushers = {p1, p2}
  Reuse = {}
  Fresh = TRUE
  Overlap = TRUE
  Deletes = {"tag"}
  Promotes = FALSE
  MaxFaults = 0
  Cosigned <- CosignedOf
  SourceTag <- SourceTagOf
  Layers <- LayersOf
  Subs <- SubsOf
  Subject <- SubjectOf
INVARIANT TagClosed
SYMMETRY PusherSymmetry
