SPECIFICATION Spec
CONSTANTS
  idx = idx
  img = img
  alt = alt
  sig = sig
  sbom = sbom
  lay = lay
  sgn = sgn
  None = none
  signed = signed
  Manifests = {idx, img, sig}
  Blobs = {lay, sgn}
  Tags = {latest, signed}
  Immutable = {signed}
  Pushers = {p1}
  Reuse = {"blob"}
  Fresh = FALSE
  Overlap = FALSE
  Deletes = {"tag", "manifest", "blob"}
  Promotes = TRUE
  MaxFaults = 0
  Cosigned <- CosignedOf
  SourceTag <- SourceTagOf
  Layers <- LayersOf
  Subs <- SubsOf
  Subject <- SubjectOf
INVARIANT TagClosed
INVARIANT ReferrersSound
INVARIANT GCComplete
PROPERTY ImmutableKept
