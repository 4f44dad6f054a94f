SPECIFICATION Spec
CONSTANTS
  idx = idx
  img = img
  alt = alt
  sig = sig
  sbom = sbom
  lay = lay
  sgn = sgn
  None = none
  signed = signed
  Manifests = {img, sig, sbom}
  Blobs = {lay, sgn}
  Tags = {latest}
  Immutable = {}
  Pushers = {p1}
  Reuse = {"blob"}
  Fresh = FALSE
  Overlap = FALSE
  Deletes = {"tag", "manifest"}
  Promotes = FALSE
  MaxFaults = 1
  Cosigned <- CosignedOf
  SourceTag <- SourceTagOf
  Layers <- LayersOf
  Subs <- SubsOf
  Subject <- SubjectOf
INVARIANT ReferrersComplete
