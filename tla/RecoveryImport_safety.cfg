SPECIFICATION Spec
CONSTANTS
  Calls = {c1, c2}
  Artifacts = {a1, d1, p1}
  Packages = {a1, p1}
  Foreign = {p1}
  RestorePoints = {d1}
  Trees = {t1, t2}
  Bundles = {b1}
  Packed = {t1, b1}
  Contents <- MCContents
  Importers = {c1}
  Loaders = {l1}
  Local = {t2}
  Embedded = {t1}
  NoLoad = NoLoad
INVARIANTS
  CatalogueHasBytes
  DeletedIsGone
  FailedCreateLeavesNothing
  NoDanglingRows
  FailedImportLeavesNothing
PROPERTY ImplementsArtifactLife
