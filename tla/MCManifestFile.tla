--------------------------- MODULE MCManifestFile ---------------------------
EXTENDS ManifestFile, TLC

Symmetry == Permutations(Manifests)
=============================================================================
