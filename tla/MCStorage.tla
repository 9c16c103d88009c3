----------------------------- MODULE MCStorage ------------------------------
\* Small instances of Storage.
EXTENDS Storage, TLC

Symmetric == Permutations(Addresses) \union Permutations(Storages)
=============================================================================
