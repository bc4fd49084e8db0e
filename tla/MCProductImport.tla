-------------------------- MODULE MCProductImport --------------------------
EXTENDS ProductImport, TLC

\* Products, texts and imports are only compared for equality.
Symmetry == Permutations(Product) \union Permutations(Text) \union Permutations(Import)
=============================================================================
