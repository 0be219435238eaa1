---------------------- MODULE MCTitleCanonicalization ----------------------
EXTENDS TitleCanonicalization

\* 'a', space, and LINE SEPARATOR U+2028.
BoundaryCategory == (97 :> "Ll") @@ (32 :> "Zs") @@ (8232 :> "Zl")

MCBoundaryAlphabet == DOMAIN BoundaryCategory
=============================================================================
