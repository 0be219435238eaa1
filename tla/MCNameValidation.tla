-------------------------- MODULE MCNameValidation --------------------------
(* The boundary code points of the name rules, with the general category  *)
(* and decomposition type the Unicode database gives them; the agreed     *)
(* alphabet is in MCDocumentStrings.                                      *)
EXTENDS NameValidation

U(cat, decomp) == [cat |-> cat, decomp |-> decomp]

(* U+00AA (a letter with a <super> decomposition), U+20DD (an enclosing  *)
(* mark of rule f) and U+F900 (the first code point of the compatibility *)
(* area, with a canonical decomposition).                                 *)
BoundaryInfo ==
  (97 :> U("Ll", "none")) @@ (170 :> U("Lo", "super"))
  @@ (8413 :> U("Me", "none")) @@ (63744 :> U("Lo", "canonical"))
MCBoundaryAlphabet == DOMAIN BoundaryInfo
=============================================================================
