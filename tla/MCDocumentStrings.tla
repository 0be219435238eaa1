------------------------- MODULE MCDocumentStrings -------------------------
(***************************************************************************)
(* The two string algorithms of Document.cpp in one run: isValidName and  *)
(* parseQualifiedName over every name of up to three code points, and     *)
(* canonicalizedTitle over every title of up to five code units.  Each    *)
(* generator moves only while the other string is empty, so the states    *)
(* are the names plus the titles, not their product.                       *)
(***************************************************************************)
EXTENDS TLC

U(cat, decomp) == [cat |-> cat, decomp |-> decomp]

(* ASCII: letter, digit, ':', '_', '-', '.', space; Latin-1: middle dot,  *)
(* A-grave; U+02C0 (rule e); U+0301 (a combining mark); U+0660 (a         *)
(* non-ASCII digit); U+2102 (font decomposition); U+2160 (a number letter *)
(* with a compat decomposition); U+FB01 (compatibility area); U+10400 (a  *)
(* supplementary letter); a lone lead surrogate.                          *)
AgreedInfo ==
  (97 :> U("Ll", "none")) @@ (48 :> U("Nd", "none")) @@ (58 :> U("Po", "none"))
  @@ (95 :> U("Pc", "none")) @@ (45 :> U("Pd", "none")) @@ (46 :> U("Po", "none"))
  @@ (32 :> U("Zs", "none")) @@ (183 :> U("Po", "none")) @@ (192 :> U("Lu", "canonical"))
  @@ (704 :> U("Lm", "none")) @@ (769 :> U("Mn", "none")) @@ (1632 :> U("Nd", "none"))
  @@ (8450 :> U("Lu", "font")) @@ (8544 :> U("Nl", "compat")) @@ (64257 :> U("Ll", "compat"))
  @@ (66560 :> U("Lu", "none")) @@ (55297 :> U("Cs", "none"))

(* 'a', 'b', space, tab, DEL, and NO-BREAK SPACE (a space separator that  *)
(* neither loop of canonicalizedTitle converts).                           *)
AgreedCategory == (97 :> "Ll") @@ (98 :> "Ll") @@ (32 :> "Zs") @@ (9 :> "Cc")
                  @@ (127 :> "Cc") @@ (160 :> "Zs")

VARIABLES name, title

Names == INSTANCE NameValidation
           WITH Alphabet <- DOMAIN AgreedInfo, Info <- AgreedInfo, MaxNameLength <- 3
Titles == INSTANCE TitleCanonicalization
           WITH Alphabet <- DOMAIN AgreedCategory, Category <- AgreedCategory,
                MaxTitleLength <- 5

vars == <<name, title>>

Init == Names!Init /\ Titles!Init

Next ==
  \/ title = <<>> /\ Names!Next /\ UNCHANGED title
  \/ name = <<>> /\ Titles!Next /\ UNCHANGED name

Spec == Init /\ [][Next]_vars

(* isValidName, through the ASCII fast path or either slow path and after *)
(* UTF-16 decoding, accepts exactly the names the rules of the comment in *)
(* Document.cpp allow (NameValidation).                                    *)
IsValidNameFollowsRules == Names!IsValidNameFollowsRules

(* parseQualifiedName accepts exactly the QNames and splits them at the   *)
(* colon into prefix and local name (NameValidation).                      *)
ParseQualifiedNameFollowsQName == Names!ParseQualifiedNameFollowsQName

(* canonicalizedTitle strips, converts and collapses exactly as its        *)
(* comments say (TitleCanonicalization).                                   *)
TitleFollowsComment == Titles!TitleFollowsComment
=============================================================================
