--------------------------- MODULE NameValidation ---------------------------
(***************************************************************************)
(* The name checks of src/sky/engine/core/dom/Document.cpp, as pure       *)
(* operators over UTF-16 code units:                                       *)
(*   - isValidNameStart / isValidNamePart (rules (a)-(j) of the comment    *)
(*     above them);                                                        *)
(*   - Document::isValidName, with its ASCII fast path and the 8-bit and   *)
(*     16-bit slow paths (Element::setAttribute and createElement reject   *)
(*     a name it refuses);                                                 *)
(*   - Document::parseQualifiedName (prefix ":" localName).               *)
(* The Unicode data the code asks ICU for (general category and           *)
(* decomposition type) is the constant Info, given per code point.        *)
(* The checks compare them with reference definitions taken from the      *)
(* rules the comment states and from the QName production, on every name  *)
(* of a bounded length over a small alphabet.                             *)
(***************************************************************************)
EXTENDS Integers, SequencesExt

CONSTANTS
  Alphabet,      \* code points names are made of
  Info,          \* Info[c] = [cat |-> general category, decomp |-> decomposition type]
  MaxNameLength  \* longest name, in code points

ASSUME /\ Info \in [Alphabet -> [cat : STRING, decomp : STRING]]
       /\ MaxNameLength \in Nat

Colon == 58
Underscore == 95
Hyphen == 45
Period == 46

(***************************************************************************)
(* UTF-16.  A supplementary code point is a surrogate pair; a lone lead   *)
(* surrogate is one unit.  U16Next is ICU's U16_NEXT on 1-based indices.  *)
(***************************************************************************)
IsLead(u) == u >= 55296 /\ u <= 56319     \* 0xD800..0xDBFF
IsTrail(u) == u >= 56320 /\ u <= 57343    \* 0xDC00..0xDFFF

EncodeChar(c) ==
  IF c >= 65536
  THEN <<55296 + (c - 65536) \div 1024, 56320 + ((c - 65536) % 1024)>>
  ELSE <<c>>

Encode(cps) == FlattenSeq([i \in DOMAIN cps |-> EncodeChar(cps[i])])

U16Next(units, i) ==
  IF IsLead(units[i]) /\ i < Len(units) /\ IsTrail(units[i + 1])
  THEN [c |-> 65536 + (units[i] - 55296) * 1024 + (units[i + 1] - 56320), next |-> i + 2]
  ELSE [c |-> units[i], next |-> i + 1]

(***************************************************************************)
(* isValidNameStart and isValidNamePart.  The compatibility area test is  *)
(* c >= 0xF900, and only font and compat decompositions are refused.      *)
(***************************************************************************)
NameStartCategories == {"Ll", "Lu", "Lo", "Lt", "Nl"}
OtherNamePartCategories == {"Mn", "Me", "Mc", "Lm", "Nd"}
InCompatibilityArea(c) == c >= 63744 /\ c < 65534     \* 0xF900 <= c < 0xFFFE

IsValidNameStart(c) ==
  \/ (c >= 699 /\ c <= 705) \/ c \in {1369, 1765, 1766}   \* 0x2BB-0x2C1, 0x559, 0x6E5, 0x6E6
  \/ c \in {Colon, Underscore}
  \/ /\ Info[c].cat \in NameStartCategories
     /\ ~InCompatibilityArea(c)
     /\ Info[c].decomp \notin {"font", "compat"}

IsValidNamePart(c) ==
  \/ IsValidNameStart(c)
  \/ c \in {183, 903}                                      \* 0xB7, 0x387
  \/ c \in {Hyphen, Period}
  \/ /\ Info[c].cat \in OtherNamePartCategories
     /\ ~InCompatibilityArea(c)
     /\ Info[c].decomp \notin {"font", "compat"}

(***************************************************************************)
(* Document::isValidName.  A String is 8-bit or 16-bit by representation: *)
(* a 16-bit string may hold only Latin-1 units, so both paths are checked *)
(* for such names.                                                         *)
(***************************************************************************)
IsASCIIAlpha(c) == (c >= 65 /\ c <= 90) \/ (c >= 97 /\ c <= 122)
IsASCIIAlphanumeric(c) == IsASCIIAlpha(c) \/ (c >= 48 /\ c <= 57)

(* Mutant: the fast path lets a name start with a digit.                 *)
IsValidNameASCIIDigitStart(units) ==
  /\ IsASCIIAlphanumeric(units[1]) \/ units[1] \in {Colon, Underscore}
  /\ \A i \in 2 .. Len(units) :
       IsASCIIAlphanumeric(units[i]) \/ units[i] \in {Colon, Underscore, Hyphen, Period}

IsValidNameASCII(units) ==
  /\ IsASCIIAlpha(units[1]) \/ units[1] \in {Colon, Underscore}
  /\ \A i \in 2 .. Len(units) :
       IsASCIIAlphanumeric(units[i]) \/ units[i] \in {Colon, Underscore, Hyphen, Period}

IsValidNameNonASCII8(units) ==
  /\ IsValidNameStart(units[1])
  /\ \A i \in 2 .. Len(units) : IsValidNamePart(units[i])

RECURSIVE NamePartsFrom(_, _)
NamePartsFrom(units, i) ==
  i > Len(units)
  \/ LET r == U16Next(units, i) IN IsValidNamePart(r.c) /\ NamePartsFrom(units, r.next)

IsValidNameNonASCII16(units) ==
  LET r == U16Next(units, 1) IN IsValidNameStart(r.c) /\ NamePartsFrom(units, r.next)

IsValidName(units, is8Bit) ==
  /\ Len(units) # 0
  /\ IsValidNameASCII(units)
       \/ IF is8Bit THEN IsValidNameNonASCII8(units) ELSE IsValidNameNonASCII16(units)

Representations(units) ==
  IF \A i \in DOMAIN units : units[i] < 256 THEN BOOLEAN ELSE {FALSE}

(***************************************************************************)
(* Document::parseQualifiedName and parseQualifiedNameInternal: the scan  *)
(* loop, then the split at the colon.  An exception is an error code.     *)
(***************************************************************************)
Failed(error) == [ok |-> FALSE, error |-> error, prefix |-> <<>>, localName |-> <<>>]

(* Mutant: the character after the colon is not checked as a name start. *)
RECURSIVE QualifiedNameScanNoRestart(_, _)
QualifiedNameScanNoRestart(units, st) ==
  IF st.i > Len(units) \/ st.error # "none" THEN st
  ELSE LET r == U16Next(units, st.i) IN
       CASE r.c = Colon /\ st.sawColon -> [st EXCEPT !.error = "NamespaceError"]
         [] r.c = Colon ->
              QualifiedNameScanNoRestart(units, [st EXCEPT !.i = r.next,
                                                  !.sawColon = TRUE, !.colonPos = r.next - 2])
         [] st.nameStart /\ ~IsValidNameStart(r.c) -> [st EXCEPT !.error = "InvalidCharacterError"]
         [] ~st.nameStart /\ ~IsValidNamePart(r.c) -> [st EXCEPT !.error = "InvalidCharacterError"]
         [] OTHER -> QualifiedNameScanNoRestart(units, [st EXCEPT !.i = r.next, !.nameStart = FALSE])

RECURSIVE QualifiedNameScan(_, _)
QualifiedNameScan(units, st) ==
  IF st.i > Len(units) \/ st.error # "none" THEN st
  ELSE LET r == U16Next(units, st.i) IN
       CASE r.c = Colon /\ st.sawColon -> [st EXCEPT !.error = "NamespaceError"]
         [] r.c = Colon ->
              QualifiedNameScan(units, [st EXCEPT !.i = r.next, !.nameStart = TRUE,
                                                  !.sawColon = TRUE, !.colonPos = r.next - 2])
         [] st.nameStart /\ ~IsValidNameStart(r.c) -> [st EXCEPT !.error = "InvalidCharacterError"]
         [] ~st.nameStart /\ ~IsValidNamePart(r.c) -> [st EXCEPT !.error = "InvalidCharacterError"]
         [] OTHER -> QualifiedNameScan(units, [st EXCEPT !.i = r.next, !.nameStart = FALSE])

ParseQualifiedNameInternal(units) ==
  LET st == QualifiedNameScan(units, [i |-> 1, nameStart |-> TRUE, sawColon |-> FALSE,
                                      colonPos |-> 0, error |-> "none"])
      prefix == SubSeq(units, 1, st.colonPos)
      localName == SubSeq(units, st.colonPos + 2, Len(units))
  IN CASE st.error # "none" -> Failed(st.error)
       [] ~st.sawColon -> [ok |-> TRUE, error |-> "none", prefix |-> <<>>, localName |-> units]
       [] prefix = <<>> \/ localName = <<>> -> Failed("NamespaceError")
       [] OTHER -> [ok |-> TRUE, error |-> "none", prefix |-> prefix, localName |-> localName]

ParseQualifiedName(units) ==
  IF Len(units) = 0 THEN Failed("InvalidCharacterError") ELSE ParseQualifiedNameInternal(units)

(***************************************************************************)
(* References.  A name start and a name character as rules (a)-(j) of the *)
(* comment define them: (c) refuses code points greater than 0xF900 and   *)
(* less than 0xFFFE, (d) every decomposition with a formatting tag (only  *)
(* canonical decompositions carry none), (f) 0x20DD-0x20E0.               *)
(***************************************************************************)
UntaggedDecompositions == {"none", "canonical"}

RuleNameStart(c) ==
  \/ c \in {Colon, Underscore}
  \/ (c >= 699 /\ c <= 705) \/ c \in {1369, 1765, 1766}
  \/ /\ Info[c].cat \in NameStartCategories
     /\ ~(c > 63744 /\ c < 65534)
     /\ Info[c].decomp \in UntaggedDecompositions

RuleNamePart(c) ==
  \/ RuleNameStart(c)
  \/ c \in {183, 903, Hyphen, Period}
  \/ /\ Info[c].cat \in OtherNamePartCategories
     /\ ~(c >= 8413 /\ c <= 8416)
     /\ ~(c > 63744 /\ c < 65534)
     /\ Info[c].decomp \in UntaggedDecompositions

(* A Name over code points (not code units).                              *)
IsNameByRules(cps) ==
  /\ cps # <<>>
  /\ RuleNameStart(cps[1])
  /\ \A i \in 2 .. Len(cps) : RuleNamePart(cps[i])

(* QName ::= NCName | NCName ":" NCName, an NCName being a Name without   *)
(* a colon.                                                                *)
IsNCName(cps) == IsNameByRules(cps) /\ \A i \in DOMAIN cps : cps[i] # Colon

QualifiedNameByRules(cps) ==
  LET colons == {i \in DOMAIN cps : cps[i] = Colon}
      k == CHOOSE i \in colons : TRUE
  IN CASE colons = {} /\ IsNCName(cps) ->
            [ok |-> TRUE, prefix |-> <<>>, localName |-> Encode(cps)]
       [] colons # {} /\ IsNCName(SubSeq(cps, 1, k - 1)) /\ IsNCName(SubSeq(cps, k + 1, Len(cps))) ->
            [ok |-> TRUE, prefix |-> Encode(SubSeq(cps, 1, k - 1)),
             localName |-> Encode(SubSeq(cps, k + 1, Len(cps)))]
       [] OTHER -> [ok |-> FALSE, prefix |-> <<>>, localName |-> <<>>]

(***************************************************************************)
(* The harness: a name is built up one code point at a time and checked   *)
(* at every length; Clear starts another.                                  *)
(***************************************************************************)
VARIABLE name

Init == name = <<>>

AppendChar(c) ==
  /\ Len(name) < MaxNameLength
  /\ name' = Append(name, c)

Clear ==
  /\ name # <<>>
  /\ name' = <<>>

Next == Clear \/ \E c \in Alphabet : AppendChar(c)

Spec == Init /\ [][Next]_name

(***************************************************************************)
(* Properties.                                                             *)
(***************************************************************************)
(* isValidName, through the ASCII fast path or either slow path and after *)
(* UTF-16 decoding, accepts exactly the names rules (a)-(j) of the        *)
(* comment in Document.cpp allow.                                          *)
IsValidNameFollowsRules ==
  \A is8Bit \in Representations(Encode(name)) :
    IsValidName(Encode(name), is8Bit) = IsNameByRules(name)

(* parseQualifiedName accepts exactly the QNames, and splits them at the  *)
(* colon into the prefix and the local name.                              *)
ParseQualifiedNameFollowsQName ==
  LET r == ParseQualifiedName(Encode(name))
  IN [ok |-> r.ok, prefix |-> r.prefix, localName |-> r.localName]
       = QualifiedNameByRules(name)
=============================================================================
