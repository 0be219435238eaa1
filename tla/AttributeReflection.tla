--------------------------- MODULE AttributeReflection ---------------------------
(***************************************************************************)
(* The reflected attributes of Element (src/sky/engine/core/dom/          *)
(* Element.cpp): contentEditable, dir, spellcheck with its inheritance,   *)
(* the unsigned integral reflection and computeInheritedLanguage.  Each   *)
(* getter and setter is an operator over a record S of the state: the     *)
(* attributes of a chain of elements under the document and the           *)
(* document's content language.  Attribute values are strings, that is    *)
(* sequences of code points; Null is nullAtom.  Storage goes through      *)
(* setAttribute and removeAttribute, whose own behaviour ElementAttributes *)
(* and ElementData model.                                                  *)
(***************************************************************************)
EXTENDS Integers, Sequences, FiniteSets

CONSTANTS
    Elements,        \* the elements of the chain
    Parent,          \* Parent[e]: e's parent element, or DocumentNode
    DocumentNode,    \* the Document, parent of the top element
    Null,            \* nullAtom
    RawValues,       \* RawValues[n]: values script or the parser may store in attribute n
    EditableInputs,  \* strings given to the contentEditable setter
    DirInputs,       \* strings given to the dir setter
    UnsignedInputs,  \* numbers given to an unsigned reflecting setter
    Languages,       \* content languages the document may be given
    Width            \* bits of unsigned (32 in the build; TLC's integers stop at 2^31 - 1)

Names == DOMAIN RawValues
ASSUME Parent \in [Elements -> Elements \cup {DocumentNode}]
ASSUME {"contenteditable", "dir", "spellcheck", "lang", "width"} \subseteq Names

(* The literals of the code, as code points.                              *)
KwTrue == <<116, 114, 117, 101>>
KwFalse == <<102, 97, 108, 115, 101>>
KwInherit == <<105, 110, 104, 101, 114, 105, 116>>
KwPlaintextOnly == <<112, 108, 97, 105, 110, 116, 101, 120, 116, 45, 111, 110, 108, 121>>
KwLtr == <<108, 116, 114>>
KwRtl == <<114, 116, 108>>
KwAuto == <<97, 117, 116, 111>>
EmptyString == <<>>

ASSUME Width \in 2..30
UIntMax == 2^Width - 1         \* the largest unsigned
IntMax == 2^(Width - 1) - 1    \* 0x7fffffff when Width = 32

(* WTF::equalIgnoringCase, on the ASCII strings the model uses; a null   *)
(* string equals no literal.                                               *)
FoldCase(c) == IF c >= 65 /\ c <= 90 THEN c + 32 ELSE c
EqualIgnoringCase(a, b) ==
    /\ a # Null
    /\ Len(a) = Len(b)
    /\ \A i \in 1..Len(a) : FoldCase(a[i]) = FoldCase(b[i])

(* AtomicString::number on an unsigned: its decimal digits.               *)
RECURSIVE Number(_)
Number(v) == IF v < 10 THEN <<48 + v>> ELSE Number(v \div 10) \o <<48 + (v % 10)>>

(* String::toUInt: the value of a string of decimal digits, and 0 for a    *)
(* null, empty or malformed string or one that overflows 32 bits.         *)
IsDigit(c) == c >= 48 /\ c <= 57
RECURSIVE DigitsValue(_)
DigitsValue(s) == IF s = <<>> THEN 0 ELSE DigitsValue(SubSeq(s, 1, Len(s) - 1)) * 10 + (s[Len(s)] - 48)
ToUInt(s) ==
    IF s = Null \/ s = <<>> \/ \E i \in 1..Len(s) : ~IsDigit(s[i]) THEN 0
    ELSE IF DigitsValue(s) > UIntMax THEN 0 ELSE DigitsValue(s)

VARIABLES
    attrs,          \* attrs[e][n]: the value of attribute n of element e
    contentLanguage,\* Document::m_contentLanguage
    lastEditable    \* the last string the contentEditable setter stored on e, or Null

vars == <<attrs, contentLanguage, lastEditable>>

State == [attrs |-> attrs, contentLanguage |-> contentLanguage]

GetAttribute(S, e, n) == S.attrs[e][n]
SetAttribute(S, e, n, v) == [S EXCEPT !.attrs[e][n] = v]
RemoveAttribute(S, e, n) == [S EXCEPT !.attrs[e][n] = Null]

(***************************************************************************)
(* contentEditable and dir: enumerated attributes.                         *)
(***************************************************************************)
ContentEditable(S, e) ==
    LET value == GetAttribute(S, e, "contenteditable")
    IN  CASE value = Null -> KwInherit
          [] value = EmptyString \/ EqualIgnoringCase(value, KwTrue) -> KwTrue
          [] EqualIgnoringCase(value, KwFalse) -> KwFalse
          [] EqualIgnoringCase(value, KwPlaintextOnly) -> KwPlaintextOnly
          [] OTHER -> KwInherit

\* setContentEditable: the state after the call, or Null when it throws
\* a SyntaxError.
SetContentEditable(S, e, enabled) ==
    CASE EqualIgnoringCase(enabled, KwTrue) -> SetAttribute(S, e, "contenteditable", KwTrue)
      [] EqualIgnoringCase(enabled, KwFalse) -> SetAttribute(S, e, "contenteditable", KwFalse)
      [] EqualIgnoringCase(enabled, KwPlaintextOnly) -> SetAttribute(S, e, "contenteditable", KwPlaintextOnly)
      [] EqualIgnoringCase(enabled, KwInherit) -> RemoveAttribute(S, e, "contenteditable")
      [] OTHER -> Null

\* Mutant: the attribute's own string is returned instead of the literal.
ToValidDirValueAsWritten(value) ==
    IF \E kw \in {KwLtr, KwRtl, KwAuto} : EqualIgnoringCase(value, kw) THEN value ELSE Null

ToValidDirValue(value) ==
    CASE EqualIgnoringCase(value, KwLtr) -> KwLtr
      [] EqualIgnoringCase(value, KwRtl) -> KwRtl
      [] EqualIgnoringCase(value, KwAuto) -> KwAuto
      [] OTHER -> Null

Dir(S, e) == ToValidDirValue(GetAttribute(S, e, "dir"))
SetDir(S, e, value) == SetAttribute(S, e, "dir", value)

(***************************************************************************)
(* spellcheck: the nearest element with an explicit state decides.         *)
(***************************************************************************)
SpellcheckAttributeState(S, e) ==
    LET value == GetAttribute(S, e, "spellcheck")
    IN  CASE value = Null -> "default"
          [] EqualIgnoringCase(value, KwTrue) \/ EqualIgnoringCase(value, EmptyString) -> "true"
          [] EqualIgnoringCase(value, KwFalse) -> "false"
          [] OTHER -> "default"

RECURSIVE IsSpellCheckingEnabled(_, _)
IsSpellCheckingEnabled(S, element) ==
    IF element = DocumentNode THEN TRUE
    ELSE CASE SpellcheckAttributeState(S, element) = "true" -> TRUE
           [] SpellcheckAttributeState(S, element) = "false" -> FALSE
           [] OTHER -> IsSpellCheckingEnabled(S, Parent[element])

Spellcheck(S, e) == IsSpellCheckingEnabled(S, e)
SetSpellcheck(S, e, enable) == SetAttribute(S, e, "spellcheck", IF enable THEN KwTrue ELSE KwFalse)

(***************************************************************************)
(* computeInheritedLanguage: the do-while loop up the parent chain.        *)
(***************************************************************************)
\* Mutant: the walk goes on past an empty lang attribute.
RECURSIVE LanguageFromSkippingEmpty(_, _)
LanguageFromSkippingEmpty(S, n) ==
    LET value == IF n = DocumentNode THEN S.contentLanguage ELSE GetAttribute(S, n, "lang")
    IN  IF n = DocumentNode \/ (value # Null /\ value # EmptyString) THEN value
        ELSE LanguageFromSkippingEmpty(S, Parent[n])

RECURSIVE LanguageFrom(_, _)
LanguageFrom(S, n) ==
    LET value == IF n = DocumentNode THEN S.contentLanguage ELSE GetAttribute(S, n, "lang")
    IN  IF n = DocumentNode \/ value # Null THEN value ELSE LanguageFrom(S, Parent[n])

ComputeInheritedLanguage(S, e) == LanguageFrom(S, e)

(***************************************************************************)
(* Unsigned integral reflection.                                          *)
(***************************************************************************)
GetUnsignedIntegralAttribute(S, e, n) == ToUInt(GetAttribute(S, e, n))

SetUnsignedIntegralAttribute(S, e, n, value) ==
    SetAttribute(S, e, n, Number(IF value > IntMax THEN 0 ELSE value))

(***************************************************************************)
(* Script and the parser drive the element through its setters.  Each     *)
(* action is one call; lastEditable records what the contentEditable      *)
(* setter was last given, and a direct write of the attribute forgets it.  *)
(***************************************************************************)
NoEditable == Null

Init ==
    /\ attrs = [e \in Elements |-> [n \in Names |-> Null]]
    /\ contentLanguage = Null
    /\ lastEditable = [e \in Elements |-> NoEditable]

Commit(S) ==
    /\ attrs' = S.attrs
    /\ contentLanguage' = S.contentLanguage

\* Element::setAttribute or removeAttribute with a value of the author's.
SetAttributeAction(e, n, v) ==
    /\ Commit(IF v = Null THEN RemoveAttribute(State, e, n) ELSE SetAttribute(State, e, n, v))
    /\ lastEditable' = IF n = "contenteditable" THEN [lastEditable EXCEPT ![e] = NoEditable] ELSE lastEditable

\* element.contentEditable = enabled; a throw leaves everything as it was.
SetContentEditableAction(e, enabled) ==
    LET S == SetContentEditable(State, e, enabled)
    IN  IF S = Null THEN UNCHANGED vars
        ELSE /\ Commit(S)
             /\ lastEditable' = [lastEditable EXCEPT ![e] = enabled]

SetDirAction(e, value) ==
    /\ Commit(SetDir(State, e, value))
    /\ UNCHANGED lastEditable

SetSpellcheckAction(e, enable) ==
    /\ Commit(SetSpellcheck(State, e, enable))
    /\ UNCHANGED lastEditable

SetUnsignedAction(e, value) ==
    /\ Commit(SetUnsignedIntegralAttribute(State, e, "width", value))
    /\ UNCHANGED lastEditable

\* Document::setContentLanguage stores the language (the style recalc it
\* schedules is StyleRecalc's business).
SetContentLanguage(language) ==
    /\ contentLanguage' = language
    /\ UNCHANGED <<attrs, lastEditable>>

Next ==
    \/ \E e \in Elements, n \in Names : \E v \in RawValues[n] \cup {Null} : SetAttributeAction(e, n, v)
    \/ \E e \in Elements, v \in EditableInputs : SetContentEditableAction(e, v)
    \/ \E e \in Elements, v \in DirInputs : SetDirAction(e, v)
    \/ \E e \in Elements, b \in BOOLEAN : SetSpellcheckAction(e, b)
    \/ \E e \in Elements, v \in UnsignedInputs : SetUnsignedAction(e, v)
    \/ \E l \in Languages : SetContentLanguage(l)

Spec == Init /\ [][Next]_vars

(***************************************************************************)
(* Properties                                                              *)
(***************************************************************************)
(* The reference definitions: HTML's rules stated over the ancestor chain *)
(* as a whole, with ASCII lower-casing in place of the code's comparisons. *)
RECURSIVE Up(_, _)
Up(e, k) == IF k = 0 THEN e ELSE IF Up(e, k - 1) = DocumentNode THEN DocumentNode ELSE Parent[Up(e, k - 1)]

Depths == 0..Cardinality(Elements)
Lower(s) == [i \in DOMAIN s |-> FoldCase(s[i])]
Nearest(ks) == CHOOSE k \in ks : \A j \in ks : k <= j

SpellcheckByHTML(e) ==
    LET Says(a) == attrs[a]["spellcheck"] # Null /\ Lower(attrs[a]["spellcheck"]) \in {KwTrue, KwFalse, EmptyString}
        ks == {k \in Depths : Up(e, k) \in Elements /\ Says(Up(e, k))}
    IN  ks = {} \/ Lower(attrs[Up(e, Nearest(ks))]["spellcheck"]) # KwFalse

LanguageByHTML(e) ==
    LET ks == {k \in Depths : Up(e, k) \in Elements /\ attrs[Up(e, k)]["lang"] # Null}
    IN  IF ks = {} THEN contentLanguage ELSE attrs[Up(e, Nearest(ks))]["lang"]

\* isSpellCheckingEnabled and computeInheritedLanguage walk up from the
\* element and stop at the first element that decides: spellcheck is on
\* unless the nearest element with a true, empty or false spellcheck
\* attribute says false, and the language is the nearest lang attribute,
\* an empty one included, else the document's content language.
InheritedStatesFollowNearestAncestor ==
    \A e \in Elements :
        /\ Spellcheck(State, e) = SpellcheckByHTML(e)
        /\ ComputeInheritedLanguage(State, e) = LanguageByHTML(e)

\* contentEditable and dir are limited to known values: after
\* setContentEditable(x) the getter returns x in its canonical case
\* (nothing for "inherit"), and dir returns the lower-cased keyword or the
\* null string, whatever case script or the parser used.
KeywordsReflectInCanonicalCase ==
    \A e \in Elements :
        /\ lastEditable[e] # NoEditable => ContentEditable(State, e) = Lower(lastEditable[e])
        /\ LET d == attrs[e]["dir"]
           IN  Dir(State, e) = IF d # Null /\ Lower(d) \in {KwLtr, KwRtl, KwAuto} THEN Lower(d) ELSE Null
=============================================================================
