------------------------- MODULE MCAttributeReflection -------------------------
(***************************************************************************)
(* Instances of AttributeReflection for TLC, in one run: a chain of three *)
(* elements for the inherited states, and one element for the keyword and *)
(* unsigned reflections.  Each instance moves only while the other is at  *)
(* its initial state, so the states are the two sets side by side, not    *)
(* their product.  Strings are written as code points; Upper and Capital  *)
(* give the case variants script may use.                                  *)
(***************************************************************************)
EXTENDS Naturals

CONSTANTS e1, e2, e3, doc, Null

VARIABLES chainAttrs, chainLanguage, chainEditable,
          oneAttrs, oneLanguage, oneEditable

Upper(s) == [i \in DOMAIN s |-> IF s[i] >= 97 /\ s[i] <= 122 THEN s[i] - 32 ELSE s[i]]
Capital(s) == [i \in DOMAIN s |-> IF i = 1 THEN Upper(s)[1] ELSE s[i]]

\* "true", "false", "inherit", "plaintext-only", "ltr", "rtl", "auto",
\* "x", "en", "fr", "12", "300" and the empty string.
StrTrue == <<116, 114, 117, 101>>
StrFalse == <<102, 97, 108, 115, 101>>
StrInherit == <<105, 110, 104, 101, 114, 105, 116>>
StrPlaintextOnly == <<112, 108, 97, 105, 110, 116, 101, 120, 116, 45, 111, 110, 108, 121>>
StrLtr == <<108, 116, 114>>
StrRtl == <<114, 116, 108>>
StrAuto == <<97, 117, 116, 111>>
StrX == <<120>>
StrEn == <<101, 110>>
StrFr == <<102, 114>>
Str12 == <<49, 50>>
Str300 == <<51, 48, 48>>
StrEmpty == <<>>

NoValues == [n \in {"contenteditable", "dir", "spellcheck", "lang", "width"} |-> {}]

\* Inherited states: e3 under e2 under e1 under the document.
ChainElements == {e1, e2, e3}
ChainParent == [e \in ChainElements |-> CASE e = e1 -> doc [] e = e2 -> e1 [] e = e3 -> e2]
ChainRawValues == [NoValues EXCEPT !["spellcheck"] = {Upper(StrTrue), StrFalse, StrEmpty, StrX},
                                   !["lang"] = {StrEn, StrEmpty}]

\* Keyword and unsigned reflection on one element: contenteditable, dir
\* and width written directly and through their setters.
OneElement == {e1}
OneParent == [e \in OneElement |-> doc]
KeywordRawValues == [NoValues EXCEPT !["contenteditable"] = {Upper(StrTrue), StrEmpty, Capital(StrPlaintextOnly), StrX},
                                     !["dir"] = {Upper(StrRtl), StrLtr, Capital(StrAuto), StrX, StrEmpty},
                                     !["width"] = {Str12, StrX, Str300}]
KeywordEditableInputs == {Capital(StrTrue), Upper(StrFalse), StrPlaintextOnly, Upper(StrInherit), StrX}
KeywordDirInputs == {Upper(StrLtr), StrRtl}
\* Around the range limit of an 8-bit unsigned: 0, a small value,
\* IntMax, IntMax + 1 and UIntMax.
UnsignedValues == {0, 7, 127, 128, 255}

Chain == INSTANCE AttributeReflection
           WITH Elements <- ChainElements, Parent <- ChainParent, DocumentNode <- doc,
                RawValues <- ChainRawValues, EditableInputs <- {}, DirInputs <- {},
                UnsignedInputs <- {}, Languages <- {StrFr}, Width <- 8,
                attrs <- chainAttrs, contentLanguage <- chainLanguage,
                lastEditable <- chainEditable

One == INSTANCE AttributeReflection
         WITH Elements <- OneElement, Parent <- OneParent, DocumentNode <- doc,
              RawValues <- KeywordRawValues, EditableInputs <- KeywordEditableInputs,
              DirInputs <- KeywordDirInputs, UnsignedInputs <- UnsignedValues,
              Languages <- {}, Width <- 8,
              attrs <- oneAttrs, contentLanguage <- oneLanguage,
              lastEditable <- oneEditable

chainVars == <<chainAttrs, chainLanguage, chainEditable>>
oneVars == <<oneAttrs, oneLanguage, oneEditable>>
vars == <<chainVars, oneVars>>

Init == Chain!Init /\ One!Init

Next ==
  \/ One!Init /\ Chain!Next /\ UNCHANGED oneVars
  \/ Chain!Init /\ One!Next /\ UNCHANGED chainVars

Spec == Init /\ [][Next]_vars

(* isSpellCheckingEnabled and computeInheritedLanguage follow the nearest *)
(* deciding ancestor (AttributeReflection).                                *)
InheritedStatesFollowNearestAncestor == Chain!InheritedStatesFollowNearestAncestor

(* contentEditable and dir read back in canonical case (AttributeReflection). *)
KeywordsReflectInCanonicalCase == One!KeywordsReflectInCanonicalCase
=============================================================================
