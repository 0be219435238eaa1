----------------------------- MODULE StyleTypes -----------------------------
(***************************************************************************)
(* The vocabulary shared by the attribute pipeline and the style recalc    *)
(* traversal of sky_engine (src/sky/engine/core/dom/Element.cpp,           *)
(* Document.cpp):                                                          *)
(*   - the two severity scales: StyleChangeType, the per-node dirty flag,  *)
(*     and StyleRecalcChange, the severity a traversal hands to children;  *)
(*   - the active stylesheet, seen only through the selector-impact        *)
(*     queries hasSelectorForId/Class/Attribute;                           *)
(*   - the style-resolution collaborator (styleForElement) and the style   *)
(*     diff (RenderStyle::stylePropagationDiff), as pure operators.        *)
(* A computed style is abstracted to the rules that produced it, split by  *)
(* what they set: "display" rules suppress the renderer, "inherited" rules *)
(* set a property children inherit, "local" rules set any other property.  *)
(***************************************************************************)
EXTENDS Integers, SequencesExt

CONSTANTS
  Null,            \* nullAtom: an absent attribute or a cleared value
  NoStyle,         \* a null RenderStyle*: the node has no renderer
  SelectorIds,     \* ids named by an #id selector of the active sheet
  SelectorClasses, \* class tokens named by a .class selector
  SelectorAttrs,   \* attribute names named by an [attr] selector
  InlineProps,     \* CSS properties an inline style declaration can set
  Kind             \* Kind[k]: what the rules keyed by k set

ASSUME Kind \in [SelectorIds \cup SelectorClasses \cup SelectorAttrs \cup InlineProps
                   -> {"display", "inherited", "local"}]

(* StyleChangeType: the per-node flag set by setNeedsStyleRecalc.          *)
NoStyleChange == 0
LocalStyleChange == 1
SubtreeStyleChange == 2
NeedsReattachStyleChange == 3
StyleChangeType == NoStyleChange .. NeedsReattachStyleChange

(* StyleRecalcChange: the severity passed down by recalcStyle.             *)
NoChange == 0
NoInherit == 1
Inherit == 2
Force == 3
Reattach == 4
StyleRecalcChange == NoChange .. Reattach

MaxChange(a, b) == IF a >= b THEN a ELSE b

(***************************************************************************)
(* Selector-impact queries, Element::affectedBy*Selector: an empty or      *)
(* null value never matches (the code tests isEmpty() first).              *)
(***************************************************************************)
AffectedByIdSelector(id) == id # Null /\ id \in SelectorIds
AffectedByClassSelector(token) == token \in SelectorClasses
AffectedByAttributeSelector(name) == name \in SelectorAttrs

(***************************************************************************)
(* Element::classChangeNeedsStyleRecalc, as the code computes it: a token  *)
(* of newClasses found nowhere in oldClasses was added; a token of         *)
(* oldClasses whose bit was never set by a match was removed.  Either kind *)
(* matters only when a class selector names it.  Token lists keep their    *)
(* order and duplicates (SpaceSplitString).                                *)
(***************************************************************************)
(* Mutant: the inner loop breaks at the first match, so a repeated old    *)
(* token keeps only one remaining bit.                                     *)
ClassChangeBreaksEarly(oldClasses, newClasses) ==
  LET firstMatch(i) == CHOOSE j \in DOMAIN oldClasses :
                         /\ oldClasses[j] = newClasses[i]
                         /\ \A k \in 1 .. j - 1 : oldClasses[k] # newClasses[i]
      remainingClassBits ==
        {firstMatch(i) : i \in {i2 \in DOMAIN newClasses :
                                  \E j \in DOMAIN oldClasses : newClasses[i2] = oldClasses[j]}}
      added ==
        \E i \in DOMAIN newClasses :
          /\ ~\E j \in DOMAIN oldClasses : newClasses[i] = oldClasses[j]
          /\ AffectedByClassSelector(newClasses[i])
      removed ==
        \E j \in DOMAIN oldClasses \ remainingClassBits : AffectedByClassSelector(oldClasses[j])
  IN added \/ removed

ClassChangeNeedsStyleRecalc(oldClasses, newClasses) ==
  LET remainingClassBits ==
        {j \in DOMAIN oldClasses : \E i \in DOMAIN newClasses : newClasses[i] = oldClasses[j]}
      added ==
        \E i \in DOMAIN newClasses :
          /\ ~\E j \in DOMAIN oldClasses : newClasses[i] = oldClasses[j]
          /\ AffectedByClassSelector(newClasses[i])
      removed ==
        \E j \in DOMAIN oldClasses \ remainingClassBits : AffectedByClassSelector(oldClasses[j])
  IN added \/ removed

(* The reference: some selector-named token is in exactly one of the sets. *)
ClassChangeReference(oldClasses, newClasses) ==
  ((ToSet(oldClasses) \ ToSet(newClasses)) \cup (ToSet(newClasses) \ ToSet(oldClasses)))
    \cap SelectorClasses # {}

(***************************************************************************)
(* Style resolution.  A rule is a pair <<key, value>>: <<id, Null>>,       *)
(* <<token, Null>>, <<attrName, attrValue>> ([attr] selectors see the      *)
(* value) or <<inlineProp, Null>>.  The style of a node depends on its     *)
(* matched rules and on its parent's style, through inheritance only.      *)
(***************************************************************************)
KindOf(rule) == Kind[rule[1]]

Resolve(matched, parentStyle) ==
  [display   |-> ~\E r \in matched : KindOf(r) = "display",
   inherited |-> parentStyle.inherited \cup {r \in matched : KindOf(r) = "inherited"},
   local     |-> {r \in matched : KindOf(r) = "local"}]

(***************************************************************************)
(* RenderStyle::stylePropagationDiff: no old style, or a different display *)
(* (a different renderer type), forces a reattach; otherwise the change is *)
(* Inherit when an inherited property differs, NoInherit when only others  *)
(* do.                                                                     *)
(***************************************************************************)
StylePropagationDiff(oldStyle, newStyle) ==
  CASE oldStyle = NoStyle \/ oldStyle.display # newStyle.display -> Reattach
    [] oldStyle = newStyle -> NoChange
    [] oldStyle.inherited # newStyle.inherited -> Inherit
    [] OTHER -> NoInherit

=============================================================================
