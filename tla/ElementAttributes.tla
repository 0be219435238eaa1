-------------------------- MODULE ElementAttributes --------------------------
(***************************************************************************)
(* The Attribute Mutation Pipeline and the Dirty-State Tracker.            *)
(*                                                                         *)
(* Every attribute write of Element.cpp funnels through                    *)
(* setAttributeInternal / appendAttributeInternal / removeAttributeInternal*)
(* which call willModifyAttribute before the value changes and             *)
(* attributeChanged after it; those decide whether the element needs a     *)
(* style recalc (setNeedsStyleRecalc).  Inline style edited through CSSOM  *)
(* (setInlineStyleProperty ...) marks the element and leaves the "style"   *)
(* attribute stale until synchronizeAttribute re-serialises it.            *)
(*                                                                         *)
(* The dirty tracker (Node::setNeedsStyleRecalc and                        *)
(* markAncestorsWithChildNeedsStyleRecalc, in Node.cpp, which is not part  *)
(* of this repository's sources) raises the node's flag and sets           *)
(* childNeedsStyleRecalc on ancestors until one already has it, then asks  *)
(* the document to schedule a render tree update (Document.h).             *)
(*                                                                         *)
(* A handler is a chain of calls, each of which may mark the node; it is   *)
(* written as a composition of operators over the state record S and made *)
(* one atomic step by Commit, since all of it runs on the main thread.     *)
(***************************************************************************)
EXTENDS StyleTypes

CONSTANTS
  Doc,            \* the Document node, root of the tree
  Elements,       \* the Element nodes
  Parent,         \* Parent[e]: parentNode() of element e
  DocumentOrder,  \* all elements, in document order
  AttrNames,      \* attribute names an element can carry
  IdAttr, ClassAttr, StyleAttr, \* HTMLNames::idAttr, classAttr, styleAttr
  AttrDomain,     \* AttrDomain[name]: non-null values a script may write
  Ids             \* every id value that appears in AttrDomain[IdAttr]

ASSUME {IdAttr, ClassAttr, StyleAttr} \subseteq AttrNames
ASSUME Parent \in [Elements -> Elements \cup {Doc}]
ASSUME ToSet(DocumentOrder) = Elements

VARIABLES
  attrs,          \* attrs[e][name]: stored attribute value, Null if absent
  idForStyle,     \* elementData()->idForStyleResolution()
  classNames,     \* elementData()->classNames(): the split class tokens
  inlineStyle,    \* elementData()->m_inlineStyle: a declaration set, or Null
  styleAttrDirty, \* elementData()->m_styleAttributeIsDirty
  idMap,          \* TreeScope id map: idMap[i] = elements registered for id i
  styleChange,    \* styleChangeType() of every node (needsStyleRecalc)
  childNeeds,     \* childNeedsStyleRecalc() of every node
  active,         \* Document::m_active (the document has a view)
  visualUpdatePending \* Document::m_visualUpdatePending

attrVars == <<attrs, idForStyle, classNames, inlineStyle, styleAttrDirty, idMap>>
dirtyVars == <<styleChange, childNeeds, active, visualUpdatePending>>

Nodes == {Doc} \cup Elements

Children(p) == SelectSeq(DocumentOrder, LAMBDA e : Parent[e] = p)

RECURSIVE AncestorSeq(_)
(* parentNode(), parentNode()->parentNode(), ... up to the Document.       *)
AncestorSeq(n) == IF n = Doc THEN <<>> ELSE <<Parent[n]>> \o AncestorSeq(Parent[n])

(***************************************************************************)
(* Conversions.  A class attribute value is its token list; SpaceSplit     *)
(* keeps order and repeats.  An inline style text is a list of             *)
(* declarations; parsing drops those that are not valid properties and     *)
(* repeats; serialising (asText) writes each property once.                *)
(***************************************************************************)
SpaceSplit(value) == IF value = Null THEN <<>> ELSE value
(* Mutant: invalid declarations are kept.                                 *)
ParseInlineStyleKeepsInvalid(text) == ToSet(text)
ParseInlineStyle(text) == ToSet(text) \cap InlineProps
AsText(decls) == SetToSeq(decls)

(***************************************************************************)
(* The state as a record, so that a handler can be written as a chain of  *)
(* the calls it makes.                                                     *)
(***************************************************************************)
S == [attrs |-> attrs, idForStyle |-> idForStyle, classNames |-> classNames,
      inlineStyle |-> inlineStyle, dirty |-> styleAttrDirty, idMap |-> idMap,
      sc |-> styleChange, cn |-> childNeeds, active |-> active,
      pending |-> visualUpdatePending]

Commit(s) ==
  /\ attrs' = s.attrs
  /\ idForStyle' = s.idForStyle
  /\ classNames' = s.classNames
  /\ inlineStyle' = s.inlineStyle
  /\ styleAttrDirty' = s.dirty
  /\ idMap' = s.idMap
  /\ styleChange' = s.sc
  /\ childNeeds' = s.cn
  /\ active' = s.active
  /\ visualUpdatePending' = s.pending

(* Document::needsRenderTreeUpdate: the root's flags summarise the tree.   *)
(* Mutant: only the root's own flag is consulted.                         *)
NeedsUpdateIgnoresChildFlag(s) == s.active /\ s.sc[Doc] # NoStyleChange
NeedsRenderTreeUpdateIn(s) ==
  s.active /\ (s.sc[Doc] # NoStyleChange \/ s.cn[Doc])

(* Document::shouldScheduleRenderTreeUpdate: the inStyleRecalc test       *)
(* always passes here, nothing marks a node during a traversal.            *)
ShouldScheduleRenderTreeUpdate(s) == s.active

(* Document::scheduleRenderTreeUpdate: scheduleVisualUpdate is empty; only *)
(* the pending flag records the request.                                   *)
ScheduleRenderTreeUpdate(s) == [s EXCEPT !.pending = TRUE]

(* Document::scheduleRenderTreeUpdateIfNeeded (Document.h).                *)
ScheduleRenderTreeUpdateIfNeeded(s) ==
  IF ~s.pending /\ ShouldScheduleRenderTreeUpdate(s) /\ NeedsRenderTreeUpdateIn(s)
    THEN ScheduleRenderTreeUpdate(s)
    ELSE s

(* Mutant: off by one, the walk stops below the Document.                 *)
MarkAncestorsStopsBelowRoot(s, n) ==
  LET chain == AncestorSeq(n)
      stop  == {k \in DOMAIN chain : s.cn[chain[k]]}
      upto  == IF stop = {} THEN Len(chain) - 1 ELSE Min(stop) - 1
      marked == {chain[k] : k \in 1 .. upto}
  IN ScheduleRenderTreeUpdateIfNeeded(
       [s EXCEPT !.cn = [x \in Nodes |-> IF x \in marked THEN TRUE ELSE @[x]]])

MarkAncestorsWithChildNeedsStyleRecalc(s, n) ==
  LET chain == AncestorSeq(n)
      stop  == {k \in DOMAIN chain : s.cn[chain[k]]}
      upto  == IF stop = {} THEN Len(chain) ELSE Min(stop) - 1
      marked == {chain[k] : k \in 1 .. upto}
  IN ScheduleRenderTreeUpdateIfNeeded(
       [s EXCEPT !.cn = [x \in Nodes |-> IF x \in marked THEN TRUE ELSE @[x]]])

(***************************************************************************)
(* Node::setNeedsStyleRecalc: ignored outside an active document; raises   *)
(* the flag, never lowers it; marks ancestors when the node was clean.     *)
(***************************************************************************)
SetNeedsStyleRecalc(s, n, changeType) ==
  LET existing == s.sc[n]
      raised == IF changeType > existing THEN [s EXCEPT !.sc[n] = changeType] ELSE s
  IN IF ~s.active THEN s
     ELSE IF existing = NoStyleChange THEN MarkAncestorsWithChildNeedsStyleRecalc(raised, n)
     ELSE raised

(* Element::updateId(oldId, newId) and updateId(scope, oldId, newId).      *)
(* Mutant: the old id is never unregistered.                             *)
UpdateIdKeepsOldId(s, n, oldId, newId) ==
  IF oldId = newId THEN s
  ELSE [s EXCEPT !.idMap = [i \in Ids |-> @[i] \cup (IF i = newId THEN {n} ELSE {})]]

UpdateId(s, n, oldId, newId) ==
  IF oldId = newId THEN s
  ELSE [s EXCEPT !.idMap = [i \in Ids |->
          (IF i = oldId THEN @[i] \ {n} ELSE @[i]) \cup (IF i = newId THEN {n} ELSE {})]]

(* The testShouldInvalidateStyle / willModifyAttribute guard.              *)
ShouldInvalidateStyle(s, n) == s.active /\ s.sc[n] < SubtreeStyleChange

(* Element::willModifyAttribute: runs before the stored value changes.     *)
(* Mutant: the selector check runs only when an existing value changes,   *)
(* not when the attribute is appended.                                     *)
WillModifySkipsAppend(s, n, name, oldValue, newValue) ==
  LET s1 == IF name = IdAttr THEN UpdateId(s, n, oldValue, newValue) ELSE s
  IN IF ShouldInvalidateStyle(s1, n) /\ AffectedByAttributeSelector(name) /\ oldValue # Null
       THEN SetNeedsStyleRecalc(s1, n, LocalStyleChange)
       ELSE s1

WillModifyAttribute(s, n, name, oldValue, newValue) ==
  LET s1 == IF name = IdAttr THEN UpdateId(s, n, oldValue, newValue) ELSE s
  IN IF ShouldInvalidateStyle(s1, n) /\ AffectedByAttributeSelector(name)
       THEN SetNeedsStyleRecalc(s1, n, LocalStyleChange)
       ELSE s1

(* Element::styleAttributeChanged: a new inline style always marks.        *)
StyleAttributeChanged(s, n, newStyleString) ==
  LET s1 == [s EXCEPT !.inlineStyle[n] = IF newStyleString = Null THEN Null
                                         ELSE ParseInlineStyle(newStyleString),
                      !.dirty[n] = FALSE]
  IN SetNeedsStyleRecalc(s1, n, LocalStyleChange)

(* Element::classAttributeChanged.                                         *)
ClassAttributeChanged(s, n, newClassString) ==
  LET test == ShouldInvalidateStyle(s, n)
      oldClasses == s.classNames[n]
      newClasses == SpaceSplit(newClassString)
      s1 == [s EXCEPT !.classNames[n] = newClasses]
  IN IF test /\ ClassChangeNeedsStyleRecalc(oldClasses, newClasses)
       THEN SetNeedsStyleRecalc(s1, n, LocalStyleChange)
       ELSE s1

(* Element::attributeChanged: runs after the stored value changed.         *)
(* Mutant: an id change is checked against the new id only.              *)
AttributeChangedNewIdOnly(s, n, name, newValue) ==
  LET test == ShouldInvalidateStyle(s, n)
      s1 == IF name = StyleAttr THEN StyleAttributeChanged(s, n, newValue) ELSE s
      oldId == s1.idForStyle[n]
  IN CASE name = IdAttr /\ newValue # oldId ->
            LET s2 == [s1 EXCEPT !.idForStyle[n] = newValue]
            IN IF test /\ AffectedByIdSelector(newValue)
                 THEN SetNeedsStyleRecalc(s2, n, LocalStyleChange)
                 ELSE s2
       [] name = ClassAttr -> ClassAttributeChanged(s1, n, newValue)
       [] OTHER -> s1

(* Mutant: any id change marks, whether or not a selector names the id.   *)
AttributeChangedAnyId(s, n, name, newValue) ==
  LET test == ShouldInvalidateStyle(s, n)
      s1 == IF name = StyleAttr THEN StyleAttributeChanged(s, n, newValue) ELSE s
      oldId == s1.idForStyle[n]
  IN CASE name = IdAttr /\ newValue # oldId ->
            LET s2 == [s1 EXCEPT !.idForStyle[n] = newValue]
            IN IF test THEN SetNeedsStyleRecalc(s2, n, LocalStyleChange) ELSE s2
       [] name = ClassAttr -> ClassAttributeChanged(s1, n, newValue)
       [] OTHER -> s1

AttributeChanged(s, n, name, newValue) ==
  LET test == ShouldInvalidateStyle(s, n)
      s1 == IF name = StyleAttr THEN StyleAttributeChanged(s, n, newValue) ELSE s
      oldId == s1.idForStyle[n]
  IN CASE name = IdAttr /\ newValue # oldId ->
            LET s2 == [s1 EXCEPT !.idForStyle[n] = newValue]
            IN IF test /\ (AffectedByIdSelector(oldId) \/ AffectedByIdSelector(newValue))
                 THEN SetNeedsStyleRecalc(s2, n, LocalStyleChange)
                 ELSE s2
       [] name = ClassAttr -> ClassAttributeChanged(s1, n, newValue)
       [] OTHER -> s1

StoreAttribute(s, n, name, value) == [s EXCEPT !.attrs[n][name] = value]

(* Element::removeAttributeInternal.                                       *)
RemoveAttributeInternal(s, n, name, inSync) ==
  LET valueBeingRemoved == s.attrs[n][name]
      s1 == IF inSync THEN s ELSE WillModifyAttribute(s, n, name, valueBeingRemoved, Null)
      s2 == StoreAttribute(s1, n, name, Null)
  IN IF inSync THEN s2 ELSE AttributeChanged(s2, n, name, Null)

(* Element::appendAttributeInternal.                                       *)
AppendAttributeInternal(s, n, name, value, inSync) ==
  LET s1 == IF inSync THEN s ELSE WillModifyAttribute(s, n, name, Null, value)
      s2 == StoreAttribute(s1, n, name, value)
  IN IF inSync THEN s2 ELSE AttributeChanged(s2, n, name, value)

(* Element::setAttributeInternal.                                          *)
SetAttributeInternal(s, n, name, newValue, inSync) ==
  LET existing == s.attrs[n][name]
  IN CASE newValue = Null ->
            IF existing # Null THEN RemoveAttributeInternal(s, n, name, inSync) ELSE s
       [] existing = Null -> AppendAttributeInternal(s, n, name, newValue, inSync)
       [] newValue = existing -> s
       [] OTHER ->
            LET s1 == IF inSync THEN s ELSE WillModifyAttribute(s, n, name, existing, newValue)
                s2 == StoreAttribute(s1, n, name, newValue)
            IN IF inSync THEN s2 ELSE AttributeChanged(s2, n, name, newValue)

(* Element::setSynchronizedLazyAttribute: a write without the             *)
(* willModify/attributeChanged callbacks.                                  *)
SetSynchronizedLazyAttribute(s, n, name, value) ==
  SetAttributeInternal(s, n, name, value, TRUE)

(* Element::synchronizeStyleAttributeInternal: re-serialise the inline     *)
(* style edited through CSSOM into the "style" attribute.                  *)
SynchronizeStyleAttributeInternal(s, n) ==
  SetSynchronizedLazyAttribute([s EXCEPT !.dirty[n] = FALSE], n, StyleAttr,
    IF s.inlineStyle[n] = Null THEN Null ELSE AsText(s.inlineStyle[n]))

(* Element::synchronizeAttribute(localName) (Element.h).                   *)
SynchronizeAttribute(s, n, name) ==
  IF name = StyleAttr /\ s.dirty[n] THEN SynchronizeStyleAttributeInternal(s, n) ELSE s

(* Mutant: the element is marked but the style attribute is not flagged   *)
(* stale.                                                                  *)
InlineStyleChangedKeepsAttribute(s, n) == SetNeedsStyleRecalc(s, n, LocalStyleChange)
InlineStyleChanged(s, n) ==
  [SetNeedsStyleRecalc(s, n, LocalStyleChange) EXCEPT !.dirty[n] = TRUE]

(* Element::ensureMutableInlineStyle: an empty declaration set if none.    *)
EnsureMutableInlineStyle(s, n) ==
  IF s.inlineStyle[n] = Null THEN [s EXCEPT !.inlineStyle[n] = {}] ELSE s

(***************************************************************************)
(* The rules an element matches in the active sheet: its id and class      *)
(* tokens as style resolution sees them (idForStyleResolution,             *)
(* classNames), the values of attributes an [attr] selector names, and its *)
(* inline declarations.                                                    *)
(***************************************************************************)
MatchedRulesIn(s, n) ==
  (IF AffectedByIdSelector(s.idForStyle[n]) THEN {<<s.idForStyle[n], Null>>} ELSE {})
  \cup {<<t, Null>> : t \in ToSet(s.classNames[n]) \cap SelectorClasses}
  \cup {<<a, s.attrs[n][a]>> : a \in {x \in SelectorAttrs \cap AttrNames : s.attrs[n][x] # Null}}
  \cup {<<p, Null>> : p \in IF s.inlineStyle[n] = Null THEN {} ELSE s.inlineStyle[n]}

MatchedRules(n) == MatchedRulesIn(S, n)

(***************************************************************************)
(* Actions: the DOM entry points a script or the parser calls.             *)
(***************************************************************************)

(* Element::setAttribute(localName, value): the name is valid here.        *)
SetAttribute(n, name, value) ==
  Commit(SetAttributeInternal(SynchronizeAttribute(S, n, name), n, name, value, FALSE))

(* Element::removeAttribute(localName).                                    *)
RemoveAttribute(n, name) ==
  Commit(IF attrs[n][name] # Null
           THEN RemoveAttributeInternal(S, n, name, FALSE)
         ELSE IF name = StyleAttr /\ styleAttrDirty[n] /\ inlineStyle[n] # Null
           THEN InlineStyleChanged([S EXCEPT !.inlineStyle[n] = {}], n)
         ELSE S)

(* Element::getAttribute(name) of "style": the read re-serialises a stale *)
(* attribute (synchronizeAttribute is a const method that writes).         *)
GetStyleAttribute(n) ==
  Commit(SynchronizeAttribute(S, n, StyleAttr))

(* Element::setInlineStyleProperty(id, String): marks only on a change.    *)
SetInlineStyleProperty(n, prop) ==
  LET s1 == EnsureMutableInlineStyle(S, n)
      changes == prop \notin s1.inlineStyle[n]
      s2 == [s1 EXCEPT !.inlineStyle[n] = @ \cup {prop}]
  IN Commit(IF changes THEN InlineStyleChanged(s2, n) ELSE s2)

(* Element::removeInlineStyleProperty.                                     *)
RemoveInlineStyleProperty(n, prop) ==
  /\ inlineStyle[n] # Null
  /\ LET changes == prop \in inlineStyle[n]
         s1 == [S EXCEPT !.inlineStyle[n] = @ \ {prop}]
     IN Commit(IF changes THEN InlineStyleChanged(s1, n) ELSE s1)

(* Element::removeAllInlineStyleProperties.                                *)
RemoveAllInlineStyleProperties(n) ==
  /\ inlineStyle[n] # Null
  /\ Commit(InlineStyleChanged([S EXCEPT !.inlineStyle[n] = {}], n))

AttributeMutation ==
  \E n \in Elements :
    \/ \E name \in AttrNames : \E value \in AttrDomain[name] : SetAttribute(n, name, value)
    \/ \E name \in AttrNames : RemoveAttribute(n, name)
    \/ GetStyleAttribute(n)
    \/ \E prop \in InlineProps : SetInlineStyleProperty(n, prop)
    \/ \E prop \in InlineProps : RemoveInlineStyleProperty(n, prop)
    \/ RemoveAllInlineStyleProperties(n)

(* A document whose elements were created without attributes and styled.  *)
InitAttributes ==
  /\ attrs = [n \in Elements |-> [name \in AttrNames |-> Null]]
  /\ idForStyle = [n \in Elements |-> Null]
  /\ classNames = [n \in Elements |-> <<>>]
  /\ inlineStyle = [n \in Elements |-> Null]
  /\ styleAttrDirty = [n \in Elements |-> FALSE]
  /\ idMap = [i \in Ids |-> {}]
  /\ styleChange = [n \in Nodes |-> NoStyleChange]
  /\ childNeeds = [n \in Nodes |-> FALSE]
  /\ active = TRUE
  /\ visualUpdatePending = FALSE

==============================================================================
