----------------------------- MODULE StyleRecalc -----------------------------
(***************************************************************************)
(* The Render Tree Synchronizer and the Document Scheduler, composed with  *)
(* the attribute pipeline and dirty tracker of ElementAttributes.          *)
(*                                                                         *)
(* Document::updateRenderTree(change) runs Document::updateStyle, which    *)
(* walks the tree through Element::recalcStyle / recalcOwnStyle /          *)
(* recalcChildStyle: pre-order, children of an element last to first,      *)
(* recomputing the style of dirty elements, diffing it against the old one *)
(* and pushing the severity down.  The whole pass runs on the main thread  *)
(* with script forbidden (ScriptForbiddenScope), so no mutation can        *)
(* interleave with it: it is one atomic step, computed by the recursive    *)
(* operators below, which follow the recursion of the code.                *)
(*                                                                         *)
(* A renderer is represented by its style: rstyle[e] is the RenderStyle of *)
(* e's renderer, NoStyle when e has none (renderStyle() is then null).     *)
(***************************************************************************)
EXTENDS ElementAttributes

CONSTANTS
  Langs,           \* content languages Document::setContentLanguage may set
  StyleReads       \* elements whose computed style script reads

VARIABLES
  rstyle,          \* rstyle[e]: style held by e's renderer, or NoStyle
  viewStyle,       \* style of the RenderView (the Document's renderer)
  lang,            \* Document::m_contentLanguage
  cstyle           \* cstyle[e]: ElementRareData::computedStyle, or NoStyle

renderVars == <<rstyle, viewStyle, lang, cstyle>>
vars == <<attrVars, dirtyVars, renderVars>>

(* StyleResolver::styleForDocument: the root style carries the language,  *)
(* an inherited property.                                                  *)
StyleForDocument(l) == [display |-> TRUE, inherited |-> {<<l, Null>>}, local |-> {}]

(***************************************************************************)
(* A traversal threads a record p through the calls:                       *)
(*   sc, cn  the dirty flags;  rs  the renderers;  view  the RenderView    *)
(*   style;  share  the StyleResolver style sharing list;  cs  the cached  *)
(*   computed styles.                                                      *)
(***************************************************************************)

(* Node::parentRenderStyle: the parent's renderer style, the RenderView's *)
(* for a child of the Document.                                            *)
ParentRenderStyle(p, n) == IF Parent[n] = Doc THEN p.view ELSE p.rs[Parent[n]]

(* Node::shouldCallRecalcStyle (Node.h).                                   *)
ShouldCallRecalcStyle(p, n, change) ==
  change >= Inherit \/ p.sc[n] # NoStyleChange \/ p.cn[n]

(***************************************************************************)
(* Element::supportsStyleSharing.  isUserActionElement (hover, active) is  *)
(* not modelled and taken as false.                                        *)
(***************************************************************************)
SupportsStyleSharing(n) ==
  /\ Parent[n] # Doc
  /\ inlineStyle[n] = Null
  /\ ~AffectedByIdSelector(idForStyle[n])

(***************************************************************************)
(* StyleResolver::styleForElement (called by styleForRenderer): first look *)
(* for a sharing candidate with a renderer, the same matched rules and the *)
(* same parent style, and reuse its style; otherwise resolve.              *)
(***************************************************************************)
StyleForElement(p, n, parentStyle) ==
  LET candidates == {c \in ToSet(p.share) :
                       /\ p.rs[c] # NoStyle
                       /\ MatchedRules(c) = MatchedRules(n)
                       /\ ParentRenderStyle(p, c) = parentStyle}
  IN IF SupportsStyleSharing(n) /\ candidates # {}
       THEN p.rs[CHOOSE c \in candidates : TRUE]
       ELSE Resolve(MatchedRules(n), parentStyle)

RECURSIVE RecalcStyle(_, _, _), RecalcChildStyle(_, _, _), ChildLoop(_, _, _, _),
          AttachNode(_, _, _), AttachChildren(_, _)

(***************************************************************************)
(* Element::attach via RenderTreeBuilder::createRendererForElementIfNeeded *)
(* and ContainerNode::attach: a renderer is created only under a parent    *)
(* renderer and for a displayed style; the style is computed only then.    *)
(* Children are attached in order, then both flags are cleared.  given is  *)
(* the style recalcOwnStyle already resolved, NoStyle for a child.  The   *)
(* cached computed style is dropped only for a node marked for reattach.  *)
(***************************************************************************)
AttachNode(p, n, given) ==
  LET prs == ParentRenderStyle(p, n)
      style == IF given # NoStyle THEN given ELSE StyleForElement(p, n, prs)
      p0 == IF p.sc[n] = NeedsReattachStyleChange THEN [p EXCEPT !.cs[n] = NoStyle] ELSE p
      p1 == [p0 EXCEPT !.rs[n] = IF prs # NoStyle /\ style.display THEN style ELSE NoStyle]
      p2 == AttachChildren(p1, Children(n))
  IN [p2 EXCEPT !.sc[n] = NoStyleChange, !.cn[n] = FALSE]

AttachChildren(p, kids) ==
  IF kids = <<>> THEN p ELSE AttachChildren(AttachNode(p, Head(kids), NoStyle), Tail(kids))

RECURSIVE SubtreeOf(_)
SubtreeOf(n) == {n} \cup UNION {SubtreeOf(c) : c \in ToSet(Children(n))}

(* Node::detach over a subtree (ContainerNode::detach, children first):     *)
(* each node loses its renderer and is marked NeedsReattachStyleChange,   *)
(* which Element::attach relies on (Element.cpp:561, 578).                 *)
DetachSubtree(p, n) ==
  [p EXCEPT !.rs = [x \in Elements |-> IF x \in SubtreeOf(n) THEN NoStyle ELSE @[x]],
            !.sc = [x \in DOMAIN @ |-> IF x \in SubtreeOf(n) THEN NeedsReattachStyleChange ELSE @[x]]]

\* Mutant: detach destroys the renderers but leaves the flags, so attach
\* keeps the subtree's cached computed styles.
ReattachNodeUnmarked(p, n, newStyle) ==
  AttachNode([p EXCEPT !.rs = [x \in Elements |-> IF x \in SubtreeOf(n) THEN NoStyle ELSE @[x]]],
             n, newStyle)

(* Node::reattach: detach the subtree, then attach it again.  Inside a    *)
(* style recalc Element::detach leaves the cached computed styles to       *)
(* attach, which drops them for the nodes detach marked.                   *)
ReattachNode(p, n, newStyle) == AttachNode(DetachSubtree(p, n), n, newStyle)

(***************************************************************************)
(* Element::recalcOwnStyle: returns the severity for the children and the  *)
(* updated traversal record.                                               *)
(***************************************************************************)
RecalcOwnStyle(p, n, change, prs) ==
  LET oldStyle == p.rs[n]
      newStyle == StyleForElement(p, n, prs)
      localChange == StylePropagationDiff(oldStyle, newStyle)
  IN IF localChange = Reattach
       THEN [change |-> Reattach, p |-> ReattachNode(p, n, newStyle)]
       ELSE [change |-> CASE p.sc[n] >= SubtreeStyleChange -> Force
                          [] change > Inherit \/ localChange > Inherit -> MaxChange(localChange, change)
                          [] OTHER -> localChange,
             p |-> IF localChange # NoChange THEN [p EXCEPT !.rs[n] = newStyle] ELSE p]

(* Element::recalcStyle: an element it restyles loses its cached computed *)
(* style first.                                                            *)
RecalcStyle(p, n, change) ==
  LET own == change >= Inherit \/ p.sc[n] # NoStyleChange
      prs == ParentRenderStyle(p, n)
      pc == IF own THEN [p EXCEPT !.cs[n] = NoStyle] ELSE p
      r == IF own /\ prs # NoStyle THEN RecalcOwnStyle(pc, n, change, prs)
           ELSE [change |-> change, p |-> pc]
      p1 == IF own THEN [r.p EXCEPT !.sc[n] = NoStyleChange] ELSE r.p
  IN IF (r.change >= Inherit /\ r.change < Reattach) \/ p1.cn[n]
       THEN [RecalcChildStyle(p1, n, r.change) EXCEPT !.cn[n] = FALSE]
       ELSE p1

(* Element::recalcChildStyle: children last to first; a child that needs *)
(* no recalc becomes a style sharing candidate if it supports sharing.     *)
RecalcChildStyle(p, n, change) ==
  IF change > Inherit \/ p.cn[n]
    THEN ChildLoop(p, Reverse(Children(n)), change, TRUE)
    ELSE p

ChildLoop(p, kids, change, sharing) ==
  IF kids = <<>> THEN p
  ELSE LET c == Head(kids)
           p1 == IF ShouldCallRecalcStyle(p, c, change) THEN RecalcStyle(p, c, change)
                 ELSE IF sharing /\ SupportsStyleSharing(c) THEN [p EXCEPT !.share = Append(@, c)]
                 ELSE p
       IN ChildLoop(p1, Tail(kids), change, sharing)

(***************************************************************************)
(* Document::updateStyle: a document-wide change forces the pass; a forced *)
(* pass restyles the RenderView; the element children of the Document are *)
(* visited first to last; then the root flags are cleared, the sharing     *)
(* list emptied and the pending update consumed.                           *)
(***************************************************************************)
UpdateStyle(change) ==
  LET ch == IF styleChange[Doc] >= SubtreeStyleChange THEN Force ELSE change
      documentStyle == StyleForDocument(lang)
      view == IF ch = Force /\ StylePropagationDiff(viewStyle, documentStyle) # NoChange
                THEN documentStyle ELSE viewStyle
      p0 == [sc |-> [styleChange EXCEPT ![Doc] = NoStyleChange], cn |-> childNeeds,
             rs |-> rstyle, view |-> view, share |-> <<>>, cs |-> cstyle]
  IN \E p1 \in {ChildLoop(p0, Children(Doc), ch, FALSE)} :
       /\ styleChange' = p1.sc
       /\ childNeeds' = [p1.cn EXCEPT ![Doc] = FALSE]
       /\ rstyle' = p1.rs
       /\ viewStyle' = p1.view
       /\ cstyle' = p1.cs
       /\ visualUpdatePending' = FALSE
       /\ UNCHANGED <<attrVars, active, lang>>

(***************************************************************************)
(* Document::updateRenderTree(change): nothing without a view or in an     *)
(* inactive document, nothing unless forced or needed.  (The inStyleRecalc *)
(* early return and the layout/paint RELEASE_ASSERTs cannot be reached:    *)
(* no caller runs during a pass here.)                                     *)
(***************************************************************************)
UpdateRenderTree(change) ==
  /\ active
  /\ change = Force \/ NeedsRenderTreeUpdateIn(S)
  /\ UpdateStyle(change)

(***************************************************************************)
(* Document::updateRenderTreeForNodeIfNeeded(node): update only when the   *)
(* document itself, the node or one of its ancestors needs a recalc.      *)
(***************************************************************************)
NodeNeedsRecalc(n) ==
  \/ active /\ styleChange[Doc] # NoStyleChange
  \/ \E a \in {n} \cup ToSet(AncestorSeq(n)) : styleChange[a] # NoStyleChange

(***************************************************************************)
(* Element::computedStyle: the renderer's style if there is one; else the *)
(* style cached in the element's rare data; on a miss, the style resolved *)
(* from the parent's computedStyle (the Document's is its RenderView's),  *)
(* which is then cached.  The walk up caches the renderless ancestors it  *)
(* resolves.  Returns the style and the caches after the call.  (The      *)
(* null return outside an active document changes nothing.)               *)
(***************************************************************************)
RECURSIVE ComputedStyleRead(_, _)
ComputedStyleRead(cs, n) ==
  IF rstyle[n] # NoStyle THEN [style |-> rstyle[n], cs |-> cs]
  ELSE IF cs[n] # NoStyle THEN [style |-> cs[n], cs |-> cs]
  ELSE LET parent == IF Parent[n] = Doc THEN [style |-> viewStyle, cs |-> cs]
                     ELSE ComputedStyleRead(cs, Parent[n])
           st == Resolve(MatchedRules(n), parent.style)
       IN [style |-> st, cs |-> [parent.cs EXCEPT ![n] = st]]

(***************************************************************************)
(* Script reads window.getComputedStyle(n): LocalDOMWindow::getComputedStyle *)
(* wraps n in a CSSComputedStyleDeclaration (outside src), whose reads run *)
(* updateRenderTreeForNodeIfNeeded(n) and then n's computedStyle.  When    *)
(* NodeNeedsRecalc(n) the first is the UpdateRenderTree pass, taken here   *)
(* as the step before the read.                                            *)
(***************************************************************************)
GetComputedStyle(n) ==
  /\ active /\ ~NodeNeedsRecalc(n)
  /\ cstyle' = ComputedStyleRead(cstyle, n).cs
  /\ UNCHANGED <<attrVars, dirtyVars, rstyle, viewStyle, lang>>

(* Document::setContentLanguage: the document style depends on it.         *)
SetContentLanguage(l) ==
  /\ l # lang
  /\ lang' = l
  /\ Commit(SetNeedsStyleRecalc(S, Doc, SubtreeStyleChange))
  /\ UNCHANGED <<rstyle, viewStyle, cstyle>>

(***************************************************************************)
(* Document::prepareForDestruction / detach: the document becomes         *)
(* inactive and its render tree is destroyed; Element::detach outside a    *)
(* style recalc drops every cached computed style.                         *)
(***************************************************************************)
DetachDocument ==
  /\ active
  /\ active' = FALSE
  /\ rstyle' = [e \in Elements |-> NoStyle]
  /\ viewStyle' = NoStyle
  /\ cstyle' = [e \in Elements |-> NoStyle]
  /\ UNCHANGED <<attrVars, styleChange, childNeeds, visualUpdatePending, lang>>

(***************************************************************************)
(* Initially the document is attached and has been styled once: every     *)
(* element holds the style a full recalc gives it.                         *)
(***************************************************************************)
RECURSIVE ExpectedStyle(_)
(* What a from-scratch attach of the whole tree would give n.             *)
ExpectedStyle(n) ==
  LET ps == IF Parent[n] = Doc THEN (IF active THEN StyleForDocument(lang) ELSE NoStyle)
            ELSE ExpectedStyle(Parent[n])
  IN IF ps = NoStyle THEN NoStyle
     ELSE LET st == Resolve(MatchedRules(n), ps) IN IF st.display THEN st ELSE NoStyle

Init ==
  /\ InitAttributes
  /\ lang \in Langs
  /\ viewStyle = StyleForDocument(lang)
  /\ rstyle = [e \in Elements |-> ExpectedStyle(e)]
  /\ cstyle = [e \in Elements |-> NoStyle]

Next ==
  \/ AttributeMutation /\ UNCHANGED renderVars
  \/ \E change \in {NoChange, Force} : UpdateRenderTree(change)
  \/ \E l \in Langs : SetContentLanguage(l)
  \/ DetachDocument
  \/ \E n \in StyleReads : GetComputedStyle(n)

(* The host services frames: a pending render tree update is eventually  *)
(* run (FrameView::updateLayoutAndStyleForPainting on every frame).        *)
(* This is WF_vars(UpdateRenderTree(NoChange)) with its ENABLED written   *)
(* out: the pass is total, so it is enabled, and changes the root flags,  *)
(* exactly when the active document needs a render tree update.           *)
RenderTreeUpdateDue == NeedsRenderTreeUpdateIn(S)

FairRenderTreeUpdate ==
  <>[]RenderTreeUpdateDue => []<><<UpdateRenderTree(NoChange)>>_vars

Spec == Init /\ [][Next]_vars /\ FairRenderTreeUpdate

(***************************************************************************)
(* Properties.                                                             *)
(***************************************************************************)

ComputedStyle ==
  [display: BOOLEAN, inherited: SUBSET (UNION {{<<k, v>> : v \in {Null} \cup UNION {AttrDomain[a] : a \in AttrNames}} : k \in DOMAIN Kind \cup Langs}),
   local: SUBSET (UNION {{<<k, v>> : v \in {Null} \cup UNION {AttrDomain[a] : a \in AttrNames}} : k \in DOMAIN Kind})]

TypeOK ==
  /\ attrs \in [Elements -> [AttrNames -> UNION {AttrDomain[a] : a \in AttrNames}
                                         \cup Seq(InlineProps) \cup {Null}]]
  /\ idForStyle \in [Elements -> Ids \cup {Null}]
  /\ classNames \in [Elements -> Seq(SelectorClasses \cup UNION {ToSet(v) : v \in AttrDomain[ClassAttr]})]
  /\ inlineStyle \in [Elements -> SUBSET InlineProps \cup {Null}]
  /\ styleAttrDirty \in [Elements -> BOOLEAN]
  /\ idMap \in [Ids -> SUBSET Elements]
  /\ styleChange \in [Nodes -> StyleChangeType]
  /\ childNeeds \in [Nodes -> BOOLEAN]
  /\ active \in BOOLEAN
  /\ visualUpdatePending \in BOOLEAN
  /\ rstyle \in [Elements -> ComputedStyle \cup {NoStyle}]
  /\ viewStyle \in ComputedStyle \cup {NoStyle}
  /\ cstyle \in [Elements -> ComputedStyle \cup {NoStyle}]
  /\ lang \in Langs

(***************************************************************************)
(* Ancestor-chain invariant (the basis of skip-traversal pruning): every   *)
(* ancestor of a node that needs a recalc, or has a descendant that does,  *)
(* has childNeedsStyleRecalc set.  markAncestorsWithChildNeedsStyleRecalc  *)
(* stops at the first marked ancestor, and recalcStyle skips a subtree     *)
(* whose root is clean: both rely on it across mutations and passes.       *)
(***************************************************************************)
DirtyChain ==
  \A n \in Elements :
    styleChange[n] # NoStyleChange \/ childNeeds[n] =>
      \A a \in ToSet(AncestorSeq(n)) : childNeeds[a]

(***************************************************************************)
(* No stale style: in an active document, whenever                         *)
(* updateRenderTreeForNodeIfNeeded(n) would not update (neither n, nor an  *)
(* ancestor, nor the document needs a recalc), n's renderer, or its        *)
(* absence, is what a full restyle of the current tree would produce.      *)
(* This covers the attribute pipeline (a mutation that changes the matched *)
(* rules must mark the node), the incremental traversal (skips, severity  *)
(* propagation, reattach) and style sharing.                               *)
(***************************************************************************)
CleanLineageStyleFresh ==
  active =>
    \A n \in Elements : ~NodeNeedsRecalc(n) => rstyle[n] = ExpectedStyle(n)

(***************************************************************************)
(* No over-invalidation for selector-driven attributes: a clean element    *)
(* becomes dirty through an id, class or other attribute write only if the *)
(* rules it matches changed (the id, class and attribute selector lookups *)
(* are exact).  Writes of the style attribute and CSSOM inline-style edits *)
(* are exempt: they mark unconditionally by design.                        *)
(***************************************************************************)
NoOverInvalidation ==
  [][\A n \in Elements :
       /\ styleChange[n] = NoStyleChange /\ styleChange'[n] # NoStyleChange
       /\ attrs'[n] # attrs[n]
       /\ attrs'[n][StyleAttr] = attrs[n][StyleAttr]
       => MatchedRules(n)' # MatchedRules(n)]_vars

(***************************************************************************)
(* The "style" attribute as a script reads it (getAttribute re-serialises  *)
(* it first when CSSOM made it stale) always parses to the inline style    *)
(* style resolution uses, and is absent exactly when there is none.        *)
(***************************************************************************)
StyleAttributeReflectsInlineStyle ==
  \A n \in Elements :
    LET text == IF styleAttrDirty[n]
                  THEN IF inlineStyle[n] = Null THEN Null ELSE AsText(inlineStyle[n])
                  ELSE attrs[n][StyleAttr]
    IN /\ (text = Null) = (inlineStyle[n] = Null)
       /\ text # Null => ParseInlineStyle(text) = inlineStyle[n]

(***************************************************************************)
(* The TreeScope id map registers each element exactly under its current  *)
(* id: updateId is fed the old value by willModifyAttribute on every set,  *)
(* append and remove path.                                                 *)
(***************************************************************************)
IdMapConsistent ==
  \A i \in Ids : idMap[i] = {n \in Elements : attrs[n][IdAttr] = i}

(***************************************************************************)
(* classChangeNeedsStyleRecalc, applied to the token list an element holds *)
(* now and any class value a script can write next, agrees with the       *)
(* symmetric difference of the token sets: lists with repeats reach it    *)
(* through the attribute pipeline.                                         *)
(***************************************************************************)
ClassChangeMatchesReference ==
  \A n \in Elements : \A new \in {<<>>} \cup AttrDomain[ClassAttr] :
    ClassChangeNeedsStyleRecalc(classNames[n], new) = ClassChangeReference(classNames[n], new)

(***************************************************************************)
(* Every element that needs a recalc eventually gets it, unless the        *)
(* document is detached first: a pass never leaves a dirty flag behind.    *)
(***************************************************************************)
DirtyEventuallyRecalculated ==
  \A n \in Elements :
    styleChange[n] # NoStyleChange ~> (styleChange[n] = NoStyleChange \/ ~active)

(***************************************************************************)
(* getComputedStyle is never stale: whenever                               *)
(* updateRenderTreeForNodeIfNeeded(n) would not update, what               *)
(* Element::computedStyle returns, from the renderer or from the cache in  *)
(* the rare data, is the style resolved from n's rules and its parent's    *)
(* current computed style.  spec.md: a computed style is destroyed when    *)
(* replaced or when the node is detached from the render tree.  The cache *)
(* of an element without a renderer is dropped by recalcStyle, by attach  *)
(* of a node marked for reattach and by detach outside a recalc; a        *)
(* reattach of its display:none ancestor inside a recalc is none of them. *)
(***************************************************************************)
RECURSIVE ExpectedComputedStyle(_)
ExpectedComputedStyle(n) ==
  Resolve(MatchedRules(n), IF Parent[n] = Doc THEN StyleForDocument(lang)
                           ELSE ExpectedComputedStyle(Parent[n]))

ComputedStyleFresh ==
  active =>
    \A n \in Elements :
      ~NodeNeedsRecalc(n) => ComputedStyleRead(cstyle, n).style = ExpectedComputedStyle(n)


==============================================================================
