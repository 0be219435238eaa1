# TLA+ models of sky_engine's DOM core

This directory holds TLA+ models of the C++ under `src/sky/engine`. Each model
is checked with TLC. The parts modelled, and how they interact:

* **Attributes.** `Element.cpp`/`Element.h` store every attribute in an
  `ElementData` object. The object is shared copy-on-write between elements
  that the parser or cloning gave equal attributes. Every write goes through
  `setAttributeInternal` / `appendAttributeInternal` / `removeAttributeInternal`,
  `willModifyAttribute` and `attributeChanged`. These keep the id map,
  `idForStyleResolution`, the class list and the inline style in step, and
  mark nodes for a style recalc.
* **Style invalidation and recalc.** Every node has a `styleChangeType` and a
  `childNeedsStyleRecalc` flag. `Document::updateRenderTree` runs
  `recalcStyle` over the marked lineages, and `updateRenderTreeForNodeIfNeeded`
  trusts the flags to say whether a style is current.
* **Reflected attributes.** `contentEditable`, `dir`, `spellcheck` (inherited
  up the element chain), the inherited language and the unsigned integral
  reflection are getters and setters over those attributes.
* **Page, frame, window and document lifetime.** `Page.cpp`,
  `LocalDOMWindow.cpp` and `Document::attach/detach/prepareForDestruction`
  decide which pointers are live when settings, scale factor and
  multisampling changes arrive, whether an animation-frame controller a
  script creates may run, and whether `Document::updateLayout` (behind every
  Element geometry getter) can reach a null view.
* **Hover and active chain.** `Document::setHoverNode`,
  `setActiveHoverElement`, `hoveredNodeDetached` and `activeChainNodeDetached`
  keep the hovered node and the active element on nodes that have a
  renderer, as `Node::detach` tears renderers down.
* **Pure algorithms of Document.cpp.** Name validation (`isValidName`,
  `parseQualifiedName`) and title canonicalization (`canonicalizedTitle`).

A handler runs on the main thread from start to finish, so each DOM entry
point is one action. It is written as the chain of calls the C++ makes over a
state record `S` or `L`, for example
`SetAttributeInternal(SynchronizeAttribute(S, ...), ...)`. The result is
committed at the end, so every `updateId`, `setNeedsStyleRecalc`, copy and
scheduling call inside the handler is part of the step. A null dereference or
a failed ASSERT is recorded in a `faults` variable, not left out.

## Modules

| module | models | state / actions |
|---|---|---|
| `StyleTypes` | the severity scales, `affectedBy*Selector`, `classChangeNeedsStyleRecalc`, and the style collaborators (`styleForElement`, `stylePropagationDiff`, from spec.md) | pure operators |
| `ElementAttributes` | the attribute pipeline and the dirty-state tracker | `attrs`, `idForStyle`, `classNames`, `inlineStyle`, `styleAttrDirty`, `idMap`, `styleChange`, `childNeeds`, `visualUpdatePending`; actions `SetAttribute`, `RemoveAttribute`, `GetStyleAttribute`, the CSSOM inline-style edits |
| `StyleRecalc` | `recalcStyle` and the scheduler, composed with `ElementAttributes` | adds `rstyle`, `viewStyle`, `lang`, `cstyle` (the computed style `Element::computedStyle` caches in `ElementRareData`); actions `UpdateRenderTree(NoChange \| Force)`, `SetContentLanguage`, `DetachDocument`, `GetComputedStyle` (`LocalDOMWindow::getComputedStyle` on an element of `StyleReads`) |
| `ElementData` | shared and unique `ElementData`, the parser's `ElementDataCache`, `parserSetAttributes`, `cloneAttributesFromElement`, `insertedInto`/`removedFrom` and the id map, `setParsing` | `created`, `inDoc`, `dataOf`, `store` (a pool of `ElementData` objects), `cache`, `parsing`, `reg` (the id map), `faults` |
| `AttributeStore` | what `Element` promises: a private attribute map per element | `created`, `inDoc`, `attrs`; `Create`, `Write`, `Insert`, `Remove` |
| `AttributeReflection` | `contentEditable`, `dir`, `spellcheck`, `isSpellCheckingEnabled`, `computeInheritedLanguage`, `get/setUnsignedIntegralAttribute` | `attrs` of a chain of elements, `contentLanguage`; one action per setter |
| `FrameLifecycle` | `Page`, `LocalDOMWindow`, the lifecycle fields of `Document` | frame, view, window, per-document `created/active/stopped/styleEngine/animations`, observers, properties, `faults`; environment actions for `LocalFrame`, the embedder and script (`RequestAnimationFrame`, `CancelAnimationFrame`, `ServiceAnimations`, `PaintFrame`, `QueryLayout`); the media-query flag and whether a style pass is due |
| `HoverActive` | the hovered node and active element of a `Document`, and their clearing in `Document::detach` | `attached`, `rendered`, `hover`, `active`, `hoverChain`, `activeChain`; `UpdateHover`, `UpdateActive`, `DetachSubtree`, `AttachSubtree`, `DetachDocument` |
| `NameValidation` | `isValidNameStart`, `isValidNamePart`, `isValidName` (ASCII, 8-bit and 16-bit paths), `parseQualifiedName` | pure operators; a harness grows names one code point at a time |
| `TitleCanonicalization` | `canonicalizedTitle` | pure operators; a harness grows titles one code unit at a time |

Each `MC*` module gives TLC the constants; `MCDocumentStrings` instances
both string algorithms in one run, each generator moving only while the
other string is empty, so that its states are the names plus the titles.
Otherwise an `MC*` module gives TLC the constants: model values for elements,
documents and objects, and small sets of names, values and code points.

Notes on particular modules:
* **StyleRecalc.** The style pass runs under `ScriptForbiddenScope`, so it is
  one atomic step. RECURSIVE operators follow the C++ recursion: children are
  visited last to first, and the style sharing list is threaded through.
  A reattach is `DetachSubtree` then `AttachNode`: `Node::detach` (outside
  `src/`) marks every detached node `NeedsReattachStyleChange`, which the
  comments of `Element::attach` and `Element::detach` (Element.cpp:561, 578)
  rely on to drop cached computed styles inside a recalc.
* **Style abstraction.** Style is abstracted to the rules an element matches:
  id, class tokens, `[attr]` values and inline declarations. A rule hides the
  renderer, sets an inherited property or sets a local one.
  `ExpectedStyle(n)` is the style a from-scratch attach would give `n`.
* **ElementData.** `ElementData` objects are drawn from a pool `DataIds`. An
  object no element or cache entry references is returned to the pool in the
  same step, as its `RefPtr` release does.
* **Refinement.** `ElementData` is shown to implement `AttributeStore` by
  `AbstractStore == INSTANCE AttributeStore WITH attrs <- [e \in Elements |-> ElementAttrs(State, e)]`:
  every element sees the attributes of the object `dataOf` points at.
* **HoverActive.** `Node::detach` and `ContainerNode::detach` are outside
  `src/`; from their contract, a subtree is torn down children first, and each
  node loses its renderer, then notifies the document if it is in the
  hover or active chain (`UserActionElementSet`), then loses its flags. The
  hit test and the mouse press that set hover and active are the
  environment. `DetachTree`/`DetachChildren` are mutually RECURSIVE.
* **Animation frames.** `ScriptedAnimationController` is outside `src/`; a
  document's controller is none, running or suspended, with one abstract
  pending callback. A suspended controller runs nothing when serviced.
* **Layout queries.** `Document::view()` is `m_frame->view()`: `m_frameView`
  is never set in `src/` (`setFrameView` has no caller). `FrameLifecycle`
  keeps the head of `updateRenderTreeIfNeeded` (its early returns, then
  `evaluateMediaQueryListIfNeeded`) and which pointer `updateLayout`
  dereferences in which state; the style pass itself is `StyleRecalc`'s and
  layout is outside `src/`. A document needs a pass once
  `StyleEngine::resolverChanged` (outside `src/`) has been asked for one; the
  pass leaves it clean. Script of the live frame may query any document it
  holds; the frame loop's paint pass (`PaintFrame`,
  `FrameView::updateLayoutAndStyleForPainting`, defined outside `src/`) runs
  `updateLayout` on the live frame's document.
* **Code outside `src/`.** Node.cpp, ContainerNode.cpp, TreeScope, StyleResolver,
  RenderStyle, ElementDataCache and the WTF string functions are not in `src/`.
  The parts of them the handlers call are modelled from spec.md or from their
  documented contract, and are marked `spec_modelled` in PROJECT.json.
* **Width.** TLC's integers stop at 2^31−1, so `AttributeReflection` takes the
  width of `unsigned` as a constant `Width`. The bound `0x7fffffff` is then
  2^(Width−1)−1, and the runs use Width = 8.

## Properties

* **Style** (`StyleRecalc`, `ElementAttributes`):
  * `DirtyChain`: every ancestor of a dirty node has `childNeeds`.
  * `CleanLineageStyleFresh`: an element that `updateRenderTreeForNodeIfNeeded`
    would not restyle has exactly `ExpectedStyle`.
  * `ComputedStyleFresh`: what `Element::computedStyle` returns for a clean
    element, through the cache, is the style its lineage resolves to now.
  * `DirtyEventuallyRecalculated` (liveness): a dirty element is eventually
    clean, or the document is detached.
  * `NoOverInvalidation`: a write marks a clean element only if its matched
    rules changed.
  * `StyleAttributeReflectsInlineStyle`: the serialised `style` attribute
    matches the inline style.
  * `IdMapConsistent`: each element is in the id map under its current id.
  * `ClassChangeMatchesReference`: the class diff equals the symmetric
    difference restricted to selector classes.
  * `TypeOK`.
* **ElementData**:
  * `NoAssertionFailure`: no `DocumentOrderedMap` ASSERT fails.
  * `IdMapConsistent`: the id map holds exactly the in-document elements
    whose id is non-empty.
  * `UniqueDataNotShared`: a `UniqueElementData` is never referenced by two
    elements.
  * `IdForStyleMatchesAttribute`: `idForStyleResolution` equals the id
    attribute.
  * `ImplementsAttributeStore`: `ElementData` refines `AttributeStore`.
* **FrameLifecycle**:
  * `NoNullDereference`.
  * `NoAssertionFailure`.
  * `NotifiesOnlyAttachedDocuments`: a multisampling change reaches only
    canvases of active documents.
  * `NoAnimationsOnDetachedDocument`: no stopped document has a running
    animation controller. `Document::detach` drops the controller, but the
    window keeps `m_document`, so `window.requestAnimationFrame` creates a new
    one on the detached document; only `page()` being null (detach cleared
    `m_frame`) makes it suspended.
  * `PendingCallbackEventuallyRuns` (liveness): a callback pending on the
    live frame's active document is eventually run, cancelled, or its
    document stops being that document. It fails if a controller is ever
    created suspended on the frame's document, since nothing resumes it.
  * `MediaQueriesEventuallyEvaluated` (liveness): the flag
    `mediaQueryAffectingValueChanged` sets on the live frame's attached
    document is eventually consumed. `updateRenderTree` returns at the
    `needsRenderTreeUpdate` test before it reaches
    `evaluateMediaQueryListIfNeeded`, so this holds only because
    `settingsChanged(MediaQueryChange)` follows the flag with
    `setNeedsRecalcStyleInAllFrames`; dropping that call, or the reset of
    the flag, breaks it.
  * `NoNullDereference` also covers `updateLayout` on the window's detached
    document: only its `isActive()` return avoids `frameView->needsLayout()`
    on a null view.
* **HoverActive**:
  * `HoverActiveFollowNearestRenderedAncestor` (action property): on every
    step that destroys renderers, the new hovered node is the nearest
    ancestor-or-self of the old one that still has a renderer, and the new
    active element the nearest such element, or none. Breaking it needs a
    hover or press, then a teardown of a subtree or of the document.
* **NameValidation**:
  * `IsValidNameFollowsRules`: `isValidName` agrees with rules (a)–(j) of
    the comment.
  * `ParseQualifiedNameFollowsQName`: `parseQualifiedName` agrees with the
    QName production.
* **TitleCanonicalization**:
  * `TitleFollowsComment`: the result agrees with the function's comments,
    stated without loops.
* **AttributeReflection**:
  * `InheritedStatesFollowNearestAncestor`: spellcheck and language are
    decided by the nearest element that says something.
  * `KeywordsReflectInCanonicalCase`: the setters and getters use canonical
    keywords, and limited-to-known-values holds.

Every property of a passing run has a mutant in PROJECT.json: a plausible bug
in one mapped definition that TLC catches under the run's own cfg.

## Runs

| run | cfg | result |
|---|---|---|
| tree | `MCStyleRecalc_tree.cfg` | pass, 19,712 states, ~70 s |
| pipeline | `MCStyleRecalc_pipeline.cfg` | pass, 27,900 states |
| inherit | `MCStyleRecalc_inherit.cfg` | **violation** of `CleanLineageStyleFresh` |
| computed_style | `MCStyleRecalc_computed.cfg` | pass, 42,752 states, ~25 s |
| element_data | `MCElementData.cfg` | pass, 254,227 states, ~90 s |
| lifecycle | `MCFrameLifecycle.cfg` | pass, 36,786 states, ~2 min (the two liveness properties) |
| settings_no_frame | `MCFrameLifecycle_settings.cfg` | **violation** of `NoNullDereference` |
| strings | `MCDocumentStrings.cfg` | pass, 14,550 states (5,220 names + 9,331 titles) |
| name_rules_boundary | `MCNameValidation_boundary.cfg` | **violation** of `IsValidNameFollowsRules` |
| title_leading_separator | `MCTitleCanonicalization_boundary.cfg` | **violation** of `TitleFollowsComment` |
| reflection | `MCAttributeReflection.cfg` | pass, 13,607 states (the chain and the one-element instance side by side) |
| hover_active | `MCHoverActive.cfg` | pass, 131 states |

Bounds, and why they are enough:
* **tree, inherit.** Document → e1 → {e2, e3}: a parent with two children is
  enough for ancestor chains of length two, sibling sharing, and a reattach
  that must discard a child's renderer. There is an id rule with
  `display:none`, a class rule, and two content languages. `StyleReads` is
  empty here: the recursive computed-style read multiplies the tree's states.
* **computed_style.** The tree with `StyleReads = {e2}`, so script can read
  the style of a child whose parent has no renderer.
* **pipeline.** One element with two ids (one named by a selector) and the
  class lists `y`, `x y`, `y y`, `x`. This covers every branch of the class
  diff: added, removed, repeated, and unnamed tokens. It also has an invalid
  inline declaration, and an attribute named by an `[a]` selector and one
  named by none. The `[a]` rule sets `display:none` and `StyleReads = {e1}`,
  so the element loses its renderer and script fills and reads its
  computed-style cache.
* **element_data.** Two elements, two attribute names (`id` and `title`),
  the values `"a"` and `""`, and five `ElementData` ids, which two elements
  and a cache entry can never exhaust. Creation is by the parser (with and
  without the cache) and by cloning, in and out of the document.
* **lifecycle.** Two documents loaded into one frame in either order, one
  canvas observer each, two window properties and two scale factors; one
  abstract animation callback, enough to tell running from suspended and
  pending from done. `LoadOnlyWithView`: documents are installed only after
  `createView`, as the embedder (outside `src/`) is assumed to do; without it
  a geometry read on a freshly installed document crashes in `updateLayout`.
* **strings (names).** Every name of up to three code points over seventeen
  representative characters, in both string representations.
* **strings (titles).** Every title of up to five units over letters, space, tab, DEL and
  a no-break space.
* **reflection.** Two instances of `AttributeReflection` in one run, each
  moving only while the other is at its initial state. A chain of three
  elements with every mix of spellcheck values (`TRUE`, `false`, `""`, `x`,
  none) and lang values (`en`, `""`, none); and one element with mixed-case
  keywords and unknown and empty values. The unsigned setter runs on it with
  0, 7, 127, 128 and 255 (an 8-bit `IntMax`, `IntMax`+1 and `UIntMax`); no
  property is stated about it, since its only rule is the one range test.
* **hover_active.** Document → e1 → {e2, e3}, e2 → {e4, t1}, e3 → t2: text
  nodes under two elements, a grandchild, and siblings, so a teardown can
  move hover from a text node to its element's ancestor and active past a
  renderless element. `CHECK_DEADLOCK FALSE`: once the document is detached
  no action is enabled, and a detached document is never re-attached
  (`Document::detach`'s own comment).

What the violations show (details in PROJECT.json `findings`):
* **inherit.** When a parent's style changes only in inherited properties,
  `recalcChildStyle` visits children only for `change > Inherit`
  (Element.cpp:665). Its clean children keep stale inherited values.
* **settings_no_frame.** `Page::settingsChanged` dereferences `mainFrame()`
  for FontFamilyChange and MediaQueryChange without testing it
  (Page.cpp:159, 164). A settings change before `setMainFrame` or after
  `willBeDestroyed` crashes: TLC's trace is one such change on a fresh page.
  The run enables only these two change types. MediaTypeChange tests
  `mainFrame()` but not its `view()` (Page.cpp:146); no run shows that
  case, because the lifecycle run changes settings only once the frame has
  a view.
* **name_rules_boundary.** `isValidName` accepts U+00AA (a `<super>`
  decomposition), which rule (d) of the comment refuses. Rule (f) and the
  `>= 0xF900` test disagree with the comment too.
* **title_leading_separator.** The leading-space loop of
  `canonicalizedTitle` (Document.cpp:499) does not skip line or paragraph
  separators, though its comment says it does. `<<U+2028, 'a'>>` gives `" a"`.
  The function has no caller in this fork. Its comment also mentions
  replacing backslashes with currency symbols, which the code does not do;
  no property checks this.

## Fairness

`StyleRecalc`'s `Spec` assumes weak fairness of `UpdateRenderTree(NoChange)`,
written out as `FairRenderTreeUpdate` with an explicit ENABLED condition. The
code justifies this: `scheduleVisualUpdate` is empty, and a dirty document is
restyled only because the host frame loop calls `updateRenderTree` on every
frame. Script mutations, embedder calls and the parser get no fairness: they
may stop at any time. The fairness is written out rather than as
`WF_vars(UpdateRenderTree(NoChange))`: under `ENABLED` TLC re-evaluates the
recursive pass without caching its LET definitions, which runs at a few
hundred states a minute. The written-out form asks the same of behaviours
in which an update stays due.

`FrameLifecycle`'s `Spec` has `Fairness == WF_vars(ServiceAnimations) /\
WF_vars(PaintFrame)`: the same host frame loop calls
`serviceScriptedAnimations` on the live frame's document every frame (the
method has no other purpose and no caller in `src/`), and paints its view
through `updateLayoutAndStyleForPainting`. Script, the loader, the embedder's other calls and teardown get no
fairness. The remaining modules state safety properties only.

## Not modelled

* Text nodes, tree insertion and removal beyond `insertedInto`/`removedFrom`,
  and mutation observers (ContainerNode and the observer registry are not in
  `src/`).
* `SubtreeStyleChange` on elements (set only by callers outside `src/`),
  stylesheet changes, the body of media-query evaluation
  (`evaluateMediaQueryList` is empty; `MediaQueryMatcher` is outside `src/`),
  layout and paint.
* The RELEASE_ASSERT and silent re-entry guards of `updateRenderTree`: no
  modelled step can run inside a pass.
* A text node losing its renderer on its own (it is never reported to the
  hover code); the environment tears down element subtrees only.
* Document load events (`implicitClose`, `checkCompleted`, the load-event
  delay count): stubs in this fork, where `m_readyState` starts at Complete
  and no load is started.
* `FrameView`, `CanvasImage` and `SurfaceAllocator`: headers without a state
  machine in `src/`.
* The signed integral, floating-point and URL reflections.
* Window geometry getters, `matchMedia` and `css` (`getComputedStyle` is
  modelled in `StyleRecalc`): they only read state or
  forward to code outside `src/`.

## Plan for the next steps

1. Composing `HoverActive` with `StyleRecalc`, so that a `display:none`
   reattach is the renderer teardown that moves hover.
2. An abstract `StyleConsistency` specification (every clean lineage is
   fresh; passes only clear flags), with a refinement mapping from
   `StyleRecalc`.
3. Composing `ElementData` with the style effects of `ElementAttributes`, so
   that parser-created and cloned elements take part in style invalidation.
