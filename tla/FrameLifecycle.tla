--------------------------- MODULE FrameLifecycle ---------------------------
(***************************************************************************)
(* The lifetime of a page, its main frame, the frame's window and the      *)
(* documents the window installs, as sky_engine's handlers drive it:       *)
(*   - Page (src/sky/engine/core/page/Page.cpp): setMainFrame,             *)
(*     settingsChanged, setDeviceScaleFactor, the multisampling observer   *)
(*     set, documentDetached and willBeDestroyed;                          *)
(*   - LocalDOMWindow (frame/LocalDOMWindow.cpp): installNewDocument,      *)
(*     clearDocument, the DOMWindowProperty registry, frameDestroyed,      *)
(*     reset and the destructor's assertions;                              *)
(*   - Document (dom/Document.cpp): attach, prepareForDestruction, detach, *)
(*     styleResolverChanged, mediaQueryAffectingValueChanged, updateLayout *)
(*     (behind Element's geometry getters) and the scripted animation      *)
(*     controller (request, cancel, service).                              *)
(* LocalFrame, StyleEngine and the canvases that observe multisampling are *)
(* not in the repository: they are the environment, whose actions call the *)
(* handlers above.  A dereference of a null pointer, and a failed ASSERT,  *)
(* is recorded in `faults` instead of being left out.                      *)
(***************************************************************************)
EXTENDS FiniteSets

CONSTANTS
  Docs,          \* the documents the window may install, in any order
  NoDoc,         \* a null Document*
  Observers,     \* MultisamplingChangedObservers (canvas contexts)
  Owner,         \* Owner[o]: the document whose canvas o belongs to
  Props,         \* DOMWindowProperty objects registered with the window
  ScaleFactors,  \* device scale factors the embedder may set
  ChangeTypes,   \* SettingsDelegate::ChangeType values the settings send
  SettingsOnlyWithFrame, \* the embedder changes settings only while a main frame is set
  CloseOnlyWhenLoaded,   \* the embedder closes the page only after a document was installed
  LoadOnlyWithView       \* a document is installed only once the frame has its view

StyleChange == "StyleChange"
MediaTypeChange == "MediaTypeChange"
MultisamplingChange == "MultisamplingChange"
ImageLoadingChange == "ImageLoadingChange"
FontFamilyChange == "FontFamilyChange"
MediaQueryChange == "MediaQueryChange"

ASSUME /\ Owner \in [Observers -> Docs]
       /\ NoDoc \notin Docs
       /\ 1 \in ScaleFactors
       /\ ChangeTypes \subseteq {StyleChange, MediaTypeChange, MultisamplingChange,
                                 ImageLoadingChange, FontFamilyChange, MediaQueryChange}

VARIABLES
  frame,        \* the main LocalFrame: "none", "live", "detached" or "destroyed"
  mainFrame,    \* Page::m_mainFrame is non-null
  frameView,    \* the frame has a FrameView
  windowAlive,  \* the frame's LocalDOMWindow exists
  windowDoc,    \* LocalDOMWindow::m_document
  properties,   \* LocalDOMWindow::m_properties
  hasBeenReset, \* LocalDOMWindow::m_hasBeenReset
  doc,          \* doc[d]: the lifecycle fields of Document d
  observers,    \* Page::m_multisamplingChangedObservers
  notified,     \* the observers the last MultisamplingChange notified
  scale,        \* Page::m_deviceScaleFactor
  faults        \* null dereferences and failed assertions so far

vars == <<frame, mainFrame, frameView, windowAlive, windowDoc, properties,
          hasBeenReset, doc, observers, notified, scale, faults>>

(* Document fields: created, m_active, m_stopped, m_frame # 0,            *)
(* m_domWindow # 0, m_styleEngine # 0,                                     *)
(* m_evaluateMediaQueriesOnStyleRecalc, and whether the style engine has  *)
(* been told the resolver changed (StyleEngine::resolverChanged);         *)
(* m_scriptedAnimationController (none, running or suspended) and whether *)
(* it holds a callback not yet run or cancelled.                           *)
DocFields == [created : BOOLEAN, active : BOOLEAN, stopped : BOOLEAN,
              hasFrame : BOOLEAN, hasWindow : BOOLEAN, styleEngine : BOOLEAN,
              evaluateMediaQueries : BOOLEAN,
              resolverChanged : BOOLEAN,
              animations : {"none", "running", "suspended"},
              callbackPending : BOOLEAN]

NullDeref == "null dereference"
AssertFailed == "assertion failed"

TypeOK ==
  /\ frame \in {"none", "live", "detached", "destroyed"}
  /\ {mainFrame, frameView, windowAlive, hasBeenReset} \subseteq BOOLEAN
  /\ windowDoc \in Docs \cup {NoDoc}
  /\ properties \subseteq Props
  /\ doc \in [Docs -> DocFields]
  /\ observers \subseteq Observers /\ notified \subseteq Observers
  /\ scale \in ScaleFactors
  /\ faults \subseteq {NullDeref, AssertFailed}

Init ==
  /\ frame = "none" /\ mainFrame = FALSE /\ frameView = FALSE
  /\ windowAlive = FALSE /\ windowDoc = NoDoc
  /\ properties = {} /\ hasBeenReset = FALSE
  /\ doc = [d \in Docs |-> [created |-> FALSE, active |-> FALSE, stopped |-> FALSE,
                            hasFrame |-> FALSE, hasWindow |-> FALSE,
                            styleEngine |-> FALSE,
                            evaluateMediaQueries |-> FALSE, resolverChanged |-> FALSE,
                            animations |-> "none", callbackPending |-> FALSE]]
  /\ observers = {} /\ notified = {}
  /\ scale = 1
  /\ faults = {}

(***************************************************************************)
(* Handlers.  Each is an operator from a record L of the variables to the  *)
(* record after the handler, so that a handler calling another composes;   *)
(* Commit(L) makes it the next state.                                      *)
(***************************************************************************)
Current == [frame |-> frame, mainFrame |-> mainFrame, frameView |-> frameView,
            windowAlive |-> windowAlive, windowDoc |-> windowDoc,
            properties |-> properties, hasBeenReset |-> hasBeenReset, doc |-> doc,
            observers |-> observers, notified |-> {}, scale |-> scale,
            faults |-> faults]

Commit(L) ==
  /\ frame' = L.frame /\ mainFrame' = L.mainFrame /\ frameView' = L.frameView
  /\ windowAlive' = L.windowAlive /\ windowDoc' = L.windowDoc
  /\ properties' = L.properties /\ hasBeenReset' = L.hasBeenReset
  /\ doc' = L.doc /\ observers' = L.observers /\ notified' = L.notified
  /\ scale' = L.scale /\ faults' = L.faults

Fault(L, kind) == [L EXCEPT !.faults = @ \cup {kind}]

(* Document::page(): m_frame ? m_frame->page() : 0; a frame detached from *)
(* its page (LocalFrame::detach) no longer reaches it.                     *)
HasPage(L, d) == L.doc[d].hasFrame /\ L.frame = "live"

(* Document::view(): m_frameView is never set in src (setFrameView has no *)
(* caller), so it is m_frame ? m_frame->view() : 0.                        *)
DocView(L, d) == L.doc[d].hasFrame /\ L.frameView

(* LocalFrame::document(): the document of the frame's window.            *)
FrameDocument(L) == IF L.windowAlive THEN L.windowDoc ELSE NoDoc

(* Mutant: the early return for a torn-down document is dropped.         *)
StyleResolverChangedUnguarded(L, d) ==
  IF ~L.doc[d].styleEngine THEN Fault(L, NullDeref)
  ELSE [L EXCEPT !.doc[d].resolverChanged = TRUE]

(* Document::styleResolverChanged: skipped once the style engine is gone. *)
StyleResolverChanged(L, d) ==
  IF ~L.doc[d].styleEngine THEN L
  ELSE [L EXCEPT !.doc[d].resolverChanged = TRUE]

(* Page::setNeedsRecalcStyleInAllFrames.                                   *)
SetNeedsRecalcStyleInAllFrames(L) ==
  IF L.mainFrame /\ FrameDocument(L) # NoDoc
  THEN StyleResolverChanged(L, FrameDocument(L))
  ELSE L

(* Document::mediaQueryAffectingValueChanged.                            *)
MediaQueryAffectingValueChanged(L, d) ==
  [L EXCEPT !.doc[d].evaluateMediaQueries = TRUE]

(* Page::settingsChanged.  FontFamilyChange and MediaQueryChange call     *)
(* mainFrame()->document() without testing mainFrame(); MediaTypeChange   *)
(* tests it but not mainFrame()->view().                                  *)
SettingsChanged(L, changeType) ==
  LET d == FrameDocument(L) IN
  CASE changeType = StyleChange -> SetNeedsRecalcStyleInAllFrames(L)
    [] changeType = MediaTypeChange ->
         IF ~L.mainFrame THEN L
         ELSE IF ~L.frameView THEN Fault(L, NullDeref)
         ELSE SetNeedsRecalcStyleInAllFrames(L)
    [] changeType = MultisamplingChange -> [L EXCEPT !.notified = L.observers]
    [] changeType = ImageLoadingChange -> L
    [] changeType = FontFamilyChange ->
         IF ~L.mainFrame THEN Fault(L, NullDeref)
         ELSE IF d # NoDoc /\ L.doc[d].active /\ ~L.doc[d].styleEngine
              THEN Fault(L, NullDeref)
              ELSE SetNeedsRecalcStyleInAllFrames(L)
    [] changeType = MediaQueryChange ->
         IF ~L.mainFrame THEN Fault(L, NullDeref)
         ELSE SetNeedsRecalcStyleInAllFrames(
                IF d # NoDoc THEN MediaQueryAffectingValueChanged(L, d) ELSE L)

(* Page::setDeviceScaleFactor: an unchanged factor is ignored.            *)
SetDeviceScaleFactor(L, f) ==
  IF L.scale = f THEN L
  ELSE SetNeedsRecalcStyleInAllFrames([L EXCEPT !.scale = f])

(* Page::documentDetached drops every observer, whichever document        *)
(* registered it.                                                          *)
DocumentDetached(L) == [L EXCEPT !.observers = {}]

(* Mutant: m_frame is cleared before the page is told.                    *)
DetachClearsFrameFirst(L, d) ==
  LET L1 == IF ~L.doc[d].active THEN Fault(L, AssertFailed) ELSE L
      L2 == [L1 EXCEPT !.doc[d].hasFrame = FALSE]
      L3 == IF HasPage(L2, d) THEN DocumentDetached(L2) ELSE L2
  IN [L3 EXCEPT !.doc[d].active = FALSE, !.doc[d].stopped = TRUE,
                !.doc[d].animations = "none", !.doc[d].callbackPending = FALSE,
                !.doc[d].styleEngine = FALSE]

(* Document::detach: the page hears of it while m_frame is still set;     *)
(* the animation controller is let go (with its callbacks); then the      *)
(* style engine and m_frame are cleared.                                   *)
Detach(L, d) ==
  LET L1 == IF ~L.doc[d].active THEN Fault(L, AssertFailed) ELSE L
      L2 == IF HasPage(L1, d) THEN DocumentDetached(L1) ELSE L1
  IN [L2 EXCEPT !.doc[d].active = FALSE, !.doc[d].stopped = TRUE,
                !.doc[d].animations = "none", !.doc[d].callbackPending = FALSE,
                !.doc[d].styleEngine = FALSE,
                !.doc[d].hasFrame = FALSE]

(* Document::needsRenderTreeUpdate for a document no pass is running in:  *)
(* an active document with a view whose style needs a recalc, which is    *)
(* what StyleEngine::resolverChanged (outside src) asks for.               *)
NeedsRenderTreeUpdate(L, d) ==
  L.doc[d].active /\ DocView(L, d) /\ L.doc[d].resolverChanged

(* Mutant: the flag is never reset after the evaluation.                  *)
EvaluateMediaQueryListKeepsFlag(L, d) == L

(* Document::evaluateMediaQueryListIfNeeded; evaluateMediaQueryList is    *)
(* empty in src.                                                           *)
EvaluateMediaQueryListIfNeeded(L, d) ==
  IF ~L.doc[d].evaluateMediaQueries THEN L
  ELSE [L EXCEPT !.doc[d].evaluateMediaQueries = FALSE]

(* Document::updateRenderTreeIfNeeded, i.e. updateRenderTree(NoChange):   *)
(* it returns at once without a view, in an inactive document or when     *)
(* nothing needs a recalc, so the media queries are evaluated only as     *)
(* part of a style pass; updateStyle then leaves the document clean (the  *)
(* pass itself is StyleRecalc's).                                          *)
UpdateRenderTreeIfNeeded(L, d) ==
  IF ~NeedsRenderTreeUpdate(L, d) THEN L
  ELSE [EvaluateMediaQueryListIfNeeded(L, d) EXCEPT !.doc[d].resolverChanged = FALSE]

(* Mutant: the isActive() early return is dropped.                        *)
UpdateLayoutForDetached(L, d) ==
  LET L2 == UpdateRenderTreeIfNeeded(L, d) IN
  IF ~DocView(L2, d) THEN Fault(L2, NullDeref) ELSE L2

(* Document::updateLayout: updateRenderTreeIfNeeded, then the early      *)
(* return for an inactive document, then frameView->needsLayout() without *)
(* a null test.  Layout itself changes no state modelled here; no layout  *)
(* is in progress when script or the frame loop calls it.                 *)
UpdateLayout(L, d) ==
  LET L2 == UpdateRenderTreeIfNeeded(L, d) IN
  IF ~L2.doc[d].active THEN L2
  ELSE IF ~DocView(L2, d) THEN Fault(L2, NullDeref)
  ELSE L2

(* Element's offsetLeft/Top/Width/Height/Parent, clientLeft/Top/Width/     *)
(* Height, getClientRects and getBoundingClientRect: updateLayout, then a *)
(* read of the renderer, or 0 without one.                                 *)
ElementLayoutQuery(L, d) == UpdateLayout(L, d)

(* Mutant: the page() test is dropped and every new controller suspended. *)
EnsureAlwaysSuspended(L, d) ==
  IF L.doc[d].animations # "none" THEN L
  ELSE [L EXCEPT !.doc[d].animations = "suspended"]

(* Mutant: the controller is started whatever page() says.               *)
EnsureAlwaysRunning(L, d) ==
  IF L.doc[d].animations # "none" THEN L
  ELSE [L EXCEPT !.doc[d].animations = "running"]

(* Document::ensureScriptedAnimationController: a new controller is       *)
(* suspended when the document has no page.                                *)
EnsureScriptedAnimationController(L, d) ==
  IF L.doc[d].animations # "none" THEN L
  ELSE [L EXCEPT !.doc[d].animations = IF HasPage(L, d) THEN "running" ELSE "suspended"]

(* Document::requestAnimationFrame: the callback is registered with the   *)
(* controller (ScriptedAnimationController::registerCallback).            *)
DocRequestAnimationFrame(L, d) ==
  [EnsureScriptedAnimationController(L, d) EXCEPT !.doc[d].callbackPending = TRUE]

(* Document::cancelAnimationFrame: nothing without a controller.          *)
DocCancelAnimationFrame(L, d) ==
  IF L.doc[d].animations = "none" THEN L
  ELSE [L EXCEPT !.doc[d].callbackPending = FALSE]

(* Document::serviceScriptedAnimations: a suspended controller runs no    *)
(* callback (ScriptedAnimationController::serviceScriptedAnimations).     *)
ServiceScriptedAnimations(L, d) ==
  IF L.doc[d].animations # "running" THEN L
  ELSE [L EXCEPT !.doc[d].callbackPending = FALSE]

(* LocalDOMWindow::requestAnimationFrame and cancelAnimationFrame go to   *)
(* m_document, if any, even after it was detached.                         *)
WindowRequestAnimationFrame(L) ==
  IF L.windowDoc = NoDoc THEN L ELSE DocRequestAnimationFrame(L, L.windowDoc)

WindowCancelAnimationFrame(L) ==
  IF L.windowDoc = NoDoc THEN L ELSE DocCancelAnimationFrame(L, L.windowDoc)

(* LocalDOMWindow::willDetachDocumentFromFrame: every property of a copy  *)
(* of m_properties is told; the callbacks unregister the properties in    *)
(* `leaving`.                                                              *)
WillDetachDocumentFromFrame(L, leaving) ==
  [L EXCEPT !.properties = @ \ leaving]

(* Mutant: the isActive() early return is dropped.                        *)
PrepareForDestructionAgain(L, d, leaving) ==
  Detach(IF L.doc[d].hasWindow THEN WillDetachDocumentFromFrame(L, leaving) ELSE L, d)

(* Document::prepareForDestruction: a document already detached is left  *)
(* alone.                                                                  *)
PrepareForDestruction(L, d, leaving) ==
  IF ~L.doc[d].active THEN L
  ELSE Detach(IF L.doc[d].hasWindow THEN WillDetachDocumentFromFrame(L, leaving) ELSE L, d)

(* LocalDOMWindow::clearDocument.                                          *)
ClearDocument(L) ==
  IF L.windowDoc = NoDoc THEN L
  ELSE [L EXCEPT !.doc[L.windowDoc].hasWindow = FALSE, !.windowDoc = NoDoc]

(* Document::Document: the document takes the frame and its window.      *)
CreateDocument(L, d) ==
  [L EXCEPT !.doc[d].created = TRUE, !.doc[d].hasFrame = TRUE,
            !.doc[d].hasWindow = TRUE]

(* Document::attach: a style engine is created, then m_active is set.     *)
Attach(L, d) == [L EXCEPT !.doc[d].styleEngine = TRUE, !.doc[d].active = TRUE]

(* LocalDOMWindow::installNewDocument: the old document only loses its     *)
(* window; it is neither detached nor stopped.                             *)
InstallNewDocument(L, d) ==
  Attach([CreateDocument(ClearDocument(L), d) EXCEPT !.windowDoc = d], d)

(* LocalDOMWindow::reset: willDestroyDocumentInFrame (whose callbacks may  *)
(* unregister properties) then resetDOMWindowProperties.                   *)
Reset(L) == [L EXCEPT !.properties = {}, !.hasBeenReset = TRUE]

(* LocalDOMWindow::frameDestroyed.                                         *)
FrameDestroyed(L) == Reset(L)

(* LocalDOMWindow::~LocalDOMWindow: ASSERT(m_hasBeenReset), reset,         *)
(* ASSERT(m_document->isStopped()), clearDocument.                        *)
DestroyWindow(L) ==
  LET L1 == Reset(IF ~L.hasBeenReset THEN Fault(L, AssertFailed) ELSE L)
      L2 == CASE L1.windowDoc = NoDoc -> Fault(L1, NullDeref)
              [] ~L1.doc[L1.windowDoc].stopped -> Fault(L1, AssertFailed)
              [] OTHER -> L1
  IN [ClearDocument(L2) EXCEPT !.windowAlive = FALSE]

(* LocalFrame::detach is outside the repository: it prepares the frame's  *)
(* document for destruction, then leaves the page.                        *)
FrameDetach(L, leaving) ==
  LET d == FrameDocument(L)
      L1 == IF d = NoDoc THEN L ELSE PrepareForDestruction(L, d, leaving)
  IN [L1 EXCEPT !.frame = "detached"]

(* Page::willBeDestroyed: m_mainFrame is dereferenced unconditionally.     *)
WillBeDestroyed(L, leaving) ==
  IF ~L.mainFrame THEN Fault(L, NullDeref)
  ELSE [FrameDetach(L, leaving) EXCEPT !.frameView = FALSE, !.mainFrame = FALSE]

(***************************************************************************)
(* Actions.  The embedder, LocalFrame and the canvases call the handlers.  *)
(***************************************************************************)
(* LocalFrame's constructor creates its window and calls                  *)
(* Page::setMainFrame; the embedder then gives it a view (createView).    *)
CreateMainFrame ==
  /\ frame = "none"
  /\ Commit([Current EXCEPT !.frame = "live", !.mainFrame = TRUE,
                            !.windowAlive = TRUE, !.hasBeenReset = FALSE])

CreateView ==
  /\ frame = "live" /\ ~frameView
  /\ Commit([Current EXCEPT !.frameView = TRUE])

(* A load installs a document the window has not had before.              *)
LoadDocument(d) ==
  /\ frame = "live" /\ ~doc[d].created
  /\ LoadOnlyWithView => frameView
  /\ Commit(InstallNewDocument(Current, d))

(* The frame loader, or a later teardown, destroys a document it created. *)
DestroyDocument(d, leaving) ==
  /\ doc[d].created
  /\ Commit(PrepareForDestruction(Current, d, leaving))

EmbedderMayChangeSettings == SettingsOnlyWithFrame => (mainFrame /\ frameView)

ChangeSetting(changeType) ==
  /\ EmbedderMayChangeSettings
  /\ Commit(SettingsChanged(Current, changeType))

ChangeScale(f) == Commit(SetDeviceScaleFactor(Current, f))

(* A canvas of an attached document reaches the page through              *)
(* document()->page() and adds itself.                                     *)
AddObserver(o) ==
  /\ doc[Owner[o]].active /\ HasPage(Current, Owner[o]) /\ o \notin observers
  /\ Commit([Current EXCEPT !.observers = @ \cup {o}])

RemoveObserver(o) ==
  /\ o \in observers
  /\ Commit([Current EXCEPT !.observers = @ \ {o}])

(* Script calls window.requestAnimationFrame or cancelAnimationFrame.    *)
RequestAnimationFrame ==
  /\ windowAlive
  /\ Commit(WindowRequestAnimationFrame(Current))

CancelAnimationFrame ==
  /\ windowAlive
  /\ Commit(WindowCancelAnimationFrame(Current))

(* Script of the live frame reads the geometry of an element of any       *)
(* document it holds, the window's detached one included.                 *)
QueryLayout(d) ==
  /\ frame = "live" /\ doc[d].created
  /\ Commit(ElementLayoutQuery(Current, d))

(* The embedder's frame loop services the live frame's document.          *)
ServiceAnimations ==
  /\ frame = "live" /\ FrameDocument(Current) # NoDoc
  /\ Commit(ServiceScriptedAnimations(Current, FrameDocument(Current)))

(* The frame loop's paint pass, FrameView::updateLayoutAndStyleForPainting *)
(* (declared in FrameView.h, defined outside src): the style pass and      *)
(* layout of the live frame's document, through its view.                 *)
PaintFrame ==
  /\ frame = "live" /\ frameView /\ FrameDocument(Current) # NoDoc
  /\ Commit(UpdateLayout(Current, FrameDocument(Current)))

RegisterProperty(p) ==
  /\ windowAlive /\ p \notin properties
  /\ Commit([Current EXCEPT !.properties = @ \cup {p}])

UnregisterProperty(p) ==
  /\ p \in properties
  /\ Commit([Current EXCEPT !.properties = @ \ {p}])

(* The embedder closes the page once.                                     *)
ClosePage(leaving) ==
  /\ frame \in {"none", "live"}
  /\ CloseOnlyWhenLoaded => windowDoc # NoDoc
  /\ Commit(WillBeDestroyed(Current, leaving))

(* The last reference to the detached frame goes, then to its window.     *)
DestroyFrame ==
  /\ frame = "detached" /\ windowAlive
  /\ Commit([FrameDestroyed(Current) EXCEPT !.frame = "destroyed"])

WindowDestroyed ==
  /\ frame = "destroyed" /\ windowAlive
  /\ Commit(DestroyWindow(Current))

Next ==
  \/ CreateMainFrame \/ CreateView \/ DestroyFrame \/ WindowDestroyed
  \/ RequestAnimationFrame \/ CancelAnimationFrame \/ ServiceAnimations
  \/ PaintFrame
  \/ \E d \in Docs : LoadDocument(d) \/ QueryLayout(d)
  \/ \E d \in Docs, leaving \in SUBSET properties : DestroyDocument(d, leaving)
  \/ \E leaving \in SUBSET properties : ClosePage(leaving)
  \/ \E c \in ChangeTypes : ChangeSetting(c)
  \/ \E f \in ScaleFactors : ChangeScale(f)
  \/ \E o \in Observers : AddObserver(o) \/ RemoveObserver(o)
  \/ \E p \in Props : RegisterProperty(p) \/ UnregisterProperty(p)

(* The embedder's frame loop (outside src) calls serviceScriptedAnimations *)
(* and then paints the live frame's view (updateLayoutAndStyleForPainting) *)
(* on every frame; script, the loader and the embedder's other calls get   *)
(* no fairness.                                                            *)
Fairness == WF_vars(ServiceAnimations) /\ WF_vars(PaintFrame)

Spec == Init /\ [][Next]_vars /\ Fairness

(***************************************************************************)
(* Properties.                                                             *)
(***************************************************************************)
(* No handler dereferences a null pointer: settingsChanged reaches the    *)
(* frame, its view and the style engine only when they exist, and         *)
(* styleResolverChanged on a torn-down document is skipped.               *)
NoNullDereference == NullDeref \notin faults

(* No ASSERT fails: Document::detach runs only on an active document      *)
(* (prepareForDestruction may be called again on a detached one), and     *)
(* the window is destroyed reset and with its document stopped.           *)
NoAssertionFailure == AssertFailed \notin faults

(* A multisampling change is delivered only to canvases whose document is *)
(* still attached: Document::detach makes the page drop its observers     *)
(* (Page::documentDetached) before it lets go of the frame.               *)
NotifiesOnlyAttachedDocuments == \A o \in notified : doc[Owner[o]].active
(* A detached document never has a running animation controller:        *)
(* Document::detach lets the controller go, and one that                   *)
(* window.requestAnimationFrame re-creates on the window's detached        *)
(* document is suspended because page() is null once m_frame is cleared,  *)
(* so no callback can run against a stopped document.                      *)
NoAnimationsOnDetachedDocument ==
  \A d \in Docs : doc[d].stopped => doc[d].animations # "running"

(* A callback registered on the document of the live frame while it is    *)
(* active is eventually run, unless it is cancelled or the document stops  *)
(* being the live frame's active document: the controller                  *)
(* ensureScriptedAnimationController creates for it is not suspended, as   *)
(* nothing in src ever resumes one.                                        *)
AnimationDue(d) ==
  /\ doc[d].callbackPending /\ doc[d].active
  /\ frame = "live" /\ FrameDocument(Current) = d

PendingCallbackEventuallyRuns == \A d \in Docs : AnimationDue(d) ~> ~AnimationDue(d)

(* A media-query change reaches the live frame's attached document: the   *)
(* m_evaluateMediaQueriesOnStyleRecalc flag that                           *)
(* Page::settingsChanged(MediaQueryChange) sets is consumed by the next    *)
(* style pass of the frame loop, which updateRenderTree runs only when the *)
(* document needs a recalc; the same handler's setNeedsRecalcStyleInAllFrames *)
(* is what makes it need one.                                               *)
MediaQueriesDue(d) ==
  /\ doc[d].evaluateMediaQueries /\ doc[d].active
  /\ frame = "live" /\ frameView /\ FrameDocument(Current) = d

MediaQueriesEventuallyEvaluated ==
  \A d \in Docs : MediaQueriesDue(d) ~> ~MediaQueriesDue(d)

=============================================================================
