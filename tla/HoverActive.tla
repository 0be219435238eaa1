----------------------------- MODULE HoverActive -----------------------------
(***************************************************************************)
(* The hovered node and the active element of a Document                  *)
(* (src/sky/engine/core/dom/Document.cpp): setHoverNode,                   *)
(* setActiveHoverElement, hoveredNodeDetached, activeChainNodeDetached and *)
(* the clearing of both in Document::detach.                               *)
(*                                                                         *)
(* The callers are outside the repository and are the environment: the    *)
(* hit test sets the hovered node (any rendered node, text included) and   *)
(* the active element, flagging the elements of their ancestor chains      *)
(* (UserActionElementSet); a renderer detach walks a subtree children     *)
(* first and, for each node, destroys its renderer, then tells the        *)
(* document if the node is flagged, then drops its flags.                 *)
(***************************************************************************)
EXTENDS FiniteSets

CONSTANTS
    DocNode,     \* the Document
    Elements,    \* element nodes
    TextNodes,   \* text nodes
    Parent,      \* Parent[n]: the parent node of a non-document node
    Null         \* a null Node*

Nodes == {DocNode} \cup Elements \cup TextNodes
ASSUME Parent \in [Elements \cup TextNodes -> {DocNode} \cup Elements]

ParentNode(n) == IF n = DocNode THEN Null ELSE Parent[n]

RECURSIVE AncestorsOrSelf(_)
AncestorsOrSelf(n) == IF n = Null THEN {} ELSE {n} \cup AncestorsOrSelf(ParentNode(n))

Subtree(r) == {n \in Nodes : r \in AncestorsOrSelf(n)}
Children(n) == {c \in Elements \cup TextNodes : Parent[c] = n}
ElementChain(n) == AncestorsOrSelf(n) \cap Elements

VARIABLES
    attached,     \* the document is attached (Document::m_active)
    rendered,     \* the nodes that have a renderer (the Document's is the RenderView)
    hover,        \* Document::m_hoverNode
    active,       \* Document::m_activeHoverElement
    hoverChain,   \* elements flagged hovered in UserActionElementSet
    activeChain   \* elements flagged in the active chain

vars == <<attached, rendered, hover, active, hoverChain, activeChain>>

State == [attached |-> attached, rendered |-> rendered, hover |-> hover,
          active |-> active, hoverChain |-> hoverChain, activeChain |-> activeChain]

Commit(S) ==
    /\ attached' = S.attached
    /\ rendered' = S.rendered
    /\ hover' = S.hover
    /\ active' = S.active
    /\ hoverChain' = S.hoverChain
    /\ activeChain' = S.activeChain

(***************************************************************************)
(* Document's handlers.                                                    *)
(***************************************************************************)
SetHoverNode(S, newHoverNode) == [S EXCEPT !.hover = newHoverNode]

SetActiveHoverElement(S, newActiveElement) ==
    IF newActiveElement = Null THEN [S EXCEPT !.active = Null]
    ELSE [S EXCEPT !.active = newActiveElement]

\* The while loop: up from n while there is a node and it has no renderer.
RECURSIVE ClimbToRendered(_, _)
ClimbToRendered(S, n) ==
    IF n = Null \/ n \in S.rendered THEN n ELSE ClimbToRendered(S, ParentNode(n))

HoveredNodeDetached(S, node) ==
    IF S.hover = Null THEN S
    ELSE IF node # S.hover /\ (S.hover \notin TextNodes \/ node # ParentNode(S.hover)) THEN S
    ELSE [S EXCEPT !.hover = ClimbToRendered(S, ParentNode(node))]

\* The while loop: up while there is a node, it is an element and it has
\* no renderer.
RECURSIVE ClimbToRenderedOrNonElement(_, _)
ClimbToRenderedOrNonElement(S, n) ==
    IF n = Null \/ n \notin Elements \/ n \in S.rendered THEN n
    ELSE ClimbToRenderedOrNonElement(S, ParentNode(n))

ActiveChainNodeDetached(S, node) ==
    IF S.active = Null \/ node # S.active THEN S
    ELSE LET activeNode == ClimbToRenderedOrNonElement(S, ParentNode(node))
         IN  [S EXCEPT !.active = IF activeNode # Null /\ activeNode \in Elements THEN activeNode ELSE Null]

(***************************************************************************)
(* The renderer detach of a subtree (Node::detach, outside src): children *)
(* first, then the node itself.                                            *)
(***************************************************************************)
NodeDetach(S, n) ==
    LET S1 == [S EXCEPT !.rendered = @ \ {n}]
        S2 == IF n \in S.hoverChain THEN HoveredNodeDetached(S1, n) ELSE S1
        S3 == IF n \in S.activeChain THEN ActiveChainNodeDetached(S2, n) ELSE S2
    IN  [S3 EXCEPT !.hoverChain = @ \ {n}, !.activeChain = @ \ {n}]

RECURSIVE DetachTree(_, _), DetachChildren(_, _)
DetachTree(S, n) == NodeDetach(DetachChildren(S, Children(n)), n)
DetachChildren(S, cs) ==
    IF cs = {} THEN S
    ELSE LET c == CHOOSE c \in cs : TRUE IN DetachChildren(DetachTree(S, c), cs \ {c})

\* Mutant: detach does not clear the hover and active pointers.
DocumentDetachKeepsHover(S) ==
    DetachTree([S EXCEPT !.attached = FALSE], DocNode)

\* Document::detach: inactive, hover and active cleared, then
\* ContainerNode::detach takes down the children and the RenderView.
DocumentDetach(S) ==
    DetachTree([S EXCEPT !.attached = FALSE, !.hover = Null, !.active = Null], DocNode)

(***************************************************************************)
(* The environment.                                                        *)
(***************************************************************************)
Init ==
    /\ attached = TRUE
    /\ rendered = Nodes
    /\ hover = Null
    /\ active = Null
    /\ hoverChain = {}
    /\ activeChain = {}

\* The hit test hovers a rendered node, or none, and flags its chain.
UpdateHover(n) ==
    /\ attached
    /\ Commit([SetHoverNode(State, n) EXCEPT !.hoverChain = ElementChain(n)])

\* A mouse press makes a rendered element active, or none.
UpdateActive(e) ==
    /\ attached
    /\ Commit([SetActiveHoverElement(State, e) EXCEPT !.activeChain = ElementChain(e)])

\* A style change or a removal takes down the renderers of a subtree.
DetachSubtree(r) ==
    /\ attached
    /\ r \in rendered
    /\ Commit(DetachTree(State, r))

\* A reattach gives a subtree whose parent is rendered its renderers back.
AttachSubtree(r) ==
    /\ attached
    /\ r \notin rendered
    /\ Parent[r] \in rendered
    /\ rendered' = rendered \cup Subtree(r)
    /\ UNCHANGED <<attached, hover, active, hoverChain, activeChain>>

DetachDocument ==
    /\ attached
    /\ Commit(DocumentDetach(State))

Next ==
    \/ \E n \in (rendered \ {DocNode}) \cup {Null} : UpdateHover(n)
    \/ \E e \in (rendered \cap Elements) \cup {Null} : UpdateActive(e)
    \/ \E r \in Elements : DetachSubtree(r) \/ AttachSubtree(r)
    \/ DetachDocument

Spec == Init /\ [][Next]_vars

(***************************************************************************)
(* Properties                                                              *)
(***************************************************************************)
\* The nearest node of n's chain, n included, that keeps its renderer after
\* the step, and the nearest such element.
NearestKept(n) ==
    LET keep == AncestorsOrSelf(n) \cap rendered'
    IN  IF keep = {} THEN Null ELSE CHOOSE k \in keep : keep \subseteq AncestorsOrSelf(k)
NearestKeptElement(n) ==
    LET k == NearestKept(n) IN IF k # Null /\ k \in Elements THEN k ELSE Null

\* Whenever renderers are destroyed (a subtree detach or the document's
\* detach), hoveredNodeDetached and activeChainNodeDetached move
\* the hovered node to its nearest ancestor, itself included, that still
\* has a renderer, and the active element to its nearest such element, or
\* to none: the document never points at a node without a renderer, and a
\* detached document retains none of its nodes.
HoverActiveFollowNearestRenderedAncestor ==
    [][rendered' \subseteq rendered /\ rendered' # rendered =>
          /\ hover' = IF hover = Null THEN Null ELSE NearestKept(hover)
          /\ active' = IF active = Null THEN Null ELSE NearestKeptElement(active)]_vars
=============================================================================
