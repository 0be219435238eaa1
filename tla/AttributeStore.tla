--------------------------- MODULE AttributeStore ---------------------------
(***************************************************************************)
(* What Element promises about its attributes, with the storage left      *)
(* out: every element has its own attribute map, an element is created    *)
(* with the attributes the parser gives it or a copy of another element's *)
(* attributes, and a later write to one element changes that element's   *)
(* map and no other.  ElementData refines this module: its shared,        *)
(* copy-on-write ElementData objects must look like private maps.         *)
(***************************************************************************)
CONSTANTS
    Elements,   \* the elements the document may create
    Names,      \* attribute names
    Values,     \* attribute values (the empty string included)
    Null        \* nullAtom: the value of an absent attribute

NoAttrs == [n \in Names |-> Null]

VARIABLES
    created,    \* elements created so far
    inDoc,      \* elements that are in the document
    attrs       \* attrs[e][n]: the value element e has for attribute n

vars == <<created, inDoc, attrs>>

Init ==
    /\ created = {}
    /\ inDoc = {}
    /\ attrs = [e \in Elements |-> NoAttrs]

\* An element comes into being with a given set of attributes: the
\* parser's, or those of the element it is cloned from.
Create(e, vec) ==
    /\ e \notin created
    /\ created' = created \cup {e}
    /\ attrs' = [attrs EXCEPT ![e] = vec]
    /\ UNCHANGED inDoc

\* One attribute of one element gets a value, or is removed (Null).
Write(e, n, v) ==
    /\ e \in created
    /\ attrs' = [attrs EXCEPT ![e][n] = v]
    /\ UNCHANGED <<created, inDoc>>

Insert(e) ==
    /\ e \in created \ inDoc
    /\ inDoc' = inDoc \cup {e}
    /\ UNCHANGED <<created, attrs>>

Remove(e) ==
    /\ e \in inDoc
    /\ inDoc' = inDoc \ {e}
    /\ UNCHANGED <<created, attrs>>

Next ==
    \/ \E e \in Elements, vec \in [Names -> Values \cup {Null}] : Create(e, vec)
    \/ \E e \in Elements, n \in Names, v \in Values \cup {Null} : Write(e, n, v)
    \/ \E e \in Elements : Insert(e) \/ Remove(e)

Spec == Init /\ [][Next]_vars
=============================================================================
