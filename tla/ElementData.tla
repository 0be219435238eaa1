---------------------------- MODULE ElementData ----------------------------
(***************************************************************************)
(* How Element stores its attributes (Element.cpp, Element.h): an element *)
(* points at an ElementData object that is either unique to it or         *)
(* shareable.  The parser hands out shareable objects from the            *)
(* document's ElementDataCache, cloning shares the original's object, and *)
(* every write first makes the element's object unique                    *)
(* (ensureUniqueElementData).  Alongside, the document's id map is kept   *)
(* by updateId, insertedInto and removedFrom.                             *)
(*                                                                         *)
(* Handlers are operators from a record S of the variables to a new       *)
(* record; an action commits the result.  An ElementData object is an     *)
(* identifier of DataIds; objects that nothing references any more are    *)
(* released at the end of each step (RefPtr).  Only the attribute         *)
(* contents, the unique flag and the derived idForStyleResolution are     *)
(* kept; style and class effects belong to ElementAttributes.             *)
(***************************************************************************)
EXTENDS Naturals, FiniteSets

CONSTANTS
    Elements,   \* the elements the document may create
    Names,      \* attribute names, "id" among them
    Values,     \* attribute values, the empty string among them
    Null,       \* nullAtom
    DataIds,    \* the ElementData objects that may be alive at once
    NoData      \* a null m_elementData

IdAttr == "id"
ASSUME IdAttr \in Names /\ "" \in Values /\ Null \notin Values
ASSUME NoData \notin DataIds

NoAttrs == [n \in Names |-> Null]
IdValues == Values \ {""}
Blank == [attrs |-> NoAttrs, unique |-> FALSE, idForStyle |-> Null]
AssertFailed == "assert"

VARIABLES
    created,    \* elements created so far
    inDoc,      \* elements with InDocumentFlag set
    dataOf,     \* dataOf[e]: e's m_elementData
    store,      \* store[d]: the ElementData object d
    cache,      \* objects held by the document's ElementDataCache
    hasCache,   \* m_elementDataCache is non-null
    parsing,    \* Document::m_isParsing
    reg,        \* reg[i][e]: times e is registered under id i in the id map
    faults      \* failed assertions

vars == <<created, inDoc, dataOf, store, cache, hasCache, parsing, reg, faults>>

State == [created |-> created, inDoc |-> inDoc, dataOf |-> dataOf,
          store |-> store, cache |-> cache, hasCache |-> hasCache,
          parsing |-> parsing, reg |-> reg, faults |-> faults]

Referenced(S, d) == d \in S.cache \/ \E e \in Elements : S.dataOf[e] = d
FreeIds(S) == {d \in DataIds : ~Referenced(S, d)}
NewId(S) == CHOOSE d \in FreeIds(S) : TRUE

Commit(S) ==
    /\ created' = S.created
    /\ inDoc' = S.inDoc
    /\ dataOf' = S.dataOf
    /\ store' = [d \in DataIds |-> IF Referenced(S, d) THEN S.store[d] ELSE Blank]
    /\ cache' = S.cache
    /\ hasCache' = S.hasCache
    /\ parsing' = S.parsing
    /\ reg' = S.reg
    /\ faults' = S.faults

Fault(S) == [S EXCEPT !.faults = @ \cup {AssertFailed}]

TypeOK ==
    /\ created \subseteq Elements /\ inDoc \subseteq created
    /\ dataOf \in [Elements -> DataIds \cup {NoData}]
    /\ store \in [DataIds -> [attrs : [Names -> Values \cup {Null}],
                              unique : BOOLEAN, idForStyle : Values \cup {Null}]]
    /\ cache \subseteq DataIds /\ hasCache \in BOOLEAN /\ parsing \in BOOLEAN
    /\ reg \in [IdValues -> [Elements -> Nat]]
    /\ faults \subseteq {AssertFailed}

Init ==
    /\ created = {} /\ inDoc = {}
    /\ dataOf = [e \in Elements |-> NoData]
    /\ store = [d \in DataIds |-> Blank]
    /\ cache = {} /\ hasCache = FALSE /\ parsing = FALSE
    /\ reg = [i \in IdValues |-> [e \in Elements |-> 0]]
    /\ faults = {}

ElementAttrs(S, e) ==
    IF S.dataOf[e] = NoData THEN NoAttrs ELSE S.store[S.dataOf[e]].attrs
\* hasID (ElementData::hasID: idForStyleResolution is not null)
HasID(S, e) == S.dataOf[e] # NoData /\ S.store[S.dataOf[e]].idForStyle # Null
GetIdAttribute(S, e) == IF HasID(S, e) THEN ElementAttrs(S, e)[IdAttr] ELSE Null
IsEmpty(v) == v \in {Null, ""}

\* TreeScope::addElementById / removeElementById (DocumentOrderedMap): a
\* count per id and element; removing an absent entry fails an ASSERT.
AddElementById(S, id, e) == [S EXCEPT !.reg[id][e] = @ + 1]
RemoveElementById(S, id, e) ==
    IF S.reg[id][e] = 0 THEN Fault(S) ELSE [S EXCEPT !.reg[id][e] = @ - 1]

\* updateId(TreeScope&, oldId, newId)
UpdateIdIn(S, e, oldId, newId) ==
    LET S0 == IF e \notin S.inDoc \/ oldId = newId THEN Fault(S) ELSE S
        S1 == IF IsEmpty(oldId) THEN S0 ELSE RemoveElementById(S0, oldId, e)
    IN  IF IsEmpty(newId) THEN S1 ELSE AddElementById(S1, newId, e)

\* updateId(oldId, newId): only for an element in the document.
UpdateId(S, e, oldId, newId) ==
    IF e \notin S.inDoc \/ oldId = newId THEN S ELSE UpdateIdIn(S, e, oldId, newId)

\* createUniqueElementData: a fresh unique object, or a unique copy of
\* the shareable one.
CreateUniqueElementData(S, e) ==
    LET d == NewId(S)
        old == IF S.dataOf[e] = NoData THEN Blank ELSE S.store[S.dataOf[e]]
    IN  [S EXCEPT !.dataOf[e] = d, !.store[d] = [old EXCEPT !.unique = TRUE]]

EnsureUniqueElementData(S, e) ==
    IF S.dataOf[e] # NoData /\ S.store[S.dataOf[e]].unique THEN S
    ELSE CreateUniqueElementData(S, e)

WillModifyAttribute(S, e, n, oldValue, newValue) ==
    IF n = IdAttr THEN UpdateId(S, e, oldValue, newValue) ELSE S

\* Mutant: removing the id leaves the old id for style resolution.
AttributeChangedKeepsIdOnRemove(S, e, n, v) ==
    IF n = IdAttr /\ v # Null /\ v # S.store[S.dataOf[e]].idForStyle
    THEN [S EXCEPT !.store[S.dataOf[e]].idForStyle = v]
    ELSE S

\* attributeChanged: an id change is recorded in the element's data.
AttributeChanged(S, e, n, v) ==
    IF n = IdAttr /\ v # S.store[S.dataOf[e]].idForStyle
    THEN [S EXCEPT !.store[S.dataOf[e]].idForStyle = v]
    ELSE S

\* attributeChangedFromParserOrByCloning, for each attribute of vec.
AttributesChangedFromParserOrByCloning(S, e, vec) ==
    IF vec[IdAttr] = Null THEN S ELSE AttributeChanged(S, e, IdAttr, vec[IdAttr])

StoreValue(S, e, n, v) == [S EXCEPT !.store[S.dataOf[e]].attrs[n] = v]

RemoveAttributeInternal(S, e, n) ==
    LET S1 == EnsureUniqueElementData(S, e)
        old == ElementAttrs(S1, e)[n]
        S2 == IF old # Null THEN WillModifyAttribute(S1, e, n, old, Null) ELSE S1
    IN  AttributeChanged(StoreValue(S2, e, n, Null), e, n, Null)

AppendAttributeInternal(S, e, n, v) ==
    LET S1 == EnsureUniqueElementData(WillModifyAttribute(S, e, n, Null, v), e)
    IN  AttributeChanged(StoreValue(S1, e, n, v), e, n, v)

\* Mutant: the value is written into whatever object the element holds.
SetAttributeInternalInPlace(S, e, n, v) ==
    LET old == ElementAttrs(S, e)[n]
    IN  CASE v = Null -> IF old # Null THEN RemoveAttributeInternal(S, e, n) ELSE S
          [] old = Null -> AppendAttributeInternal(S, e, n, v)
          [] v = old -> S
          [] OTHER -> AttributeChanged(StoreValue(WillModifyAttribute(S, e, n, old, v), e, n, v), e, n, v)

SetAttributeInternal(S, e, n, v) ==
    LET old == ElementAttrs(S, e)[n]
    IN  CASE v = Null -> IF old # Null THEN RemoveAttributeInternal(S, e, n) ELSE S
          [] old = Null -> AppendAttributeInternal(S, e, n, v)
          [] v = old -> S
          [] OTHER ->
               LET S1 == EnsureUniqueElementData(WillModifyAttribute(S, e, n, old, v), e)
               IN  AttributeChanged(StoreValue(S1, e, n, v), e, n, v)

SetAttribute(S, e, n, v) == SetAttributeInternal(S, e, n, v)

RemoveAttribute(S, e, n) ==
    IF ElementAttrs(S, e)[n] = Null THEN S ELSE RemoveAttributeInternal(S, e, n)

SetBooleanAttribute(S, e, n, b) ==
    IF b THEN SetAttribute(S, e, n, "") ELSE RemoveAttribute(S, e, n)

\* ElementDataCache::cachedShareableElementDataWithAttributes: the cached
\* object with these attributes, or a new one that the cache then keeps.
CachedShareableElementData(S, e, vec) ==
    LET hits == {d \in S.cache : S.store[d].attrs = vec}
        d == NewId(S)
    IN  IF hits # {} THEN [S EXCEPT !.dataOf[e] = CHOOSE h \in hits : TRUE]
        ELSE [S EXCEPT !.dataOf[e] = d, !.cache = @ \cup {d},
                       !.store[d] = [Blank EXCEPT !.attrs = vec]]

CreateShareableElementData(S, e, vec) ==
    LET d == NewId(S)
    IN  [S EXCEPT !.dataOf[e] = d, !.store[d] = [Blank EXCEPT !.attrs = vec]]

\* Mutant: the attributeChanged loop is left out.
ParserSetAttributesSilently(S, e, vec) ==
    IF vec = NoAttrs THEN S
    ELSE IF S.hasCache THEN CachedShareableElementData(S, e, vec)
         ELSE CreateShareableElementData(S, e, vec)

\* parserSetAttributes, on an element the parser has just created.
ParserSetAttributes(S, e, vec) ==
    IF vec = NoAttrs THEN S
    ELSE LET S1 == IF S.hasCache THEN CachedShareableElementData(S, e, vec)
                   ELSE CreateShareableElementData(S, e, vec)
         IN  AttributesChangedFromParserOrByCloning(S1, e, vec)

\* ShareableElementData made from a unique one (makeShareableCopy).
MakeShareableCopy(S, o) ==
    LET d == NewId(S)
    IN  [S EXCEPT !.dataOf[o] = d, !.store[d] = [S.store[S.dataOf[o]] EXCEPT !.unique = FALSE]]

\* Mutant: the original's unique object is shared as it is.
CloneSharingUniqueData(S, e, other) ==
    IF S.dataOf[other] = NoData THEN [S EXCEPT !.dataOf[e] = NoData]
    ELSE LET S1 == UpdateId(S, e, GetIdAttribute(S, e), GetIdAttribute(S, other))
             S2 == [S1 EXCEPT !.dataOf[e] = S1.dataOf[other]]
         IN  AttributesChangedFromParserOrByCloning(S2, e, ElementAttrs(S2, e))

\* cloneAttributesFromElement (cloneDataFromElement), on a new element.
CloneAttributesFromElement(S, e, other) ==
    IF S.dataOf[other] = NoData THEN [S EXCEPT !.dataOf[e] = NoData]
    ELSE LET S1 == UpdateId(S, e, GetIdAttribute(S, e), GetIdAttribute(S, other))
             S2 == IF S1.store[S1.dataOf[other]].unique THEN MakeShareableCopy(S1, other) ELSE S1
             od == S2.dataOf[other]
             S3 == IF ~S2.store[od].unique THEN [S2 EXCEPT !.dataOf[e] = od]
                   ELSE LET d == NewId(S2)
                        IN  [S2 EXCEPT !.dataOf[e] = d, !.store[d] = S2.store[od]]
         IN  AttributesChangedFromParserOrByCloning(S3, e, ElementAttrs(S3, e))

\* Document::importNode of an element: createElement(tagQName) makes a new
\* element without data, then cloneDataFromElement; the children of a deep
\* import are outside this model.
ImportElement(S, e, other) ==
    CloneAttributesFromElement([S EXCEPT !.created = @ \cup {e}], e, other)

\* Mutant: the id is looked up before Node::insertedInto sets InDocumentFlag.
InsertedIntoBeforeNode(S, e) ==
    LET id == GetIdAttribute(S, e)
        S1 == IF id # Null THEN UpdateId(S, e, Null, id) ELSE S
    IN  [S1 EXCEPT !.inDoc = @ \cup {e}]

\* Node::insertedInto, then Element::insertedInto, into the document.
InsertedInto(S, e) ==
    LET S1 == [S EXCEPT !.inDoc = @ \cup {e}]
        id == GetIdAttribute(S1, e)
    IN  IF id # Null THEN UpdateIdIn(S1, e, Null, id) ELSE S1

\* Element::removedFrom, then Node::removedFrom, out of the document.
RemovedFrom(S, e) ==
    LET id == GetIdAttribute(S, e)
        S1 == IF id # Null THEN UpdateIdIn(S, e, id, Null) ELSE S
    IN  [S1 EXCEPT !.inDoc = @ \ {e}]

SetParsing(S, b) ==
    [S EXCEPT !.parsing = b, !.hasCache = @ \/ b]

-----------------------------------------------------------------------------
(* Actions.  Every step that may create an object needs a free one: the    *)
(* size of DataIds bounds how many objects are alive at once.              *)

CanAllocate == FreeIds(State) # {}

ParserCreateElement(e, vec) ==
    /\ e \notin created /\ CanAllocate
    /\ Commit(ParserSetAttributes([State EXCEPT !.created = @ \cup {e}], e, vec))

\* importNode, or Node::cloneNode, gives a new element other's data.
CloneElement(e, other) ==
    /\ e \notin created /\ other \in created /\ CanAllocate
    /\ Commit(ImportElement(State, e, other))

SetAttributeAction(e, n, v) ==
    /\ e \in created /\ CanAllocate
    /\ Commit(SetAttribute(State, e, n, v))

RemoveAttributeAction(e, n) ==
    /\ e \in created /\ CanAllocate
    /\ Commit(RemoveAttribute(State, e, n))

SetBooleanAttributeAction(e, n, b) ==
    /\ e \in created /\ CanAllocate
    /\ Commit(SetBooleanAttribute(State, e, n, b))

InsertElement(e) ==
    /\ e \in created \ inDoc
    /\ Commit(InsertedInto(State, e))

RemoveElement(e) ==
    /\ e \in inDoc
    /\ Commit(RemovedFrom(State, e))

ParsingChange(b) ==
    /\ parsing # b
    /\ Commit(SetParsing(State, b))

Next ==
    \/ \E e \in Elements, vec \in [Names -> Values \cup {Null}] : ParserCreateElement(e, vec)
    \/ \E e, other \in Elements : CloneElement(e, other)
    \/ \E e \in Elements, n \in Names, v \in Values \cup {Null} : SetAttributeAction(e, n, v)
    \/ \E e \in Elements, n \in Names : RemoveAttributeAction(e, n)
    \/ \E e \in Elements, n \in Names, b \in BOOLEAN : SetBooleanAttributeAction(e, n, b)
    \/ \E e \in Elements : InsertElement(e) \/ RemoveElement(e)
    \/ \E b \in BOOLEAN : ParsingChange(b)

Spec == Init /\ [][Next]_vars

-----------------------------------------------------------------------------
(* Properties.                                                             *)

\* No ASSERT of updateId or of the id map fails: an element is never
\* registered twice, nor unregistered when it is not registered.
NoAssertionFailure == faults = {}

\* getElementById's map holds exactly the elements in the document with a
\* non-empty id, once each: insertedInto, removedFrom and every id write
\* (willModifyAttribute) keep it up to date, for parsed and cloned elements.
IdMapConsistent ==
    \A i \in IdValues, e \in Elements :
        reg[i][e] = IF e \in inDoc /\ GetIdAttribute(State, e) = i THEN 1 ELSE 0

\* A unique ElementData object belongs to one element and is never in the
\* ElementDataCache: cloning must turn the original's unique object into a
\* shareable one before both elements point at it.
UniqueDataNotShared ==
    \A d \in DataIds :
        store[d].unique =>
            /\ d \notin cache
            /\ Cardinality({e \in Elements : dataOf[e] = d}) <= 1

\* The id the style resolver sees (idForStyleResolution) is the stored id
\* attribute, also for data handed out by the parser's cache or shared by
\* cloning.  hasID and getIdAttribute read idForStyleResolution, so an id
\* stored without it is invisible to them and to the id map.
IdForStyleMatchesAttribute ==
    \A e \in Elements :
        dataOf[e] # NoData => store[dataOf[e]].idForStyle = ElementAttrs(State, e)[IdAttr]

\* Copy-on-write storage implements private attribute maps: each step
\* changes the attributes of at most the element it is applied to, so an
\* element sharing a cached or cloned object never sees another's writes.
AbstractStore == INSTANCE AttributeStore
    WITH attrs <- [e \in Elements |-> ElementAttrs(State, e)]

ImplementsAttributeStore == AbstractStore!Spec
=============================================================================
