CONSTANTS
  Doc = Doc
  Null = Null
  NoStyle = NoStyle
  e1 = e1
  e2 = e2
  e3 = e3
  i1 = i1
  i2 = i2
  v1 = v1
  v2 = v2
  Elements <- TreeElements
  Parent <- TreeParent
  DocumentOrder <- TreeOrder
  AttrNames <- TreeAttrNames
  IdAttr = "id"
  ClassAttr = "class"
  StyleAttr = "style"
  AttrDomain <- TreeAttrDomain
  Ids <- TreeIds
  SelectorIds = {i1}
  SelectorClasses = {"y"}
  SelectorAttrs = {}
  InlineProps = {}
  Kind <- SheetLocal
  Langs = {"l1", "l2"}
  StyleReads = {e2}
SPECIFICATION Spec
INVARIANTS
  ComputedStyleFresh
