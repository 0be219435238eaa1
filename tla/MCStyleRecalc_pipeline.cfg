CONSTANTS
  Doc = Doc
  Null = Null
  NoStyle = NoStyle
  e1 = e1
  e2 = e2
  e3 = e3
  i1 = i1
  i2 = i2
  v1 = v1
  v2 = v2
  Elements <- PipeElements
  Parent <- PipeParent
  DocumentOrder <- PipeOrder
  AttrNames <- PipeAttrNames
  IdAttr = "id"
  ClassAttr = "class"
  StyleAttr = "style"
  AttrDomain <- PipeAttrDomain
  Ids <- PipeIds
  SelectorIds = {i1}
  SelectorClasses = {"y"}
  SelectorAttrs = {"a"}
  InlineProps = {"p"}
  Kind <- PipeSheet
  Langs = {"l1"}
  StyleReads = {e1}
SPECIFICATION Spec
INVARIANTS
  TypeOK
  IdMapConsistent
  StyleAttributeReflectsInlineStyle
  ClassChangeMatchesReference
  CleanLineageStyleFresh
PROPERTIES
  NoOverInvalidation
