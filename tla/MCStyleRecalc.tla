---------------------------- MODULE MCStyleRecalc ----------------------------
(***************************************************************************)
(* Model-checking instances of StyleRecalc.  The cfg files pick a tree and *)
(* a stylesheet from the definitions below.                                *)
(***************************************************************************)
EXTENDS StyleRecalc

CONSTANTS e1, e2, e3,   \* element model values
          i1, i2,       \* id values
          v1, v2        \* values of other attributes

(* Tree run: <html e1> with two children <e2> and <e3>, siblings that can *)
(* share a style.                                                          *)
TreeElements == {e1, e2, e3}
TreeParent == (e1 :> Doc) @@ (e2 :> e1) @@ (e3 :> e1)
TreeOrder == <<e1, e2, e3>>
TreeAttrNames == {"id", "class", "style"}
(* Inline style is exercised by the pipeline run; here it stays absent.    *)
TreeAttrDomain == ("id" :> {i1}) @@ ("class" :> {<<"y">>}) @@ ("style" :> {})
TreeIds == {i1}

(* Stylesheets: #i1 {display: none} and .y setting a property that is not *)
(* inherited (margin) or one that is (color).                              *)
SheetLocal == (i1 :> "display") @@ ("y" :> "local")
SheetInherited == (i1 :> "display") @@ ("y" :> "inherited")

(* Pipeline run: one element under the Document and a richer set of      *)
(* attribute values: two ids, class lists with a repeat and a token no     *)
(* selector names, style texts with a repeat and an invalid declaration,   *)
(* one attribute an [a] selector names and one no selector names.  [a]    *)
(* sets display:none, so the element can lose its renderer and script's   *)
(* getComputedStyle fills the computed-style cache.                        *)
PipeElements == {e1}
PipeParent == (e1 :> Doc)
PipeOrder == <<e1>>
PipeAttrNames == {"id", "class", "style", "a", "b"}
PipeAttrDomain ==
  ("id" :> {i1, i2}) @@
  ("class" :> {<<"y">>, <<"x", "y">>, <<"y", "y">>, <<"x">>}) @@
  ("style" :> {<<"p", "p">>, <<"bad">>}) @@
  ("a" :> {v1, v2}) @@
  ("b" :> {v1})
PipeIds == {i1, i2}
PipeSheet == (i1 :> "local") @@ ("y" :> "local") @@ ("a" :> "display") @@ ("p" :> "local")
==============================================================================
