---------------------------- MODULE MCHoverActive ----------------------------
(* Document -> e1 -> {e2 -> {e4, t1}, e3 -> t2}: hovered text nodes whose *)
(* element is detached, chains of three elements, and siblings whose      *)
(* detach must leave the other's hover alone.                              *)
EXTENDS HoverActive

CONSTANTS doc, e1, e2, e3, e4, t1, t2

MCElements == {e1, e2, e3, e4}
MCTextNodes == {t1, t2}
MCParent == [n \in MCElements \cup MCTextNodes |->
                CASE n = e1 -> doc [] n = e2 -> e1 [] n = e3 -> e1 [] n = e4 -> e2
                  [] n = t1 -> e2 [] n = t2 -> e3]
=============================================================================
