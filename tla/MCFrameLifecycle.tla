-------------------------- MODULE MCFrameLifecycle --------------------------
(* Two documents loaded one after the other into the main frame, a canvas *)
(* observer for each, two window properties and two scale factors.        *)
EXTENDS FrameLifecycle, TLC

CONSTANTS d1, d2, o1, o2, p1, p2

MCDocs == {d1, d2}
MCObservers == {o1, o2}
MCOwner == (o1 :> d1) @@ (o2 :> d2)
MCProps == {p1, p2}
=============================================================================
