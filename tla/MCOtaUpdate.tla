----------------------------- MODULE MCOtaUpdate -----------------------------
(* Three releases over a baseline: a newer one, a bad one with the same        *)
(* security version, and one below it; a build nobody signed; and each fault a *)
(* manifest can have.                                                          *)
EXTENDS OtaUpdate

Build(v, s) == [ver |-> v, sec |-> s]
MCReleased == {Build(1, 1), Build(2, 2), Build(3, 2), Build(4, 1)}
MCImages == MCReleased \cup {Build(6, 3)}
MCBaseline == Build(1, 1)
MCBad == {Build(3, 2)}

Release(i) == [ver |-> i.ver, sec |-> i.sec, hw |-> "this", schema |-> "this",
               complete |-> TRUE, authentic |-> TRUE, fresh |-> TRUE, img |-> i]

\* Each build's release, and the ways it can be spoilt.
MCManifests ==
    {Release(i) : i \in MCReleased}
    \cup {[Release(i) EXCEPT !.hw = h] : i \in MCReleased, h \in {"other", "none"}}
    \cup {[Release(i) EXCEPT !.schema = s] : i \in MCReleased, s \in {"other", "none"}}
    \cup {[Release(i) EXCEPT !.complete = FALSE] : i \in MCReleased}
    \cup {[Release(i) EXCEPT !.fresh = FALSE] : i \in MCReleased}
    \cup {[Release(i) EXCEPT !.authentic = FALSE, !.ver = 5, !.sec = 3] : i \in MCImages}
==============================================================================
