-------------------------- MODULE MCResourceGraph --------------------------
(***************************************************************************)
(* A web with a cycle back to the primary document, a document linked to   *)
(* itself, one served under two URIs, one that fails, one that is lost and *)
(* a resolver that changes its mind.                                       *)
(***************************************************************************)
EXTENDS ResourceGraph, TLC

CONSTANTS a, b, c, d, e, home, u, v, w, x

PinA == <<a, 1>>
PinB == <<b, 1>>
OtherB == <<b, 2>>
PinC == <<c, 1>>
PinD == <<d, 1>>
PinE == <<e, 1>>

MCRoot == <<PinA, home>>

MCLinks ==
  (PinA :> <<u, v>>) @@ (PinB :> <<w, Self>>) @@ (OtherB :> <<Unusable>>) @@ (PinC :> <<u, home, x>>)
    @@ (PinD :> <<v>>) @@ (PinE :> <<>>)

\* A URI that serves these documents, itself or by a redirection, or none.
Serving(docs, bases, none) == docs \X bases \cup none

MCServe ==
  (u :> Serving({PinB, OtherB}, {u}, {})) @@ (v :> Serving({PinB, PinC}, {v}, {Absent, Error}))
    @@ (w :> Serving({PinC, PinD, PinB}, {w, v}, {Unknown})) @@ (home :> Serving({PinA}, {home, u}, {}))
    @@ (x :> Serving({PinE, PinC, PinB, PinA}, {x, v}, {Unknown}))

MCAssessment ==
  (PinA :> "ok") @@ (PinB :> "ok") @@ (OtherB :> "partial") @@ (PinC :> "ok") @@ (PinD :> "failing")
    @@ (PinE :> "lost")
=============================================================================
