----------------------------- MODULE MCAdmission -----------------------------
(***************************************************************************)
(* One message an application prepares itself, or two messages of the      *)
(* bridge with one text and one to a recipient it cannot recall; three     *)
(* peers announce costs the router may, may not or must not meet, into a   *)
(* table with room for two of them.                                        *)
(***************************************************************************)
EXTENDS Admission

CONSTANTS a,        \* a message of the application
          b, c,     \* two messages of the bridge with one text
          u,        \* a message of the bridge without a source
          x, y, z   \* peers

AdmissionMsg == {a, b, c, u}
AdmissionText == [m \in AdmissionMsg |-> IF m = c THEN b ELSE m]
AdmissionPeer == {x, y, z}
AdmissionTo == [m \in AdmissionMsg |-> IF m = a THEN x ELSE y]
AdmissionGuarded == {b, c, u}
AdmissionSourceless == {u}
AdmissionPropagated == {u}
AdmissionCosts == {-1, 1, 2, 3}
=============================================================================
