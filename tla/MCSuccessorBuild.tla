--------------------------- MODULE MCSuccessorBuild ---------------------------
(* Two invocations at a time, two inputs that differ in every artifact,    *)
(* and three vectors added two at a time.                                  *)
EXTENDS SuccessorBuild

MCBuilder == {"b1", "b2"}
MCInput == {"i1", "i2"}
MCUid == {"u1", "u2", "u3"}
=============================================================================
