---------------------------- MODULE MCNativeStream ----------------------------
(* Two upstream blocks that may overlap. *)
EXTENDS NativeStream

Two == {0, 1}
=============================================================================
