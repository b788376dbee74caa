---------------------------- MODULE MCUtilities -----------------------------
(* Instances of Utilities for TLC. *)
EXTENDS Utilities

\* Bytes whose halves, quarters and ends differ.
SomeBytes == {0, 27, 170, 255}
=============================================================================
