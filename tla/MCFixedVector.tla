--------------------------- MODULE MCFixedVector ---------------------------
(* Instances of FixedVector for TLC.                                        *)
EXTENDS FixedVector

(* Three parameters, as in                                                  *)
(* ContiguousVector<int, FixedSize<std::string>, std::unique_ptr<int>>.     *)
MCParam == 1 .. 3
AllTrivial == {}
LastTwoNonTrivial == {2, 3}
=============================================================================
