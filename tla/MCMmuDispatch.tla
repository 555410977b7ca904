--------------------------- MODULE MCMmuDispatch ----------------------------
(* Instances of MmuDispatch: two pages, and frames that no two logical     *)
(* locations share.                                                        *)
EXTENDS MmuDispatch, TLC

CONSTANTS p, q, f, g, k

MCPages == {p, q}
MCFrames == {f, g, k}
MCMay ==
  [x \in Logical |->
     CASE x = <<"super", p>> -> {f}
       [] x = <<"super", q>> -> {g, Fault}
       [] x = <<"user", p>> -> {k}
       [] OTHER -> {Fault}]
MCLineOf == [h \in MCFrames |-> 1]
MCSymmetry == Permutations(Ids)
=============================================================================
