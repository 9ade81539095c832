------------------------------- MODULE MCPmm --------------------------------
(* Instances of Pmm for TLC.                                               *)
EXTENDS Pmm

(* Two conventional entries that overlap, one reserved between them, and   *)
(* one that reaches past the bitmap; the kernel is partly inside the first *)
(* and frame 0 is conventional.                                            *)
SmallMap ==
    << [conventional |-> TRUE,  start |-> 0, pages |-> 4],
       [conventional |-> FALSE, start |-> 4, pages |-> 1],
       [conventional |-> TRUE,  start |-> 3, pages |-> 1],
       [conventional |-> TRUE,  start |-> 5, pages |-> 9] >>
=============================================================================
