-------------------------------- MODULE MCFd --------------------------------
(* Instances of Fd for TLC.                                                *)
EXTENDS Fd

CONSTANTS s1, s2, noSlot

NoStatus == {{}}
WriteOnly == {{"O_WRONLY"}}
Appending == {{"O_APPEND"}}
=============================================================================
