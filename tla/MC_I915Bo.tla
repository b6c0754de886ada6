------------------------------- MODULE MC_I915Bo -------------------------------
EXTENDS I915Bo

(* One page, and the 160-byte total of a 1x3 YVU420_ANDROID buffer, which *)
(* ends inside its third cache line.                                       *)
MCSizes == {160, 4096}
=============================================================================
