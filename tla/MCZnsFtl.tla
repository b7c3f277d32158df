------------------------------ MODULE MCZnsFtl ------------------------------
(***************************************************************************)
(* TLC instance of ZnsFtl.  A reset refills a zone's ZRWA buffer while     *)
(* internal operations that will release space into it are under way, and  *)
(* several writes into the last page of a wordline release it each, so     *)
(* that the sizes of the two buffers have no bound of their own.  Zone 0   *)
(* is followed in full up to MaxZb and MaxWb; of the other zones one page  *)
(* is written, without loss, and their ZRWA does not take space.           *)
(***************************************************************************)
EXTENDS ZnsFtl

CONSTANTS
  MaxZb,   \* bound on the space of zone 0's ZRWA buffer, free or to be released
  MaxWb    \* the same of its write buffer, with what is lost of it

ASSUME BufferBoundsAssumption == MaxZb \in Nat /\ MaxWb \in Nat

WithinBounds(z) ==
  IF z = 0
  THEN zb[z] + zbOut[z] <= MaxZb /\ wb[z] + wbOut[z] + spilt[z] <= MaxWb
  ELSE /\ zb[z] = ZrwaBuf /\ zbOut[z] = 0
       /\ wb[z] + wbOut[z] <= WbSize /\ spilt[z] = 0
       /\ wp[z] \in {0, SecsPerPg}

MCNext == Next /\ \A z \in Zones : WithinBounds(z)'

MCSpec == Init /\ [][MCNext]_vars

=============================================================================
