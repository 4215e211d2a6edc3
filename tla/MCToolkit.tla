------------------------------ MODULE MCToolkit ------------------------------
(***************************************************************************)
(* Toolkit for two tills, of which one is also a dev bench, a customer's   *)
(* device, and two recovery key files.  One has its public half pasted in, *)
(* also where the public key of a new till was meant; the other is another *)
(* component's, and may be brought to a rotation all the same.             *)
(***************************************************************************)
EXTENDS Toolkit

CONSTANTS t1, t2, d1, s1, s2

MCTills == {t1, t2}
MCDevices == {d1}
MCDevBenches == {t1}
MCSafes == {s1, s2}
MCPasted == {Recovery(s1)}
=============================================================================
