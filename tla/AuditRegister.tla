---------------------------- MODULE AuditRegister ----------------------------
(***************************************************************************)
(* What the three stored objects of a file amount to for an auditor: a     *)
(* register that holds the upload which can be verified, or none.          *)
(* Uploading a name again first destroys what can be verified under it;    *)
(* only the newest upload can take its place, and what was lost does not   *)
(* come back.                                                              *)
(***************************************************************************)
EXTENDS Naturals

VARIABLES
    newest,         \* number of uploads begun; the newest has this number
    auditable       \* the upload that can be verified, 0 for none

registerVars == <<newest, auditable>>

Init == newest = 0 /\ auditable = 0

Begin == newest' = newest + 1 /\ UNCHANGED auditable

Destroy == auditable # newest /\ auditable' = 0 /\ UNCHANGED newest

Complete == auditable = 0 /\ newest > 0 /\ auditable' = newest /\ UNCHANGED newest

Next == Begin \/ Destroy \/ Complete

Spec == Init /\ [][Next]_registerVars

=============================================================================
