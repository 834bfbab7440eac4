---------------------------- MODULE MCReadiness -----------------------------
(***************************************************************************)
(* Readiness for TLC: a pod of any description, and an attachment pod,     *)
(* whose name the other one may have as well.                              *)
(***************************************************************************)
EXTENDS Readiness, TLC

CONSTANTS AnyPod, Attachment

AnyKind == {k \in Kind : k.owner = "VMI" => k.marks}

AttachmentKind ==
  [name |-> "attachment", owner |-> "other", label |-> FALSE, marks |-> FALSE,
   mirror |-> FALSE, emptyDir |-> TRUE]

KindsOf == (AnyPod :> AnyKind) @@ (Attachment :> {AttachmentKind})
=============================================================================
