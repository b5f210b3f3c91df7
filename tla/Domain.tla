------------------------------- MODULE Domain -------------------------------
(***************************************************************************)
(* The vocabulary of internal/domain/payment.go: Payments, which are       *)
(* identified by their Correlation ID, and the two Processor services.     *)
(***************************************************************************)

CONSTANTS
  Payments,   \* Correlation IDs a client may submit
  None        \* SQL NULL and Go nil

Services == {"default", "fallback"}

ASSUME DomainAssumption == None \notin Payments \cup Services

(***************************************************************************)
(* domain.PaymentClaimStatus                                               *)
(***************************************************************************)
ClaimStatuses == {"claimed", "completed", "unassigned", "notClaimable"}
=============================================================================
