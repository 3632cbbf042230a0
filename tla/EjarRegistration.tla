-------------------------- MODULE EjarRegistration --------------------------
(***************************************************************************)
(* What the ejar_status of a contract promises about Ejar.                 *)
(*                                                                         *)
(* Of the nine states of a contract four say something of Ejar's record:   *)
(* submitted, approved, rejected and expired.  Odoo may take up such a     *)
(* claim only when Ejar's record backs it, and drop any claim at any time; *)
(* Ejar's record goes through its life on its own, never back.  The jobs,  *)
(* processes, retries and deaths of EjarSubmission implement this.         *)
(***************************************************************************)

VARIABLES
    claim,      \* what the contract says of Ejar, or "none"
    record      \* the contract at Ejar

Claims  == {"none", "submitted", "approved", "rejected", "expired"}
Records == {"none", "draft", "submitted", "registered", "rejected", "expired", "terminated"}

(* Ejar's record with which Odoo may say so.                               *)
Backing(c) ==
    CASE c = "none" -> Records
      [] c \in {"submitted", "rejected"} -> Records \ {"none", "draft"}
      [] c = "approved" -> {"registered", "expired", "terminated"}
      [] c = "expired" -> {"expired"}

(* How the record goes on.                                                 *)
Successors(r) ==
    CASE r = "none" -> {"draft"}
      [] r \in {"draft", "rejected"} -> {"submitted"}
      [] r = "submitted" -> {"registered", "rejected"}
      [] r = "registered" -> {"expired", "terminated"}
      [] OTHER -> {}

Init == claim = "none" /\ record = "none"

Claim ==
    /\ claim' \in {c \in Claims : record \in Backing(c)}
    /\ UNCHANGED record

Proceed ==
    /\ record' \in Successors(record)
    /\ UNCHANGED claim

Spec == Init /\ [][Claim \/ Proceed]_<<claim, record>>
=============================================================================
