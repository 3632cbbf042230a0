------------------------------ MODULE BackOffice ------------------------------
(***************************************************************************)
(* The records the landlord's people work on beside the filing of          *)
(* contracts: rent payments and SADAD bills, reservations and leads,       *)
(* tenancies and their renewal, broker commissions, periodic maintenance.  *)
(*                                                                         *)
(* These parts share no row that two of them write, so their steps do not  *)
(* disturb one another.  A behaviour follows one of them, chosen at the    *)
(* start, while the others rest in their initial state.                    *)
(***************************************************************************)
EXTENDS RentPayments, Reservations, Tenancies, Commissions, Maintenance

VARIABLE part  \* the part a behaviour follows

backOfficeVars == <<part, vars, reservationVars, tenancyVars, commissionVars, maintenanceVars>>

BackOfficeTypeOK ==
    CASE part = "rent"         -> TypeOK
      [] part = "reservations" -> ReservationsTypeOK
      [] part = "tenancies"    -> TenanciesTypeOK
      [] part = "commissions"  -> CommissionsTypeOK
      [] part = "maintenance"  -> MaintenanceTypeOK

NoLines == [l \in Lines |-> [state |-> "absent", bill |-> "none"]]

InitBackOffice ==
    /\ part \in {"rent", "reservations", "tenancies", "commissions", "maintenance"}
    /\ Init /\ InitReservations /\ InitTenancies /\ InitMaintenance
    /\ \E lines \in IF part = "commissions" THEN [Lines -> Copied] ELSE {NoLines} :
         InitCommissions(lines)
    \* what the reservations at rest begin with does not matter
    /\ part # "reservations" => \A l \in Leads : lead[l].agent = None

RentStep ==
    /\ part = "rent" /\ Next
    /\ UNCHANGED <<part, reservationVars, tenancyVars, commissionVars, maintenanceVars>>

ReservationsStep ==
    /\ part = "reservations" /\ NextReservations
    /\ UNCHANGED <<part, vars, tenancyVars, commissionVars, maintenanceVars>>

TenanciesStep ==
    /\ part = "tenancies" /\ NextTenancies
    /\ UNCHANGED <<part, vars, reservationVars, commissionVars, maintenanceVars>>

CommissionsStep ==
    /\ part = "commissions" /\ NextCommissions
    /\ UNCHANGED <<part, vars, reservationVars, tenancyVars, maintenanceVars>>

MaintenanceStep ==
    /\ part = "maintenance" /\ NextMaintenance
    /\ UNCHANGED <<part, vars, reservationVars, tenancyVars, commissionVars>>

NextBackOffice ==
    RentStep \/ ReservationsStep \/ TenanciesStep \/ CommissionsStep \/ MaintenanceStep

SpecBackOffice == InitBackOffice /\ [][NextBackOffice]_backOfficeVars
=============================================================================
