----------------------------- MODULE Reservations -----------------------------
(***************************************************************************)
(* Reservations of properties for the leads of the CRM (sa_crm).           *)
(*                                                                         *)
(* A request is one transaction that works on a snapshot of the database:  *)
(* when a row it writes has been written since, it is undone and run again *)
(* from the start.  Nothing else ties two requests together, so that an    *)
(* activation, which looks for another active reservation before it writes *)
(* its own, is two steps.  The buttons of a page that is out of date reach *)
(* their methods in states in which a fresh page hides them.               *)
(*                                                                         *)
(* Methods run with the rights of who presses the button.  The record      *)
(* rules show an agent the reservations of the leads assigned to him, a    *)
(* manager all of them (sa_crm_security.xml:28-48); whatever a method      *)
(* searches or reads is cut down to that.                                  *)
(***************************************************************************)

CONSTANTS
    Reservations,  \* identities of sa.crm.reservation rows
    Properties,    \* property.property rows
    Leads,         \* sa.crm.lead rows
    Agents,        \* people at work
    Supervisors,   \* those of them in group_pms_manager
    None           \* "no reservation", "no property", "no lead"

ASSUME ReservationsAssumption == None \notin Reservations \cup Properties \cup Leads

VARIABLES
    booking,     \* the reservations
    holder,      \* active_reservation_id of each property; is_reserved iff there is one
    lead,        \* the leads
    confirming,  \* the activation each agent has under way, with what it has read
    moved        \* properties that came to an active reservation by a move, or whose
                 \* reservations changed hands (a history)

reservationVars == <<booking, holder, lead, confirming, moved>>

Booking == [state : {"absent", "draft", "active", "expired", "cancelled", "converted"},
            on    : Properties \cup {None},
            by    : Leads \cup {None}]

(* lead_category and user_id.  Whether it is open, won or lost decides     *)
(* nothing here; that these are written does, see Undone.                  *)
Lead == [category : {"lead", "opportunity", "deal"}, agent : Agents \cup {None}]

Confirming == [of : Reservations \cup {None}, category : {"lead", "opportunity", "deal"}]

ReservationsTypeOK ==
    /\ booking \in [Reservations -> Booking]
    /\ holder \in [Properties -> Reservations \cup {None}]
    /\ lead \in [Leads -> Lead]
    /\ confirming \in [Agents -> Confirming]
    /\ moved \subseteq Properties

NoBooking    == [state |-> "absent", on |-> None, by |-> None]
NewLeads     == [category : {"lead"}, agent : Agents \cup {None}]
NoActivation == [of |-> None, category |-> "lead"]

InitReservations ==
    /\ booking = [r \in Reservations |-> NoBooking]
    /\ holder = [p \in Properties |-> None]
    /\ lead \in [Leads -> NewLeads]
    /\ confirming = [a \in Agents |-> NoActivation]
    /\ moved = {}

-----------------------------------------------------------------------------
Booked(r) == booking[r].state # "absent"

ActiveOn(bookings, p) ==
    {r \in Reservations : bookings[r].state = "active" /\ bookings[r].on = p}

AgentOf(r) == lead[booking[r].by].agent

(* The reservations the record rules show to a.                            *)
Seen(a) == {r \in Reservations : Booked(r) /\ (a \in Supervisors \/ AgentOf(r) = a)}

(* _compute_is_reserved of the properties ps.  Called from a method, it    *)
(* reads reservation_ids as who runs it sees them; run by the ORM because  *)
(* a reservation's property changed, as superuser.                         *)
Recomputed(bookings, ps, seen) ==
    {h \in [Properties -> Reservations \cup {None}] :
        \A p \in Properties :
            LET active == ActiveOn(bookings, p) \cap seen IN
            h[p] \in IF p \notin ps THEN {holder[p]}
                     ELSE IF active = {} THEN {None} ELSE active}

(* An activation writes the rows of its reservation and of its property    *)
(* and, if the lead is no opportunity yet, the lead's.  It is undone when  *)
(* another request has written one of these: bookings and holders show     *)
(* that by their change, leads are the leads whose rows were written.      *)
\* Faulty variant: the property's row is not written (is_reserved not stored).
UndoneByOwnRows(a, leads) ==
    LET r == confirming[a].of IN
    /\ r # None
    /\ booking'[r] # booking[r]

Undone(a, leads) ==
    LET r == confirming[a].of IN
    /\ r # None
    /\ \/ booking'[r] # booking[r]
       \/ holder'[booking[r].on] # holder[booking[r].on]
       \/ confirming[a].category # "opportunity" /\ booking[r].by \in leads

(* The steps of agents, who have written the rows of leads among others,   *)
(* end here; those whose rows they wrote begin again.                      *)
OthersUndone(agents, leads) ==
    confirming' = [a \in Agents |-> IF a \in agents \/ Undone(a, leads) THEN NoActivation ELSE confirming[a]]

-----------------------------------------------------------------------------
(* Reservations                                                            *)

Reserve(r, p, l) ==
    /\ ~Booked(r)
    /\ booking' = [booking EXCEPT ![r] = [state |-> "draft", on |-> p, by |-> l]]
    /\ UNCHANGED <<holder, lead, confirming, moved>>

(* action_activate, from the reservation or from its lead: the search,     *)
(* which finds what the agent may see ...                                  *)
ActivateReads(a, r) ==
    /\ confirming[a].of = None
    /\ r \in Seen(a)
    /\ ActiveOn(booking, booking[r].on) \cap Seen(a) \subseteq {r}
    /\ confirming' = [confirming EXCEPT ![a] = [of |-> r, category |-> lead[booking[r].by].category]]
    /\ UNCHANGED <<booking, holder, lead, moved>>

(* ... and what is written when the search has found nothing: to the same  *)
(* eyes, this reservation is the only active one of the property.          *)
ActivateCommits(a) ==
    LET r == confirming[a].of IN
    /\ r # None
    /\ booking' = [booking EXCEPT ![r].state = "active"]
    /\ holder' = [holder EXCEPT ![booking[r].on] = r]
    /\ lead' = IF confirming[a].category = "opportunity" THEN lead
               ELSE [lead EXCEPT ![booking[r].by].category = "opportunity"]
    /\ OthersUndone({a}, IF confirming[a].category = "opportunity" THEN {} ELSE {booking[r].by})
    /\ UNCHANGED moved

CancelReservation(a, r) ==
    /\ r \in Seen(a)
    /\ booking' = [booking EXCEPT ![r].state = "cancelled"]
    /\ holder' \in Recomputed(booking', {booking[r].on}, Seen(a))
    /\ UNCHANGED <<lead, moved>>
    /\ OthersUndone({}, {})

WonBy(l) == [lead[l] EXCEPT !.category = "deal"]

(* The lead is won with its reservation.                                   *)
ConvertToDeal(a, r) ==
    /\ r \in Seen(a)
    /\ booking' = [booking EXCEPT ![r].state = "converted"]
    /\ lead' = [lead EXCEPT ![booking[r].by] = WonBy(booking[r].by)]
    /\ holder' \in Recomputed(booking', {booking[r].on}, Seen(a))
    /\ UNCHANGED moved
    /\ OthersUndone({}, {booking[r].by})

(* _cron_expire_reservations, as superuser: overdue are those whose        *)
(* date_end, which the form may change at any time, is past.               *)
ExpireReservations(overdue) ==
    /\ overdue # {} /\ \A r \in overdue : booking[r].state = "active"
    /\ booking' = [r \in Reservations |->
                     IF r \in overdue THEN [booking[r] EXCEPT !.state = "expired"] ELSE booking[r]]
    /\ holder' \in Recomputed(booking', {booking[r].on : r \in overdue}, Reservations)
    /\ UNCHANGED <<lead, moved>>
    /\ OthersUndone({}, {})

(* The form changes property_id; whether the other property is free is not *)
(* looked at.                                                              *)
MoveReservation(r, p) ==
    /\ Booked(r) /\ booking[r].on # p
    /\ booking' = [booking EXCEPT ![r].on = p]
    /\ holder' \in Recomputed(booking', {booking[r].on, p}, Reservations)
    /\ moved' = IF booking[r].state = "active" THEN moved \cup {p} ELSE moved
    /\ UNCHANGED lead
    /\ OthersUndone({}, {})

-----------------------------------------------------------------------------
(* Leads                                                                   *)

LeadBecomes(l, new) ==
    /\ lead' = [lead EXCEPT ![l] = new]
    /\ UNCHANGED <<booking, holder, moved>>
    /\ OthersUndone({}, {l})

Qualify(l)  == LeadBecomes(l, [lead[l] EXCEPT !.category = "opportunity"])
MarkWon(l)  == LeadBecomes(l, WonBy(l))
MarkLost(l) == LeadBecomes(l, lead[l])
Reopen(l)   == LeadBecomes(l, [lead[l] EXCEPT !.category = IF @ = "deal" THEN "opportunity" ELSE @])

(* The lead goes to another agent, or to none, by hand or from the cron    *)
(* that assigns leads without one; where it has reserved a property beside *)
(* other leads, two reservations may come into one hand.                   *)
Assign(l, agent) ==
    /\ agent # lead[l].agent
    /\ lead' = [lead EXCEPT ![l].agent = agent]
    /\ moved' = moved \cup {p \in Properties :
                                /\ \E r \in Reservations : booking[r].on = p /\ booking[r].by = l
                                /\ \E r \in Reservations : booking[r].on = p /\ booking[r].by # l}
    /\ UNCHANGED <<booking, holder>>
    /\ OthersUndone({}, {l})

-----------------------------------------------------------------------------
ReservationAction(r) ==
    \/ \E p \in Properties : MoveReservation(r, p) \/ \E l \in Leads : Reserve(r, p, l)
    \/ \E a \in Agents : ActivateReads(a, r) \/ CancelReservation(a, r) \/ ConvertToDeal(a, r)

LeadAction(l) ==
    \/ Qualify(l) \/ MarkWon(l) \/ MarkLost(l) \/ Reopen(l)
    \/ \E agent \in Agents \cup {None} : Assign(l, agent)

NextReservations ==
    \/ \E r \in Reservations : ReservationAction(r)
    \/ \E l \in Leads : LeadAction(l)
    \/ \E a \in Agents : ActivateCommits(a)
    \/ \E overdue \in SUBSET Reservations : ExpireReservations(overdue)

ReservationsSpec == InitReservations /\ [][NextReservations]_reservationVars

-----------------------------------------------------------------------------
(* "One active reservation per property at a time" (README.md:247),        *)
(* whoever activates: not so, since an agent's search does not find the    *)
(* reservations of other agents' leads (sa_crm_reservation.py:132-149).    *)
ReservedOnce ==
    \A p \in Properties \ moved : \A r, s \in ActiveOn(booking, p) : r = s

(* The reservations of the property are all of leads of one agent.         *)
OfOneAgent(p) ==
    \A r, s \in Reservations :
        Booked(r) /\ Booked(s) /\ booking[r].on = p /\ booking[s].on = p => AgentOf(r) = AgentOf(s)

(* What the search does guarantee: an agent's leads hold a property at     *)
(* most once, and a property that the leads of one agent alone reserve     *)
(* shows as reserved exactly while it is.  The check and the write of an   *)
(* activation are apart, and what keeps an agent and his manager, or an    *)
(* agent on two screens, from activating two reservations at once is that  *)
(* both write the property's row (sa_crm_reservation.py:132-149).  An      *)
(* active reservation moved to the property, or handed to another agent,   *)
(* goes unchecked.                                                         *)
ReservedOnceByAgent ==
    \A p \in Properties \ moved :
        /\ \A r, s \in ActiveOn(booking, p) : AgentOf(r) = AgentOf(s) => r = s
        /\ OfOneAgent(p) => ActiveOn(booking, p) = IF holder[p] = None THEN {} ELSE {holder[p]}
=============================================================================
