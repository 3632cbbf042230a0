----------------------------- MODULE EjarWebhook -----------------------------
(***************************************************************************)
(* The webhooks of Ejar for one contract: signed events that may come      *)
(* twice, late or out of order, handled by several HTTP workers while      *)
(* polls and people write the same contract.                               *)
(*                                                                         *)
(* A delivery is one transaction.  What raises in it is caught by the      *)
(* controller, which answers as if nothing had happened: Odoo neither      *)
(* rolls back what had been written nor runs the request again, except     *)
(* that the database itself undoes a transaction whose write it refuses.   *)
(*                                                                         *)
(* Ejar is external.  It sends an event when something happens, and again, *)
(* with a new timestamp, as long as it has no answer, whatever it has      *)
(* decided since; answers may be lost and deliveries overtaken, so what it *)
(* has told may arrive at any time, in any order, any number of times.     *)
(* Whether an event carries an idempotency key is up to Ejar.              *)
(***************************************************************************)
EXTENDS Naturals, FiniteSets

CONSTANTS
    Receivers,   \* HTTP workers
    MaxEvents    \* bound: events Ejar has to tell of

ASSUME WebhookAssumption == MaxEvents \in Nat

Events == 1 .. MaxEvents

(* The event types of handler_map; the three that only leave a message in  *)
(* the contract's chatter are one.  "unheard": any other.                  *)
EventKinds == {"approved", "rejected", "message", "unheard"}

(* Bound: where the effects of an event are no longer counted.             *)
Repeated == 2

VARIABLES
    loggable,   \* does the log let itself be searched, and take the status it is given?
    keyed,      \* the events that carry an idempotency key
    shown,      \* ejar_status
    ruling,     \* Ejar's record of the contract
    told,       \* the events, by number: the kind of each, or "none"
    logged,     \* the events with a row of the last 24 hours in ejar.sync.log
    applied,    \* how often each event has taken effect since it was last forgotten
    handles,    \* the event each worker works on, or 0
    outdated    \* workers whose snapshot of the contract is no longer the last

webhookVars == <<loggable, keyed, shown, ruling, told, logged, applied, handles,
                 outdated>>

(* ejar_status; "draft" stands for all that claims nothing of Ejar.        *)
Shown == {"draft", "submitted", "approved", "rejected"}

WebhookTypeOK ==
    /\ loggable \in BOOLEAN
    /\ keyed \subseteq Events
    /\ shown \in Shown
    /\ ruling \in {"submitted", "registered", "rejected"}
    /\ told \in [Events -> EventKinds \cup {"none"}]
    /\ logged \subseteq Events
    /\ applied \in [Events -> 0 .. Repeated]
    /\ handles \in [Receivers -> Events \cup {0}]
    /\ outdated \subseteq Receivers

WebhookInit ==
    /\ loggable \in BOOLEAN
    /\ keyed \in SUBSET Events
    /\ shown = "submitted"
    /\ ruling = "submitted"
    /\ told = [e \in Events |-> "none"]
    /\ logged = {}
    /\ applied = [e \in Events |-> 0]
    /\ handles = [w \in Receivers |-> 0]
    /\ outdated = {}

Busy == {w \in Receivers : handles[w] # 0}

-----------------------------------------------------------------------------
(* Ejar, and the way from it                                               *)

Untold == {e \in Events : told[e] = "none"}

(* Something happens at Ejar.                                              *)
Tell(e, kind) ==
    /\ e \in Untold /\ \A f \in Untold : e <= f
    /\ told' = [told EXCEPT ![e] = kind]

Decides ==
    /\ ruling = "submitted"
    /\ \E e \in Untold :
         \/ ruling' = "registered" /\ Tell(e, "approved")
         \/ ruling' = "rejected" /\ Tell(e, "rejected")
    /\ UNCHANGED <<loggable, keyed, shown, logged, applied, handles, outdated>>

Mentions ==
    /\ \E e \in Untold : \E kind \in {"message", "unheard"} : Tell(e, kind)
    /\ UNCHANGED <<loggable, keyed, shown, ruling, logged, applied, handles, outdated>>

-----------------------------------------------------------------------------
(* webhook_validator.py                                                    *)

\* Faulty variant: the log is not asked.
NeverDuplicate(e) == FALSE

(* Is there a row with the event's idempotency key?  An event without a    *)
(* key is never a duplicate.                                               *)
Duplicate(e) == e \in keyed /\ e \in logged

(* The rows of an event are more than 24 hours old and no longer count.    *)
(* Requests are far shorter than that: none is still at work on it.        *)
Forgets(e) ==
    /\ e \in logged /\ \A w \in Receivers : handles[w] # e
    /\ logged' = logged \ {e}
    /\ applied' = [applied EXCEPT ![e] = 0]
    /\ UNCHANGED <<loggable, keyed, shown, ruling, told, handles, outdated>>

Free(w) == handles' = [handles EXCEPT ![w] = 0] /\ outdated' = outdated \ {w}

(* A delivery arrives, and from here on the worker sees the database as it *)
(* is now.  The signature covers the body; the timestamp is a header       *)
(* beside it and tells how long the delivery took, not how old the event   *)
(* is.  A delivery that fails either test is refused and changes nothing.  *)
Receive(w, e) ==
    /\ handles[w] = 0 /\ told[e] # "none"
    /\ ~Duplicate(e)
    /\ handles' = [handles EXCEPT ![w] = e]
    /\ UNCHANGED <<loggable, keyed, shown, ruling, told, logged, applied, outdated>>

-----------------------------------------------------------------------------
(* webhook_processor.py                                                    *)

HandleApproved == shown' = "approved"
HandleRejected == shown' = "rejected"

\* Faulty variant: an update sets the status it tells of.
HandleAnyAsApproval == shown' = "approved"

(* Their messages, and the sync_state of the parties, are left out.        *)
HandleMessage == UNCHANGED shown

Handler(e) ==
    \/ told[e] = "approved" /\ HandleApproved
    \/ told[e] = "rejected" /\ HandleRejected
    \/ told[e] = "message" /\ HandleMessage

TakesEffect(e) ==
    applied' = [applied EXCEPT ![e] = IF @ = Repeated THEN @ ELSE @ + 1]

(* The contract row is written: the snapshots of the others are old.       *)
WrittenBy(w) == outdated' = (outdated \cup Busy) \ {w}

(* The log row, the handler and the tracking fields, committed together.   *)
Process(w) ==
    /\ handles[w] # 0 /\ loggable
    /\ w \notin outdated
    /\ Handler(handles[w])
    /\ logged' = logged \cup {handles[w]}
    /\ TakesEffect(handles[w])
    /\ WrittenBy(w) /\ handles' = [handles EXCEPT ![w] = 0]
    /\ UNCHANGED <<loggable, keyed, ruling, told>>

(* No handler, or one that raises: the row in the log is committed all the *)
(* same, and whatever the handler had written.                             *)
ProcessRaises(w) ==
    LET e == handles[w] IN
    /\ e # 0 /\ loggable
    /\ logged' = logged \cup {e}
    /\ \/ UNCHANGED <<shown, applied>> /\ Free(w)
       \/ /\ w \notin outdated /\ Handler(e)
          /\ TakesEffect(e)
          /\ WrittenBy(w) /\ handles' = [handles EXCEPT ![w] = 0]
    /\ UNCHANGED <<loggable, keyed, ruling, told>>

(* The write of a row that was written since is refused, and everything of *)
(* the transaction with it; or the log refuses the search or the status    *)
(* "pending" before anything is done.  The answer says 500 in its body and *)
(* 200 in its head.                                                        *)
ProcessUndone(w) ==
    /\ handles[w] # 0
    /\ ~loggable \/ (w \in outdated /\ told[handles[w]] # "unheard")
    /\ Free(w)
    /\ UNCHANGED <<loggable, keyed, shown, ruling, told, logged, applied>>

-----------------------------------------------------------------------------
(* The others that write the contract (EjarSubmission)                     *)

Claimed(r) == CASE r = "registered" -> "approved" [] OTHER -> r

LearntByPoll ==
    /\ shown = "submitted"
    /\ shown' = Claimed(ruling)
    /\ outdated' = Busy
    /\ UNCHANGED <<loggable, keyed, ruling, told, logged, applied, handles>>

ResetToFix ==
    /\ shown = "rejected"
    /\ shown' = "draft"
    /\ outdated' = Busy
    /\ UNCHANGED <<loggable, keyed, ruling, told, logged, applied, handles>>

FiledAgain ==
    /\ shown = "draft" /\ ruling = "rejected"
    /\ ruling' = "submitted"
    /\ UNCHANGED <<loggable, keyed, shown, told, logged, applied, handles, outdated>>

ShownSubmitted ==
    /\ shown = "draft" /\ ruling # "rejected"
    /\ shown' = "submitted"
    /\ outdated' = Busy
    /\ UNCHANGED <<loggable, keyed, ruling, told, logged, applied, handles>>

-----------------------------------------------------------------------------
WebhookNext ==
    \/ Decides \/ Mentions
    \/ \E e \in Events : Forgets(e)
    \/ \E w \in Receivers :
         \/ \E e \in Events : Receive(w, e)
         \/ Process(w) \/ ProcessRaises(w) \/ ProcessUndone(w)
    \/ LearntByPoll \/ ResetToFix \/ FiledAgain \/ ShownSubmitted

WebhookSpec == WebhookInit /\ [][WebhookNext]_webhookVars

-----------------------------------------------------------------------------
(* However often Ejar or the network repeats an event that has a key, and  *)
(* however many workers get it at once, it takes effect once while the log *)
(* remembers it: the log catches what comes after the commit, the contract *)
(* row what comes before (webhook_validator.py:127-149,                    *)
(* webhook_processor.py:51-98).  Outside it: an event without a key, and   *)
(* one sent again after a day, take effect as often as they come.          *)
AppliedOnce == \A e \in keyed : applied[e] <= 1

(* Whatever webhooks write, the contract claims of Ejar only what Ejar has *)
(* done (webhook_processor.py:135-267).                                    *)
Registration == INSTANCE EjarRegistration
    WITH claim <- IF shown = "draft" THEN "none" ELSE shown, record <- ruling
WebhookKeepsPromise == [][Registration!Claim \/ Registration!Proceed]_<<shown, ruling>>
=============================================================================
