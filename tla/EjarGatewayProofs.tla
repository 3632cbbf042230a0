--------------------------- MODULE EjarGatewayProofs ---------------------------
(***************************************************************************)
(* The circuit breaker, for any threads, thresholds, credentials and       *)
(* outages; the webhooks, for any workers and events; and the gateway made *)
(* of these and the filing, in which what holds of each part still holds.  *)
(***************************************************************************)
EXTENDS EjarGateway, EjarFilingProofs, TLAPS

(* An answer that says Ejar is not well was given during an outage.        *)
OutagesCounted ==
    /\ ~up => outages > 0
    /\ \A t \in Threads : answer[t] \in Outages => outages > 0

(* The successes the circuit counts on trial are in a row.                 *)
TrialCounts == circuit.state = "half_open" => circuit.successes <= streak

ClientInv == ClientTypeOK /\ OutagesCounted /\ BreakerAgrees /\ TrialCounts

-----------------------------------------------------------------------------
(* Types of the client                                                     *)

LEMMA CallEndsTyped ==
    ASSUME ClientTypeOK, NEW t \in Threads, CallEnds(t)
    PROVE  /\ at' \in [Threads -> {"idle", "caching", "built", "sent", "answered"}]
           /\ carried' \in [Threads -> Versions \cup {NoVersion}]
           /\ answer' \in [Threads -> Results]
  BY DEF ClientTypeOK, CallEnds, Moves, Results

LEMMA CircuitTyped ==
    ASSUME ClientTypeOK, HalfOpen \/ RecordSuccess \/ RecordFailure
    PROVE  circuit' \in Circuits
<1> USE ThresholdAssumption
<1>1. /\ circuit \in Circuits /\ circuit.failures \in 0 .. FailureThreshold
      /\ circuit.successes \in 0 .. SuccessThreshold
      /\ circuit.state \in {"closed", "open", "half_open"}
  BY DEF ClientTypeOK, Circuits
<1>2. CASE HalfOpen
  <2>1. 0 \in 0 .. SuccessThreshold
    OBVIOUS
  <2> QED
    BY <1>1, <1>2, <2>1 DEF HalfOpen, Circuits
<1>3. CASE RecordFailure
  <2>1. AtMost(circuit.failures + 1, FailureThreshold) \in 0 .. FailureThreshold
    BY <1>1 DEF AtMost
  <2>2. circuit' = [circuit EXCEPT !.failures = AtMost(circuit.failures + 1, FailureThreshold),
                                   !.state = IF circuit.failures + 1 >= FailureThreshold THEN "open" ELSE circuit.state]
    BY <1>3 DEF RecordFailure
  <2> QED
    BY <1>1, <2>1, <2>2 DEF Circuits
<1>4. CASE RecordSuccess
  <2>1. AtMost(circuit.successes + 1, SuccessThreshold) \in 0 .. SuccessThreshold
    BY <1>1 DEF AtMost
  <2>2. CASE circuit.state = "half_open" /\ circuit.successes + 1 >= SuccessThreshold
    <3>1. circuit' = [state |-> "closed", failures |-> 0,
                      successes |-> AtMost(circuit.successes + 1, SuccessThreshold)]
      BY <1>1, <1>4, <2>2 DEF RecordSuccess
    <3>2. 0 \in 0 .. FailureThreshold
      OBVIOUS
    <3> QED
      BY <2>1, <3>1, <3>2 DEF Circuits
  <2>3. CASE circuit.state = "half_open" /\ circuit.successes + 1 < SuccessThreshold
    <3>1. circuit' = [circuit EXCEPT !.successes = circuit.successes + 1]
      BY <1>1, <1>4, <2>3 DEF RecordSuccess
    <3>2. circuit.successes + 1 \in 0 .. SuccessThreshold
      BY <1>1, <2>3
    <3> QED
      BY <1>1, <3>1, <3>2 DEF Circuits
  <2>4. CASE circuit.state = "closed"
    <3>1. circuit' = [circuit EXCEPT !.failures = 0]
      BY <1>4, <2>4 DEF RecordSuccess
    <3> QED
      BY <1>1, <3>1 DEF Circuits
  <2>5. CASE circuit.state = "open"
    BY <1>1, <1>4, <2>5 DEF RecordSuccess
  <2> QED
    BY <1>1, <2>2, <2>3, <2>4, <2>5
<1> QED
  BY <1>2, <1>3, <1>4

LEMMA ClientTypeStep ==
    ASSUME ClientTypeOK, [ClientNext]_clientVars
    PROVE  ClientTypeOK'
<1> USE ThresholdAssumption DEF ClientTypeOK, clientVars, breakerVars, cacheVars, ejarVars, threadVars, Moves
<1>1. Resolve \in Versions \cup {NoVersion}
  BY DEF Resolve, Sources
<1>2. ASSUME NEW t \in Threads, CacheHit(t) PROVE ClientTypeOK'
  BY <1>2 DEF CacheHit
<1>3. ASSUME NEW t \in Threads, CacheMiss(t) PROVE ClientTypeOK'
  BY <1>1, <1>3, CallEndsTyped DEF CacheMiss
<1>4. ASSUME NEW t \in Threads, FillCache(t) PROVE ClientTypeOK'
  BY <1>4 DEF FillCache
<1>5. ASSUME NEW t \in Threads, CheckCircuit(t) PROVE ClientTypeOK'
  <2>1. circuit' \in Circuits
    BY <1>5, CircuitTyped DEF CheckCircuit
  <2>2. /\ at' \in [Threads -> {"idle", "caching", "built", "sent", "answered"}]
        /\ carried' \in [Threads -> Versions \cup {NoVersion}]
        /\ answer' \in [Threads -> Results]
    BY <1>5, CallEndsTyped DEF CheckCircuit
  <2> QED
    BY <1>5, <2>1, <2>2 DEF CheckCircuit
<1>6. ASSUME NEW t \in Threads, HearsBack(t) PROVE ClientTypeOK'
  <2>1. answer' \in [Threads -> Results]
    BY <1>6 DEF HearsBack, Results
  <2> QED
    BY <1>6, <2>1 DEF HearsBack
<1>7. ASSUME NEW t \in Threads, Settle(t) PROVE ClientTypeOK'
  <2>1. circuit' \in Circuits /\ cooled' \in BOOLEAN /\ cache' \in Versions \cup {NoVersion} /\ fresh' \in BOOLEAN
    BY <1>7, CircuitTyped DEF Settle, RecordFailure, InvalidateCache
  <2>2. streak' \in 0 .. SuccessThreshold
    <3>1. AtMost(streak + 1, SuccessThreshold) \in 0 .. SuccessThreshold /\ 0 \in 0 .. SuccessThreshold
      BY DEF AtMost
    <3>2. streak' \in {AtMost(streak + 1, SuccessThreshold), 0, streak}
      BY <1>7 DEF Settle
    <3> QED
      BY <3>1, <3>2
  <2>3. /\ at' \in [Threads -> {"idle", "caching", "built", "sent", "answered"}]
        /\ carried' \in [Threads -> Versions \cup {NoVersion}]
        /\ answer' \in [Threads -> Results]
    BY <1>7, CallEndsTyped DEF Settle
  <2> QED
    BY <1>7, <2>1, <2>2, <2>3 DEF Settle
<1>8. CASE EntryAges \/ TimePasses
  BY <1>8 DEF EntryAges, TimePasses
<1>9. CASE Reissue
  <2>1. accepted' \in Versions
    BY <1>9 DEF Reissue, Versions
  <2> QED
    BY <1>9, <2>1 DEF Reissue
<1>10. CASE SaveSettings
  BY <1>10 DEF SaveSettings
<1>11. CASE GoDown
  <2>1. outages' \in 0 .. MaxOutages
    BY <1>11 DEF GoDown
  <2> QED
    BY <1>11, <2>1 DEF GoDown
<1>12. CASE ComeBack
  BY <1>12 DEF ComeBack
<1>13. CASE UNCHANGED clientVars
  BY <1>13
<1> QED
  BY <1>2, <1>3, <1>4, <1>5, <1>6, <1>7, <1>8, <1>9, <1>10, <1>11, <1>12, <1>13 DEF ClientNext, Call

-----------------------------------------------------------------------------
(* The breaker                                                             *)

(* What one settled answer does to the circuit and the row of successes.   *)
LEMMA SettleKeeps ==
    ASSUME ClientInv, NEW t \in Threads, Settle(t)
    PROVE  /\ BreakerAgrees' /\ TrialCounts'
           /\ circuit.state # "closed" /\ circuit'.state = "closed" => streak' >= SuccessThreshold
<1> USE ThresholdAssumption
<1>1. /\ circuit \in Circuits /\ circuit.failures \in 0 .. FailureThreshold
      /\ circuit.successes \in 0 .. SuccessThreshold
      /\ circuit.state \in {"closed", "open", "half_open"}
      /\ streak \in 0 .. SuccessThreshold
  BY DEF ClientInv, ClientTypeOK, Circuits
<1>2. /\ circuit.state = "closed" <=> circuit.failures < FailureThreshold
      /\ circuit.state = "half_open" => circuit.successes < SuccessThreshold
      /\ outages = 0 => circuit.state = "closed" /\ circuit.failures = 0
      /\ circuit.state = "half_open" => circuit.successes <= streak
  BY DEF ClientInv, BreakerAgrees, TrialCounts
<1>3. outages' = outages
  BY DEF Settle, ejarVars
<1>4. CASE answer[t] = "ok"
  <2>1. RecordSuccess /\ streak' = AtMost(streak + 1, SuccessThreshold)
    BY <1>4 DEF Settle, Counted, Outages, Refusals
  <2>2. CASE circuit.state = "half_open" /\ circuit.successes + 1 >= SuccessThreshold
    <3>1. circuit'.state = "closed" /\ circuit'.failures = 0
      BY <1>1, <2>1, <2>2 DEF RecordSuccess
    <3>2. streak' >= SuccessThreshold
      BY <1>1, <1>2, <2>1, <2>2 DEF AtMost
    <3> QED
      BY <1>2, <1>3, <2>2, <3>1, <3>2 DEF BreakerAgrees, TrialCounts
  <2>3. CASE circuit.state = "half_open" /\ circuit.successes + 1 < SuccessThreshold
    <3>1. circuit' = [circuit EXCEPT !.successes = circuit.successes + 1]
      BY <1>1, <2>1, <2>3 DEF RecordSuccess
    <3>2. /\ circuit'.state = "half_open" /\ circuit'.failures = circuit.failures
          /\ circuit'.successes = circuit.successes + 1
      BY <1>1, <2>3, <3>1 DEF Circuits
    <3>3. circuit'.successes <= streak'
      BY <1>1, <1>2, <2>1, <2>3, <3>2 DEF AtMost
    <3> QED
      BY <1>1, <1>2, <1>3, <2>3, <3>2, <3>3 DEF BreakerAgrees, TrialCounts
  <2>4. CASE circuit.state = "closed"
    <3>1. circuit' = [circuit EXCEPT !.failures = 0]
      BY <2>1, <2>4 DEF RecordSuccess
    <3>2. circuit'.state = "closed" /\ circuit'.failures = 0
      BY <1>1, <2>4, <3>1 DEF Circuits
    <3> QED
      BY <2>4, <3>2 DEF BreakerAgrees, TrialCounts
  <2>5. CASE circuit.state = "open"
    <3>1. circuit' = circuit
      BY <2>1, <2>5 DEF RecordSuccess
    <3> QED
      BY <1>2, <1>3, <2>5, <3>1 DEF BreakerAgrees, TrialCounts
  <2> QED
    BY <1>1, <2>2, <2>3, <2>4, <2>5
<1>5. CASE answer[t] \in Outages
  <2>1. RecordFailure /\ outages > 0
    BY <1>5 DEF Settle, Counted, Outages, Refusals, ClientInv, OutagesCounted
  <2>2. circuit' = [circuit EXCEPT !.failures = AtMost(circuit.failures + 1, FailureThreshold),
                                   !.state = IF circuit.failures + 1 >= FailureThreshold THEN "open" ELSE circuit.state]
    BY <2>1 DEF RecordFailure
  <2>3. /\ circuit'.failures = AtMost(circuit.failures + 1, FailureThreshold)
        /\ circuit'.state = IF circuit.failures + 1 >= FailureThreshold THEN "open" ELSE circuit.state
    BY <1>1, <2>2 DEF Circuits
  <2>4. CASE circuit.failures + 1 >= FailureThreshold
    <3>1. circuit'.state = "open" /\ circuit'.failures = FailureThreshold
      BY <1>1, <2>3, <2>4 DEF AtMost
    <3> QED
      BY <1>3, <2>1, <3>1 DEF BreakerAgrees, TrialCounts
  <2>5. CASE circuit.failures + 1 < FailureThreshold
    <3>1. circuit.state = "closed" /\ circuit'.state = "closed" /\ circuit'.failures < FailureThreshold
      BY <1>1, <1>2, <2>3, <2>5 DEF AtMost
    <3> QED
      BY <1>3, <2>1, <3>1 DEF BreakerAgrees, TrialCounts
  <2> QED
    BY <1>1, <2>4, <2>5
<1>6. CASE answer[t] # "ok" /\ answer[t] \notin Outages
  <2>1. circuit' = circuit /\ streak' = streak
    BY <1>6 DEF Settle, Counted, breakerVars
  <2> QED
    BY <1>2, <1>3, <2>1 DEF BreakerAgrees, TrialCounts
<1> QED
  BY <1>4, <1>5, <1>6

(* A request passes the check, or is refused.                              *)
LEMMA CheckKeeps ==
    ASSUME ClientInv, NEW t \in Threads, CheckCircuit(t)
    PROVE  BreakerAgrees' /\ TrialCounts' /\ (circuit.state # "closed" => circuit'.state # "closed")
<1> USE ThresholdAssumption
<1>1. /\ circuit \in Circuits /\ streak \in 0 .. SuccessThreshold
      /\ BreakerAgrees /\ TrialCounts /\ outages' = outages /\ streak' = streak
  BY DEF ClientInv, ClientTypeOK, CheckCircuit, ejarVars
<1>2. CASE circuit.state = "open" /\ HalfOpen
  <2>1. /\ circuit'.state = "half_open" /\ circuit'.successes = 0
        /\ circuit'.failures = circuit.failures
    BY <1>1, <1>2 DEF HalfOpen, Circuits
  <2> QED
    BY <1>1, <1>2, <2>1 DEF BreakerAgrees, TrialCounts
<1>3. CASE circuit' = circuit
  BY <1>1, <1>3 DEF BreakerAgrees, TrialCounts
<1> QED
  BY <1>2, <1>3 DEF CheckCircuit

(* The other steps leave the circuit alone.                                *)
LEMMA CircuitAlone ==
    ASSUME ClientInv, circuit' = circuit, streak' = streak, outages' >= outages, outages' \in Nat
    PROVE  BreakerAgrees' /\ TrialCounts'
<1>1. outages \in Nat /\ (outages' = 0 => outages = 0)
  BY ThresholdAssumption DEF ClientInv, ClientTypeOK
<1> QED
  BY <1>1 DEF ClientInv, BreakerAgrees, TrialCounts

LEMMA OutagesStep ==
    ASSUME ClientInv, [ClientNext]_clientVars
    PROVE  OutagesCounted' /\ outages' >= outages /\ outages' \in Nat
<1> USE ThresholdAssumption DEF clientVars, breakerVars, cacheVars, ejarVars, threadVars
<1>1. /\ outages \in Nat /\ (~up => outages > 0)
      /\ \A t \in Threads : answer[t] \in Outages => outages > 0
      /\ answer \in [Threads -> Results]
  BY DEF ClientInv, ClientTypeOK, OutagesCounted
<1>2. ASSUME NEW t \in Threads, Call(t) PROVE outages' = outages /\ up' = up
  BY <1>2 DEF Call, CacheHit, CacheMiss, FillCache, CheckCircuit, HearsBack, Settle
<1>3. ASSUME NEW t \in Threads, HearsBack(t) PROVE \A s \in Threads : answer'[s] \in Outages => outages > 0
  <2>1. PICK a \in IF ~up THEN Outages
                   ELSE IF carried[t] # accepted THEN {"auth"}
                   ELSE {"ok"} \cup Refusals :
          answer' = [answer EXCEPT ![t] = a]
    BY <1>3 DEF HearsBack
  <2>2. a \in Outages => ~up
    BY <2>1 DEF Outages, Refusals
  <2> QED
    BY <1>1, <2>1, <2>2
<1>4. ASSUME NEW t \in Threads, Call(t), ~HearsBack(t) PROVE \A s \in Threads : answer'[s] \in Outages => outages > 0
  <2>1. answer' = answer \/ answer' = [answer EXCEPT ![t] = "none"]
    BY <1>4 DEF Call, CacheHit, CacheMiss, FillCache, CheckCircuit, Settle, CallEnds
  <2> QED
    BY <1>1, <2>1 DEF Outages
<1>5. ASSUME NEW t \in Threads, Call(t) PROVE OutagesCounted' /\ outages' >= outages /\ outages' \in Nat
  BY <1>1, <1>2, <1>3, <1>4, <1>5 DEF OutagesCounted
<1>6. CASE GoDown
  <2>1. outages' = outages + 1 /\ answer' = answer
    BY <1>6 DEF GoDown
  <2> QED
    BY <1>1, <2>1 DEF OutagesCounted
<1>7. CASE EntryAges \/ TimePasses \/ Reissue \/ SaveSettings \/ ComeBack \/ UNCHANGED clientVars
  <2>1. outages' = outages /\ answer' = answer /\ (~up' => ~up)
    BY <1>7 DEF EntryAges, TimePasses, Reissue, SaveSettings, ComeBack
  <2> QED
    BY <1>1, <2>1 DEF OutagesCounted
<1> QED
  BY <1>5, <1>6, <1>7 DEF ClientNext

LEMMA ClientStep ==
    ASSUME ClientInv, [ClientNext]_clientVars
    PROVE  /\ ClientInv'
           /\ circuit.state # "closed" /\ circuit'.state = "closed" => streak' >= SuccessThreshold
<1>1. ClientTypeOK' /\ OutagesCounted' /\ outages' >= outages /\ outages' \in Nat
  BY ClientTypeStep, OutagesStep DEF ClientInv
<1>2. CASE \E t \in Threads : Settle(t)
  BY <1>1, <1>2, SettleKeeps DEF ClientInv
<1>3. CASE \E t \in Threads : CheckCircuit(t)
  BY <1>1, <1>3, CheckKeeps DEF ClientInv
<1>4. CASE ~(\E t \in Threads : Settle(t) \/ CheckCircuit(t))
  <2>1. circuit' = circuit /\ streak' = streak
    BY <1>4 DEF ClientNext, Call, CacheHit, CacheMiss, FillCache, HearsBack, EntryAges, TimePasses,
                Reissue, SaveSettings, GoDown, ComeBack, clientVars, breakerVars
  <2> QED
    BY <1>1, <2>1, CircuitAlone DEF ClientInv
<1> QED
  BY <1>2, <1>3, <1>4

LEMMA ClientStarts == ClientInit => ClientInv
<1> SUFFICES ASSUME ClientInit PROVE ClientInv
  OBVIOUS
<1> USE ThresholdAssumption DEF ClientInit
<1>1. circuit \in Circuits
  BY DEF Circuits
<1>2. ClientTypeOK
  <2>1. params \in [Sources -> Versions \cup {NoVersion}]
    BY DEF Versions
  <2>2. accepted \in Versions /\ outages \in 0 .. MaxOutages /\ streak \in 0 .. SuccessThreshold
    BY DEF Versions
  <2> QED
    BY <1>1, <2>1, <2>2 DEF ClientTypeOK, Results
<1>3. OutagesCounted /\ BreakerAgrees /\ TrialCounts
  BY DEF OutagesCounted, BreakerAgrees, TrialCounts, Outages
<1> QED
  BY <1>2, <1>3 DEF ClientInv

(* For any number of threads, thresholds, credentials and outages: the     *)
(* state of the circuit and its counters agree, and as long as Ejar has    *)
(* been reachable nothing is counted against it (_circuit_check,           *)
(* _circuit_record_success, _circuit_record_failure).                      *)
THEOREM BreakerSound == ClientSpec => [](ClientTypeOK /\ BreakerAgrees)
<1>1. ClientInv /\ [ClientNext]_clientVars => ClientInv'
  BY ClientStep
<1>2. ClientInv => ClientTypeOK /\ BreakerAgrees
  BY DEF ClientInv
<1> QED
  BY <1>1, <1>2, ClientStarts, PTL DEF ClientSpec

(* And it closes only on CB_SUCCESS_THRESHOLD successes in a row, however  *)
(* many probes are let through and however late they are answered          *)
(* (_circuit_record_success).                                              *)
THEOREM ClosesSoundly == ClientSpec => ClosesOnEvidence
<1>1. ClientInv /\ [ClientNext]_clientVars => ClientInv'
  BY ClientStep
<1>2. ClientInv /\ [ClientNext]_clientVars =>
        [circuit.state # "closed" /\ circuit'.state = "closed" => streak' >= SuccessThreshold]_clientVars
  BY ClientStep
<1> QED
  BY <1>1, <1>2, ClientStarts, PTL DEF ClientSpec, ClosesOnEvidence
-----------------------------------------------------------------------------
(* The webhooks                                                            *)

(* An event with a key that has taken effect is in the log, and whoever    *)
(* still works on it has an old snapshot of the contract.                  *)
AppliedIsKnown ==
    \A e \in keyed : applied[e] > 0 =>
        /\ e \in logged
        /\ \A w \in Receivers : handles[w] = e => w \in outdated

(* An approval Ejar tells of is final.                                     *)
ApprovalIsFinal ==
    /\ \A e \in Events : told[e] = "approved" => ruling = "registered"
    /\ shown = "approved" => ruling = "registered"

WebhookInv == WebhookTypeOK /\ AppliedIsKnown /\ AppliedOnce /\ ApprovalIsFinal

LEMMA EventsAreNotZero == Events \subseteq Nat /\ 0 \notin Events
  BY WebhookAssumption DEF Events

LEMMA EffectsTyped ==
    ASSUME applied \in [Events -> 0 .. Repeated], NEW e \in Events, TakesEffect(e)
    PROVE  applied' \in [Events -> 0 .. Repeated]
<1>1. (IF applied[e] = Repeated THEN applied[e] ELSE applied[e] + 1) \in 0 .. Repeated
  BY DEF Repeated
<1> QED
  BY <1>1 DEF TakesEffect

(* Types                                                                   *)
LEMMA WebhookTypeStep ==
    ASSUME WebhookTypeOK, [WebhookNext]_webhookVars
    PROVE  WebhookTypeOK'
<1> USE DEF WebhookTypeOK, webhookVars
<1>1. Busy \subseteq Receivers
  BY DEF Busy
<1>2. ASSUME NEW e \in Untold, NEW kind \in EventKinds, Tell(e, kind)
      PROVE  told' \in [Events -> EventKinds \cup {"none"}]
  BY <1>2 DEF Tell, Untold
<1>3. CASE Decides
  <2>1. PICK e \in Untold, kind \in EventKinds : Tell(e, kind) /\ ruling' \in {"registered", "rejected"}
    BY <1>3 DEF Decides, EventKinds
  <2> QED
    BY <1>2, <1>3, <2>1 DEF Decides
<1>4. CASE Mentions
  <2>1. PICK e \in Untold, kind \in EventKinds : Tell(e, kind)
    BY <1>4 DEF Mentions, EventKinds
  <2> QED
    BY <1>2, <1>4, <2>1 DEF Mentions
<1>5. ASSUME NEW e \in Events, Forgets(e) PROVE WebhookTypeOK'
  <2>1. 0 \in 0 .. Repeated
    BY DEF Repeated
  <2> QED
    BY <1>5, <2>1 DEF Forgets
<1>6. ASSUME NEW w \in Receivers, NEW e \in Events, Receive(w, e) PROVE WebhookTypeOK'
  BY <1>6 DEF Receive
<1>7. ASSUME NEW w \in Receivers, Process(w) \/ ProcessRaises(w) \/ ProcessUndone(w) PROVE WebhookTypeOK'
  <2>1. handles[w] \in Events /\ handles[w] # 0
    BY <1>7 DEF Process, ProcessRaises, ProcessUndone
  <2>2. shown' \in Shown
    BY <1>7 DEF Process, ProcessRaises, ProcessUndone, Handler, HandleApproved, HandleRejected, HandleMessage, Shown
  <2>3. applied' = applied \/ TakesEffect(handles[w])
    BY <1>7 DEF Process, ProcessRaises, ProcessUndone
  <2>4. applied' \in [Events -> 0 .. Repeated]
    BY <2>1, <2>3, EffectsTyped
  <2>5. handles' \in [Receivers -> Events \cup {0}] /\ outdated' \subseteq Receivers
    BY <1>1, <1>7 DEF Process, ProcessRaises, ProcessUndone, Free, WrittenBy
  <2>6. logged' \subseteq Events
    BY <1>7, <2>1 DEF Process, ProcessRaises, ProcessUndone
  <2>7. loggable' = loggable /\ keyed' = keyed /\ ruling' = ruling /\ told' = told
    BY <1>7 DEF Process, ProcessRaises, ProcessUndone
  <2> QED
    BY <2>2, <2>4, <2>5, <2>6, <2>7
<1>8. CASE LearntByPoll \/ ResetToFix \/ FiledAgain \/ ShownSubmitted
  BY <1>1, <1>8 DEF LearntByPoll, ResetToFix, FiledAgain, ShownSubmitted, Claimed, Shown
<1>9. CASE UNCHANGED webhookVars
  BY <1>9
<1> QED
  BY <1>3, <1>4, <1>5, <1>6, <1>7, <1>8, <1>9 DEF WebhookNext

-----------------------------------------------------------------------------
(* Ejar tells of something new.                                            *)
LEMMA TellKeeps ==
    ASSUME WebhookInv, Decides \/ Mentions
    PROVE  AppliedIsKnown' /\ AppliedOnce' /\ ApprovalIsFinal'
<1>1. PICK e \in Untold, kind \in EventKinds :
        /\ Tell(e, kind)
        /\ kind = "approved" => ruling' = "registered"
        /\ ruling' = ruling \/ ruling = "submitted"
  BY DEF Decides, Mentions, EventKinds
<1>2. /\ keyed' = keyed /\ shown' = shown /\ logged' = logged
      /\ applied' = applied /\ handles' = handles /\ outdated' = outdated
  BY DEF Decides, Mentions
<1>3. told \in [Events -> EventKinds \cup {"none"}] /\ e \in Events
  BY DEF WebhookInv, WebhookTypeOK, Untold
<1>4. \A f \in Events : told'[f] = IF f = e THEN kind ELSE told[f]
  BY <1>1, <1>3 DEF Tell
<1>5. AppliedIsKnown' /\ AppliedOnce'
  BY <1>2 DEF WebhookInv, AppliedIsKnown, AppliedOnce
<1>6. ApprovalIsFinal'
  BY <1>1, <1>2, <1>4 DEF WebhookInv, ApprovalIsFinal
<1> QED
  BY <1>5, <1>6

(* A delivery arrives; the log does not have its key, so it had no effect. *)
LEMMA ReceiveKeeps ==
    ASSUME WebhookInv, NEW w \in Receivers, NEW e \in Events, Receive(w, e)
    PROVE  AppliedIsKnown' /\ AppliedOnce' /\ ApprovalIsFinal'
<1>1. handles \in [Receivers -> Events \cup {0}]
  BY DEF WebhookInv, WebhookTypeOK
<1>2. /\ keyed' = keyed /\ shown' = shown /\ ruling' = ruling /\ told' = told
      /\ logged' = logged /\ applied' = applied /\ outdated' = outdated
  BY DEF Receive
<1>3. \A v \in Receivers : handles'[v] = handles[v] \/ (handles'[v] = e /\ ~(e \in keyed /\ e \in logged))
  BY <1>1 DEF Receive, Duplicate
<1>4. AppliedIsKnown' /\ AppliedOnce'
  BY <1>2, <1>3 DEF WebhookInv, AppliedIsKnown, AppliedOnce
<1>5. ApprovalIsFinal'
  BY <1>2 DEF WebhookInv, ApprovalIsFinal
<1> QED
  BY <1>4, <1>5

(* The log forgets an event nobody works on.                               *)
LEMMA ForgetsKeeps ==
    ASSUME WebhookInv, NEW e \in Events, Forgets(e)
    PROVE  AppliedIsKnown' /\ AppliedOnce' /\ ApprovalIsFinal'
<1>1. applied \in [Events -> 0 .. Repeated] /\ keyed \subseteq Events
  BY DEF WebhookInv, WebhookTypeOK
<1>2. /\ keyed' = keyed /\ shown' = shown /\ ruling' = ruling /\ told' = told
      /\ handles' = handles /\ outdated' = outdated /\ logged' = logged \ {e}
  BY DEF Forgets
<1>3. \A f \in Events : applied'[f] = IF f = e THEN 0 ELSE applied[f]
  BY <1>1 DEF Forgets
<1>4. \A f \in keyed : applied'[f] > 0 => f # e /\ applied[f] > 0
  BY <1>1, <1>3
<1>5. AppliedIsKnown'
  BY <1>2, <1>4 DEF WebhookInv, AppliedIsKnown
<1>6. AppliedOnce'
  BY <1>1, <1>2, <1>3 DEF WebhookInv, AppliedOnce
<1>7. ApprovalIsFinal'
  BY <1>2 DEF WebhookInv, ApprovalIsFinal
<1> QED
  BY <1>5, <1>6, <1>7

(* A delivery has its effect: nobody else who works on it will.            *)
LEMMA TakesEffectKeeps ==
    ASSUME WebhookInv, NEW w \in Receivers, handles[w] # 0, w \notin outdated, Handler(handles[w]),
           logged' = logged \cup {handles[w]}, TakesEffect(handles[w]),
           WrittenBy(w), handles' = [handles EXCEPT ![w] = 0],
           keyed' = keyed, ruling' = ruling, told' = told
    PROVE  AppliedIsKnown' /\ AppliedOnce' /\ ApprovalIsFinal'
<1> USE EventsAreNotZero
<1>1. /\ handles \in [Receivers -> Events \cup {0}] /\ applied \in [Events -> 0 .. Repeated]
      /\ keyed \subseteq Events
  BY DEF WebhookInv, WebhookTypeOK
<1>2. PICK e \in Events : e = handles[w] /\ e # 0
  BY <1>1
<1>3. e \in keyed => applied[e] = 0
  <2>1. applied[e] \in 0 .. 2
    BY <1>1 DEF Repeated
  <2>2. e \in keyed => ~(applied[e] > 0)
    BY <1>2 DEF WebhookInv, AppliedIsKnown
  <2> QED
    BY <2>1, <2>2
<1>4. \A v \in Receivers : handles'[v] = IF v = w THEN 0 ELSE handles[v]
  BY <1>1
<1>5. \A v \in Receivers : handles'[v] # 0 => v \in outdated'
  BY <1>4 DEF WrittenBy, Busy
<1>6. \A f \in keyed : applied'[f] = IF f = e THEN 1 ELSE applied[f]
  BY <1>1, <1>2, <1>3 DEF TakesEffect, Repeated
<1>7. AppliedIsKnown'
  <2>1. \A f \in keyed : applied'[f] > 0 => f \in logged'
    BY <1>2, <1>6 DEF WebhookInv, AppliedIsKnown
  <2>2. \A f \in keyed : \A v \in Receivers : handles'[v] = f => v \in outdated'
    BY <1>1, <1>5
  <2> QED
    BY <2>1, <2>2 DEF AppliedIsKnown
<1>8. AppliedOnce'
  BY <1>6 DEF WebhookInv, AppliedOnce
<1>9. ApprovalIsFinal'
  BY <1>2 DEF Handler, HandleApproved, HandleRejected, HandleMessage, WebhookInv, ApprovalIsFinal
<1> QED
  BY <1>7, <1>8, <1>9

(* A worker gives up its delivery.                                         *)
LEMMA FreeKeeps ==
    ASSUME WebhookInv, NEW w \in Receivers, Free(w), shown' = shown, applied' = applied,
           logged \subseteq logged', keyed' = keyed, ruling' = ruling, told' = told
    PROVE  AppliedIsKnown' /\ AppliedOnce' /\ ApprovalIsFinal'
<1>1. handles \in [Receivers -> Events \cup {0}] /\ keyed \subseteq Events
  BY DEF WebhookInv, WebhookTypeOK
<1>2. \A v \in Receivers : /\ handles'[v] = IF v = w THEN 0 ELSE handles[v]
                           /\ v # w /\ v \in outdated => v \in outdated'
  BY <1>1 DEF Free
<1>3. AppliedIsKnown' /\ AppliedOnce'
  BY <1>1, <1>2, EventsAreNotZero DEF WebhookInv, AppliedIsKnown, AppliedOnce
<1>4. ApprovalIsFinal'
  BY DEF WebhookInv, ApprovalIsFinal
<1> QED
  BY <1>3, <1>4

(* The others write the contract.                                          *)
LEMMA OthersWriteKeeps ==
    ASSUME WebhookInv, LearntByPoll \/ ResetToFix \/ FiledAgain \/ ShownSubmitted
    PROVE  AppliedIsKnown' /\ AppliedOnce' /\ ApprovalIsFinal'
<1> USE EventsAreNotZero
<1>1. /\ keyed' = keyed /\ told' = told /\ logged' = logged /\ applied' = applied /\ handles' = handles
      /\ outdated' = outdated \/ outdated' = Busy
      /\ handles \in [Receivers -> Events \cup {0}] /\ keyed \subseteq Events
  BY DEF LearntByPoll, ResetToFix, FiledAgain, ShownSubmitted, WebhookInv, WebhookTypeOK
<1>2. AppliedIsKnown' /\ AppliedOnce'
  BY <1>1 DEF WebhookInv, AppliedIsKnown, AppliedOnce, Busy
<1>3. ruling' = ruling \/ (ruling = "rejected" /\ ruling' = "submitted")
  BY DEF LearntByPoll, ResetToFix, FiledAgain, ShownSubmitted
<1>4. shown' = "approved" => ruling' = "registered"
  <2>1. ruling \in {"submitted", "registered", "rejected"}
    BY DEF WebhookInv, WebhookTypeOK
  <2>2. Claimed(ruling) = "approved" => ruling = "registered"
    BY <2>1 DEF Claimed
  <2> QED
    BY <2>2 DEF LearntByPoll, ResetToFix, FiledAgain, ShownSubmitted, WebhookInv, ApprovalIsFinal
<1>5. ApprovalIsFinal'
  BY <1>1, <1>3, <1>4 DEF WebhookInv, ApprovalIsFinal
<1> QED
  BY <1>2, <1>5

LEMMA WebhookStep ==
    ASSUME WebhookInv, [WebhookNext]_webhookVars
    PROVE  WebhookInv'
<1>1. WebhookTypeOK'
  BY WebhookTypeStep DEF WebhookInv
<1>2. ASSUME NEW w \in Receivers, Process(w) PROVE WebhookInv'
  BY <1>1, <1>2, TakesEffectKeeps DEF WebhookInv, Process
<1>3. ASSUME NEW w \in Receivers, ProcessRaises(w) PROVE WebhookInv'
  <2>1. CASE Free(w) /\ UNCHANGED <<shown, applied>>
    BY <1>1, <1>3, <2>1, FreeKeeps DEF WebhookInv, ProcessRaises
  <2>2. CASE ~(Free(w) /\ UNCHANGED <<shown, applied>>)
    BY <1>1, <1>3, <2>2, TakesEffectKeeps DEF WebhookInv, ProcessRaises
  <2> QED
    BY <2>1, <2>2
<1>4. ASSUME NEW w \in Receivers, ProcessUndone(w) PROVE WebhookInv'
  BY <1>1, <1>4, FreeKeeps DEF WebhookInv, ProcessUndone
<1>5. CASE UNCHANGED webhookVars
  BY <1>1, <1>5 DEF webhookVars, WebhookInv, AppliedIsKnown, AppliedOnce, ApprovalIsFinal
<1> QED
  BY <1>1, <1>2, <1>3, <1>4, <1>5, TellKeeps, ReceiveKeeps, ForgetsKeeps, OthersWriteKeeps
  DEF WebhookNext, WebhookInv

LEMMA WebhookStarts == WebhookInit => WebhookInv
<1> SUFFICES ASSUME WebhookInit PROVE WebhookInv
  OBVIOUS
<1> USE EventsAreNotZero DEF WebhookInit
<1>1. WebhookTypeOK
  BY DEF WebhookTypeOK, Shown, Repeated
<1>2. AppliedIsKnown /\ AppliedOnce /\ ApprovalIsFinal
  BY <1>1 DEF AppliedIsKnown, AppliedOnce, ApprovalIsFinal, WebhookTypeOK
<1> QED
  BY <1>1, <1>2 DEF WebhookInv

(* For any number of workers and events, in any order and repetition: an   *)
(* event with an idempotency key takes effect once while the log remembers *)
(* it (is_duplicate, process_webhook).                                     *)
THEOREM EventsApplyOnce == WebhookSpec => [](WebhookTypeOK /\ AppliedOnce)
<1>1. WebhookInv /\ [WebhookNext]_webhookVars => WebhookInv'
  BY WebhookStep
<1>2. WebhookInv => WebhookTypeOK /\ AppliedOnce
  BY DEF WebhookInv
<1> QED
  BY <1>1, <1>2, WebhookStarts, PTL DEF WebhookSpec

-----------------------------------------------------------------------------
(* What the contract comes to say is backed by Ejar's record; Backing is a *)
(* CASE without OTHER, so its values are taken one by one.                 *)
LEMMA RulingBacks ==
  ASSUME WebhookTypeOK
  PROVE  /\ ruling \in Registration!Backing("none")
         /\ ruling \in Registration!Backing("submitted")
         /\ ruling \in Registration!Backing("rejected")
         /\ ruling = "registered" => ruling \in Registration!Backing("approved")
<1>1. ruling \in {"submitted", "registered", "rejected"}
  BY DEF WebhookTypeOK
<1>2. ruling \in Registration!Backing("none")
  BY <1>1 DEF Registration!Backing, Registration!Records
<1>3. ruling \in Registration!Backing("submitted")
  BY <1>1 DEF Registration!Backing, Registration!Records
<1>4. ruling \in Registration!Backing("rejected")
  BY <1>1 DEF Registration!Backing, Registration!Records
<1>5. ruling = "registered" => ruling \in Registration!Backing("approved")
  BY <1>1 DEF Registration!Backing, Registration!Records
<1> QED
  BY <1>2, <1>3, <1>4, <1>5

LEMMA Says ==
  ASSUME WebhookTypeOK, ruling' = ruling,
         shown' \in {"draft", "submitted", "rejected"} \/ (shown' = "approved" /\ ruling = "registered")
  PROVE  Registration!Claim
<1>1. CASE shown' = "draft"
  BY <1>1, RulingBacks DEF Registration!Claim, Registration!Claims
<1>2. CASE shown' = "submitted"
  BY <1>2, RulingBacks DEF Registration!Claim, Registration!Claims
<1>3. CASE shown' = "rejected"
  BY <1>3, RulingBacks DEF Registration!Claim, Registration!Claims
<1>4. CASE shown' = "approved" /\ ruling = "registered"
  BY <1>4, RulingBacks DEF Registration!Claim, Registration!Claims
<1> QED
  BY <1>1, <1>2, <1>3, <1>4

LEMMA WebhookBacked ==
  ASSUME WebhookInv, [WebhookNext]_webhookVars
  PROVE  [Registration!Claim \/ Registration!Proceed]_<<shown, ruling>>
<1> USE DEF WebhookInv
<1>1. WebhookTypeOK /\ shown \in Shown /\ ruling \in {"submitted", "registered", "rejected"}
  BY DEF WebhookTypeOK
<1>2. CASE Decides
  <2>1. shown' = shown /\ ruling = "submitted" /\ ruling' \in {"registered", "rejected"}
    BY <1>2 DEF Decides
  <2>2. Registration!Successors("submitted") = {"registered", "rejected"}
    BY DEF Registration!Successors
  <2> QED
    BY <2>1, <2>2 DEF Registration!Proceed
<1>3. CASE FiledAgain
  <2>1. shown' = shown /\ ruling = "rejected" /\ ruling' = "submitted"
    BY <1>3 DEF FiledAgain
  <2>2. Registration!Successors("rejected") = {"submitted"}
    BY DEF Registration!Successors
  <2> QED
    BY <2>1, <2>2 DEF Registration!Proceed
<1>4. CASE LearntByPoll
  <2>1. Claimed(ruling) \in {"submitted", "rejected"} \/ (Claimed(ruling) = "approved" /\ ruling = "registered")
    BY <1>1 DEF Claimed
  <2> QED
    BY <1>1, <1>4, <2>1, Says DEF LearntByPoll
<1>5. CASE ResetToFix \/ ShownSubmitted
  BY <1>1, <1>5, Says DEF ResetToFix, ShownSubmitted
<1>6. ASSUME NEW w \in Receivers, Process(w) \/ ProcessRaises(w)
      PROVE  [Registration!Claim \/ Registration!Proceed]_<<shown, ruling>>
  <2>1. ruling' = ruling /\ handles[w] \in Events
    BY <1>1, <1>6, EventsAreNotZero DEF Process, ProcessRaises, WebhookTypeOK
  <2>2. shown' = shown \/ Handler(handles[w])
    BY <1>6 DEF Process, ProcessRaises
  <2>3. CASE Handler(handles[w])
    <3>1. told[handles[w]] = "approved" => ruling = "registered"
      BY <2>1 DEF ApprovalIsFinal
    <3>2. \/ shown' = shown \/ shown' = "rejected"
          \/ shown' = "approved" /\ ruling = "registered"
      BY <2>3, <3>1 DEF Handler, HandleApproved, HandleRejected, HandleMessage
    <3> QED
      BY <1>1, <2>1, <3>2, Says
  <2> QED
    BY <2>1, <2>2, <2>3
<1>7. CASE \/ Mentions \/ UNCHANGED webhookVars
           \/ \E e \in Events : Forgets(e)
           \/ \E w \in Receivers : ProcessUndone(w) \/ \E e \in Events : Receive(w, e)
  BY <1>7 DEF Mentions, Forgets, ProcessUndone, Receive, webhookVars
<1> QED
  BY <1>2, <1>3, <1>4, <1>5, <1>6, <1>7 DEF WebhookNext

(* Whatever webhooks, polls and people write, in any order and any number  *)
(* of workers, the contract claims of Ejar only what Ejar has done: the    *)
(* webhooks implement EjarRegistration (webhook_processor.py:135-267).     *)
THEOREM WebhooksBacked == WebhookSpec => WebhookKeepsPromise
<1>1. WebhookInv /\ [WebhookNext]_webhookVars => WebhookInv'
  BY WebhookStep
<1>2. WebhookInv /\ [WebhookNext]_webhookVars
      => [Registration!Claim \/ Registration!Proceed]_<<shown, ruling>>
  BY WebhookBacked
<1> QED
  BY <1>1, <1>2, WebhookStarts, PTL DEF WebhookSpec, WebhookKeepsPromise

-----------------------------------------------------------------------------
(* The gateway                                                             *)

(* A behaviour of the gateway is one of each part: one part moves, the     *)
(* others rest.                                                            *)
LEMMA GatewayComposes == GatewaySpec => ClientSpec /\ FilingSpec /\ WebhookSpec
<1>1. GatewayInit => ClientInit /\ FilingInit /\ WebhookInit
  BY DEF GatewayInit
<1>2. ASSUME [GatewayNext]_gatewayVars
      PROVE  /\ [ClientNext]_clientVars
             /\ [FilingNext]_filingVars
             /\ [WebhookNext]_webhookVars
  BY <1>2 DEF GatewayNext, gatewayVars
<1> QED
  BY <1>1, <1>2, PTL DEF GatewaySpec, ClientSpec, FilingSpec, WebhookSpec

(* The state of breaker and cache, of the filing steps and of the events is *)
(* well formed whatever they do, for any instance.                         *)
THEOREM GatewayTyped == GatewaySpec => []GatewayTypeOK
<1>1. ClientTypeOK /\ FilingTypeOK /\ WebhookTypeOK => GatewayTypeOK
  BY DEF GatewayTypeOK
<1> QED
  BY <1>1, GatewayComposes, BreakerSound, FilesComplete, EventsApplyOnce, PTL

(* What the run of the gateway checks on a small instance, for any: the    *)
(* breaker, the filing steps and the webhooks keep their promises          *)
(* (ejar_client.py:145-1144, lifecycle_service.py:69-570,                  *)
(* webhook_processor.py:36-243).                                           *)
THEOREM GatewayKeeps ==
    GatewaySpec =>
        /\ [](BreakerAgrees /\ FiledIsComplete /\ RememberedIsHeld /\ OneDraftEach /\ AppliedOnce)
        /\ ClosesOnEvidence /\ WebhookKeepsPromise
<1>1. ClientSpec => []BreakerAgrees /\ ClosesOnEvidence
  BY BreakerSound, ClosesSoundly, PTL
<1>2. FilingSpec => []FiledIsComplete /\ []RememberedIsHeld /\ []OneDraftEach
  BY FilesComplete, RemembersTruly, OpensOnce, PTL
<1>3. WebhookSpec => []AppliedOnce /\ WebhookKeepsPromise
  BY EventsApplyOnce, WebhooksBacked, PTL
<1> QED
  BY <1>1, <1>2, <1>3, GatewayComposes, PTL
=============================================================================
