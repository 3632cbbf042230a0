----------------------------- MODULE EjarClient -----------------------------
(***************************************************************************)
(* The API client of l10n_sa_ejar in one server process: threads that each *)
(* make one call after another for one company, the circuit breaker and    *)
(* the credential cache they share, and the parameters the credentials     *)
(* come from.                                                              *)
(*                                                                         *)
(* A thread meets the shared memory three times in a call: when it builds  *)
(* its client, before it sends, and when it has its answer.  Nothing is    *)
(* locked between.  The HTTP session repeats a request on 429, 5xx and     *)
(* network errors by itself; the breaker hears of the last answer only.    *)
(***************************************************************************)
EXTENDS Naturals, FiniteSets

CONSTANTS
    Threads,           \* the threads of the process
    FailureThreshold,  \* CB_FAILURE_THRESHOLD
    SuccessThreshold,  \* CB_SUCCESS_THRESHOLD
    MaxVersion,        \* bound: credentials Ejar issues, one after the other
    MaxOutages         \* bound: times Ejar goes down

ASSUME ThresholdAssumption ==
    /\ FailureThreshold \in Nat \ {0}
    /\ SuccessThreshold \in Nat \ {0}
    /\ MaxVersion \in Nat \ {0}
    /\ MaxOutages \in Nat

NoVersion     == 0
Versions == 1 .. MaxVersion

(* Where the parameters of a company may be: its own, or all companies'.   *)
Sources == {"company", "global"}

(* The exceptions a request ends in (EjarAPIError and its subclasses): the *)
(* caller's own mistakes, and those of Ejar and of the way there.          *)
Refusals == {"validation", "forbidden", "not_found", "conflict", "unexpected"}
Outages  == {"network", "timeout", "rate_limit", "server"}
Results  == {"none", "ok", "auth"} \cup Refusals \cup Outages

VARIABLES
    circuit,   \* state, failure_count, half_open_success_count
    cooled,    \* has CB_RECOVERY_TIMEOUT passed since last_failure_at?
    cache,     \* the entry of the company: a version of its credentials
    fresh,     \* is the entry younger than its time to live?
    params,    \* the stored credentials, per source
    accepted,  \* the version Ejar accepts
    up,        \* is Ejar reachable and healthy?
    outages,   \* times it was not
    at, carried, answer,  \* of each thread: its stage, credentials, result
    streak     \* successes recorded since the last recorded failure

breakerVars == <<circuit, cooled>>
cacheVars   == <<cache, fresh>>
ejarVars    == <<accepted, up, outages>>
threadVars  == <<at, carried, answer>>
clientVars == <<breakerVars, cacheVars, params, ejarVars, threadVars, streak>>

Circuits == [state : {"closed", "open", "half_open"},
             failures : 0 .. FailureThreshold, successes : 0 .. SuccessThreshold]

ClientTypeOK ==
    /\ circuit \in Circuits
    /\ cooled \in BOOLEAN
    /\ cache \in Versions \cup {NoVersion}
    /\ fresh \in BOOLEAN
    /\ params \in [Sources -> Versions \cup {NoVersion}]
    /\ accepted \in Versions
    /\ up \in BOOLEAN
    /\ outages \in 0 .. MaxOutages
    /\ at \in [Threads -> {"idle", "caching", "built", "sent", "answered"}]
    /\ carried \in [Threads -> Versions \cup {NoVersion}]
    /\ answer \in [Threads -> Results]
    /\ streak \in 0 .. SuccessThreshold

ClientInit ==
    /\ circuit = [state |-> "closed", failures |-> 0, successes |-> 0]
    /\ cooled = TRUE
    /\ cache = NoVersion
    /\ fresh = FALSE
    /\ params \in [Sources -> {NoVersion, 1}]
    /\ accepted = 1
    /\ up = TRUE
    /\ outages = 0
    /\ at = [t \in Threads |-> "idle"]
    /\ carried = [t \in Threads |-> NoVersion]
    /\ answer = [t \in Threads |-> "none"]
    /\ streak = 0

-----------------------------------------------------------------------------
(* auth_service.py                                                         *)

(* A pair of the company's own parameters wins over the pair of all.  The  *)
(* token model that is asked before them is not in this code base.         *)
Resolve == IF params["company"] # NoVersion THEN params["company"] ELSE params["global"]

Moves(t, stage) == at' = [at EXCEPT ![t] = stage]

(* The call has returned or raised; the client is thrown away.             *)
CallEnds(t) ==
    /\ Moves(t, "idle")
    /\ carried' = [carried EXCEPT ![t] = NoVersion]
    /\ answer' = [answer EXCEPT ![t] = "none"]

(* EjarApiClient.__init__ with a cached entry that is still fresh: the     *)
(* client keeps these credentials as long as it lives.                     *)
CacheHit(t) ==
    /\ at[t] = "idle"
    /\ cache # NoVersion /\ fresh
    /\ carried' = [carried EXCEPT ![t] = cache]
    /\ Moves(t, "built")
    /\ UNCHANGED <<breakerVars, cacheVars, params, ejarVars, answer, streak>>

(* No entry, or one past its time, which is dropped: the parameters are    *)
(* read, and no lock is held while they are.                               *)
CacheMiss(t) ==
    /\ at[t] = "idle"
    /\ ~(cache # NoVersion /\ fresh)
    /\ cache' = NoVersion /\ fresh' = FALSE
    /\ IF Resolve = NoVersion
         THEN CallEnds(t)               \* EjarConfigurationError
         ELSE /\ carried' = [carried EXCEPT ![t] = Resolve]
              /\ Moves(t, "caching")
              /\ UNCHANGED answer
    /\ UNCHANGED <<breakerVars, params, ejarVars, streak>>

(* What was read goes into the cache, whatever happened since.             *)
FillCache(t) ==
    /\ at[t] = "caching"
    /\ cache' = carried[t] /\ fresh' = TRUE
    /\ Moves(t, "built")
    /\ UNCHANGED <<breakerVars, params, ejarVars, carried, answer, streak>>

EntryAges ==
    /\ cache # NoVersion /\ fresh
    /\ fresh' = FALSE
    /\ UNCHANGED <<breakerVars, cache, params, ejarVars, threadVars, streak>>

\* Faulty variant: a 401 leaves the entry in the cache.
InvalidateNothing == UNCHANGED cacheVars

InvalidateCache == cache' = NoVersion /\ fresh' = FALSE

-----------------------------------------------------------------------------
(* ejar_client.py: the breaker.  failure_count grows without bound; only   *)
(* whether it has reached the threshold is ever asked.                     *)

AtMost(n, max) == IF n < max THEN n ELSE max

\* Faulty variant: the probes of an earlier trial still count.
HalfOpenKeepsProbes == circuit' = [circuit EXCEPT !.state = "half_open"]

HalfOpen == circuit' = [circuit EXCEPT !.state = "half_open", !.successes = 0]

(* _circuit_check: let through, or refused while the circuit is open.  An  *)
(* open circuit past its time lets everybody through from then on.         *)
CheckCircuit(t) ==
    /\ at[t] = "built"
    /\ \/ /\ circuit.state = "open" /\ ~cooled
          /\ CallEnds(t)                \* EjarCircuitOpenError
          /\ UNCHANGED circuit
       \/ /\ circuit.state = "open" /\ cooled
          /\ HalfOpen
          /\ Moves(t, "sent") /\ UNCHANGED <<carried, answer>>
       \/ /\ circuit.state # "open"
          /\ Moves(t, "sent") /\ UNCHANGED <<circuit, carried, answer>>
    /\ UNCHANGED <<cooled, cacheVars, params, ejarVars, streak>>

\* Faulty variants: successes are counted for ever; they are not counted on
\* trial; the circuit closes and keeps its failures.
SuccessNeverCloses == circuit' = [circuit EXCEPT !.successes = @ + 1]
SuccessUnnoticed ==
    circuit' = IF circuit.state = "closed" THEN [circuit EXCEPT !.failures = 0] ELSE circuit
SuccessKeepsCount ==
    circuit' = IF circuit.state = "half_open"
                 THEN [circuit EXCEPT !.successes = @ + 1,
                                      !.state = IF circuit.successes + 1 >= SuccessThreshold THEN "closed" ELSE @]
                 ELSE circuit

RecordSuccess ==
    circuit' =
        CASE circuit.state = "half_open" /\ circuit.successes + 1 >= SuccessThreshold ->
               [state |-> "closed", failures |-> 0,
                successes |-> AtMost(circuit.successes + 1, SuccessThreshold)]
          [] circuit.state = "half_open" /\ circuit.successes + 1 < SuccessThreshold ->
               [circuit EXCEPT !.successes = @ + 1]
          [] circuit.state = "closed" -> [circuit EXCEPT !.failures = 0]
          [] circuit.state = "open" -> circuit

RecordFailure ==
    /\ circuit' = [circuit EXCEPT !.failures = AtMost(@ + 1, FailureThreshold),
                                  !.state = IF circuit.failures + 1 >= FailureThreshold THEN "open" ELSE @]
    /\ cooled' = FALSE

TimePasses ==
    /\ ~cooled
    /\ cooled' = TRUE
    /\ UNCHANGED <<circuit, cacheVars, params, ejarVars, threadVars, streak>>

-----------------------------------------------------------------------------
(* ejar_client.py: one request                                             *)

(* The last of the tries of the session is answered, or is not.            *)
HearsBack(t) ==
    /\ at[t] = "sent"
    /\ \E a \in IF ~up THEN Outages
                ELSE IF carried[t] # accepted THEN {"auth"}
                ELSE {"ok"} \cup Refusals :
         answer' = [answer EXCEPT ![t] = a]
    /\ Moves(t, "answered")
    /\ UNCHANGED <<breakerVars, cacheVars, params, ejarVars, carried, streak>>

(* The errors _make_request counts against Ejar.                           *)
Counted(e) == e \in Outages

(* What becomes of the answer, in memory: the breaker, and the cache.      *)
Settle(t) ==
    /\ at[t] = "answered"
    /\ \/ answer[t] = "ok" /\ RecordSuccess /\ UNCHANGED <<cooled, cacheVars>>
       \/ Counted(answer[t]) /\ RecordFailure /\ UNCHANGED cacheVars
       \/ answer[t] = "auth" /\ InvalidateCache /\ UNCHANGED breakerVars
       \/ /\ answer[t] \in Refusals /\ ~Counted(answer[t])
          /\ UNCHANGED <<breakerVars, cacheVars>>
    /\ streak' = CASE answer[t] = "ok" -> AtMost(streak + 1, SuccessThreshold)
                   [] answer[t] \in Outages -> 0
                   [] OTHER -> streak
    /\ CallEnds(t)
    /\ UNCHANGED <<params, ejarVars>>

-----------------------------------------------------------------------------
(* Ejar, and the people who rotate the credentials: new ones are issued    *)
(* there, the old ones end, and somebody saves the new ones here.  Nothing *)
(* in the settings tells the cache.                                        *)

Reissue ==
    /\ accepted < MaxVersion
    /\ accepted' = accepted + 1
    /\ UNCHANGED <<breakerVars, cacheVars, params, up, outages, threadVars, streak>>

SaveSettings ==
    /\ \E s \in Sources :
         /\ s = "company" \/ params["company"] = NoVersion
         /\ params[s] # accepted
         /\ params' = [params EXCEPT ![s] = accepted]
    /\ UNCHANGED <<breakerVars, cacheVars, ejarVars, threadVars, streak>>

GoDown ==
    /\ up /\ outages < MaxOutages
    /\ up' = FALSE
    /\ outages' = outages + 1
    /\ UNCHANGED <<breakerVars, cacheVars, params, accepted, threadVars, streak>>

ComeBack ==
    /\ ~up
    /\ up' = TRUE
    /\ UNCHANGED <<breakerVars, cacheVars, params, accepted, outages, threadVars, streak>>

-----------------------------------------------------------------------------
Call(t) ==
    \/ CacheHit(t) \/ CacheMiss(t) \/ FillCache(t)
    \/ CheckCircuit(t) \/ HearsBack(t) \/ Settle(t)

ClientNext ==
    \/ \E t \in Threads : Call(t)
    \/ EntryAges \/ TimePasses
    \/ Reissue \/ SaveSettings
    \/ GoDown \/ ComeBack

ClientSpec == ClientInit /\ [][ClientNext]_clientVars

(* Threads go on and are given further calls; time passes; an outage ends; *)
(* rotated credentials are saved in the end; and Ejar, when it is up and   *)
(* the credentials are right, grants a request now and then.               *)
Granted(t) == HearsBack(t) /\ answer'[t] = "ok"

ClientFairness ==
    /\ \A t \in Threads : WF_clientVars(Call(t)) /\ SF_clientVars(Granted(t))
    /\ WF_clientVars(TimePasses) /\ WF_clientVars(SaveSettings) /\ WF_clientVars(ComeBack)

ClientFairSpec == ClientSpec /\ ClientFairness

-----------------------------------------------------------------------------
(* The state of the circuit and its two counters agree, whatever answers   *)
(* of older requests arrive late: a circuit that lets requests through     *)
(* unchecked has failures to spare, one that is open or on trial is one    *)
(* failure from being open again, and one on trial lacks a success.  While *)
(* Ejar has always been reachable nothing has been counted: refusals and   *)
(* revoked credentials do not keep a company from it                       *)
(* (ejar_client.py:254-302, 419-434).                                      *)
BreakerAgrees ==
    /\ circuit.state = "closed" <=> circuit.failures < FailureThreshold
    /\ circuit.state = "half_open" => circuit.successes < SuccessThreshold
    /\ outages = 0 => circuit.state = "closed" /\ circuit.failures = 0

(* A circuit closes only on CB_SUCCESS_THRESHOLD successes with no failure *)
(* between them or after them (ejar_client.py:275-288, constants.py:400).  *)
ClosesOnEvidence ==
    [][circuit.state # "closed" /\ circuit'.state = "closed" => streak' >= SuccessThreshold]_clientVars

(* When outages are over the circuit closes for good: neither late         *)
(* failures, nor refusals, nor old credentials keep it open                *)
(* (ejar_client.py:254-302, 431-434).                                      *)
CircuitRecovers == <>[](circuit.state = "closed")

(* Credentials that were replaced do not stay in the cache, although       *)
(* nobody invalidates it when they are saved and a thread may put back     *)
(* what it read before: the requests that carry them are refused, and each *)
(* refusal empties the cache (auth_service.py:205-240,                     *)
(* ejar_client.py:431-434).                                                *)
RotationTakesEffect == cache \notin {NoVersion, Resolve} ~> cache \in {NoVersion, Resolve}
=============================================================================
