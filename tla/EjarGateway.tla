----------------------------- MODULE EjarGateway -----------------------------
(***************************************************************************)
(* The three parts of l10n_sa_ejar that talk with Ejar beneath the         *)
(* contract's status: the API client, the filing steps, the webhooks.      *)
(*                                                                         *)
(* They share no state: the client's breaker and cache live in a process,  *)
(* the steps' identifiers on the records of one contract, the events in    *)
(* another.  So it is enough that a behaviour exercises one of them; which *)
(* is chosen at its beginning.                                             *)
(***************************************************************************)
EXTENDS EjarClient, EjarFiling, EjarWebhook

VARIABLE part

GatewayInit ==
    /\ part \in {"client", "filing", "webhook"}
    /\ ClientInit /\ FilingInit /\ WebhookInit
    \* what the parts at rest begin with does not matter: one choice for each
    /\ part # "client" => \A s \in Sources : params[s] = NoVersion
    /\ part # "filing" => people = {}
    /\ part # "webhook" => loggable /\ keyed = {}

GatewayNext ==
    /\ \/ part = "client" /\ ClientNext /\ UNCHANGED <<filingVars, webhookVars>>
       \/ part = "filing" /\ FilingNext /\ UNCHANGED <<clientVars, webhookVars>>
       \/ part = "webhook" /\ WebhookNext /\ UNCHANGED <<clientVars, filingVars>>
    /\ UNCHANGED part

gatewayVars == <<clientVars, filingVars, webhookVars, part>>

(* The fairness of ClientFairSpec and FilingFairSpec, of the part at work. *)
Of(p, A) == part = p /\ A

GatewayFairness ==
    /\ \A t \in Threads :
         /\ WF_clientVars(Of("client", Call(t)))
         /\ SF_clientVars(Of("client", Granted(t)))
    /\ WF_clientVars(Of("client", TimePasses))
    /\ WF_clientVars(Of("client", SaveSettings))
    /\ WF_clientVars(Of("client", ComeBack))
    /\ \A c \in Contracts : WF_filingVars(Of("filing", Succeeds(c)))
    /\ <>[][\A c \in Contracts : ~Trouble(c)]_filingVars

GatewaySpec == GatewayInit /\ [][GatewayNext]_gatewayVars /\ GatewayFairness

GatewayTypeOK == ClientTypeOK /\ FilingTypeOK /\ WebhookTypeOK
=============================================================================
