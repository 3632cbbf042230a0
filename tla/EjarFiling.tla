----------------------------- MODULE EjarFiling -----------------------------
(***************************************************************************)
(* The fourteen steps in which l10n_sa_ejar files a contract: entities,    *)
(* draft, units, parties, documents, terms, submission.  EjarSubmission    *)
(* treats them as three; here is what each request creates, under which    *)
(* idempotency key, which answers are put up with, what is remembered of   *)
(* them, and what a retry therefore sends again.                           *)
(*                                                                         *)
(* A contract has one pipeline at a time.  Ejar is external: it answers a  *)
(* request whose key it knows as it did before, without doing it again,    *)
(* and forgets the keys of a day ago (IDEMPOTENCY_WINDOW_HOURS).          *)
(***************************************************************************)
EXTENDS Naturals, Sequences, FiniteSets

CONSTANTS
    Contracts,
    Parties,          \* the people of each contract
    Companies,        \* those of them who are organizations
    Representatives,  \* those of them who act for another, with a document
    Units,            \* what each contract lets
    Portfolio,        \* the units that bear identifiers of Ejar's portfolio
    Terms,            \* dates and type of each contract
    HasFee,           \* is a brokerage fee asked for?
    MaxForm,          \* bound: versions of what a form says
    MaxDrafts,        \* bound: drafts opened at Ejar
    MaxLapses,        \* bound: times that Ejar forgets the keys it knows
    MaxDeaths         \* bound: processes that die in a pipeline

ASSUME FilingAssumption ==
    /\ Companies \subseteq Parties /\ Representatives \subseteq Parties
    /\ Portfolio \subseteq Units
    /\ HasFee \in BOOLEAN
    /\ MaxForm \in Nat \ {0} /\ MaxDrafts \in Nat /\ MaxLapses \in Nat /\ MaxDeaths \in Nat
    /\ Contracts = DOMAIN Terms

Forms  == 1 .. MaxForm
Drafts == 1 .. MaxDrafts

(* The stages between two commits, in their order.                         *)
FilingStages == {"entities", "contract", "units", "parties", "proxies",
                 "signed", "financial", "fee", "submit", "finalize"}

StageAfter == [entities |-> "contract", contract |-> "units", units |-> "parties",
               parties |-> "proxies", proxies |-> "signed", signed |-> "financial",
               financial |-> "fee", fee |-> "submit", submit |-> "finalize"]

(* What the requests create.                                               *)
OfUnits   == {"unit"} \X Units
OfParties == {"party"} \X Parties
OfProxies == {"proxy"} \X Representatives
Whole     == {"signed", "financial", "fee"} \X {"contract"}
Holdings  == OfUnits \cup OfParties \cup OfProxies \cup Whole

(* Whose identifiers the records keep: not those of the signed document,   *)
(* the financial information and the fee.                                  *)
Identified == ({"entity"} \X Parties) \cup OfUnits \cup OfParties \cup OfProxies

VARIABLES
    filing,    \* ejar_status, as far as the pipeline and a resubmission go
    form,      \* which version of its data a contract shows
    began,     \* the version the last pipeline started with
    stage,     \* where its pipeline is
    todo,      \* the records whose turn in the stage is still to come
    ids,       \* Ejar's identifiers, as the open transaction sees them
    saved,     \* ... and as they are committed
    drafts,    \* the drafts opened at Ejar: the terms of each
    held,      \* what each draft holds, and of which version
    filed,     \* the drafts that have been submitted
    people,    \* the entities Ejar has
    known,     \* the requests whose keys Ejar knows, with the draft of each
    blank,     \* contracts for which a conflict came without an identifier
    lapses,    \* how often keys have been forgotten
    deaths

odooVars == <<filing, form, began, stage, todo, ids, saved>>
heldVars == <<drafts, held, filed, people, known>>
filingVars == <<odooVars, heldVars, blank, lapses, deaths>>

FilingTypeOK ==
    /\ filing \in [Contracts -> {"draft", "ready", "submitting", "submitted", "rejected"}]
    /\ form \in [Contracts -> Forms]
    /\ began \in [Contracts -> Forms \cup {0}]
    /\ stage \in [Contracts -> FilingStages \cup {"idle"}]
    /\ todo \in [Contracts -> SUBSET (Parties \cup Units \cup {"contract"})]
    /\ \A r \in {ids, saved} :
         r \in [Contracts -> [draft : Drafts \cup {0}, of : SUBSET Identified]]
    /\ drafts \in Seq({Terms[c] : c \in Contracts}) /\ Len(drafts) <= MaxDrafts
    /\ held \in [Drafts -> [Holdings -> Forms \cup {0}]]
    /\ filed \subseteq Drafts
    /\ people \subseteq Parties
    /\ blank \subseteq Contracts
    /\ lapses \in 0 .. MaxLapses
    /\ deaths \in 0 .. MaxDeaths

FilingInit ==
    /\ filing = [c \in Contracts |-> "ready"]
    /\ form = [c \in Contracts |-> 1]
    /\ began = [c \in Contracts |-> 0]
    /\ stage = [c \in Contracts |-> "idle"]
    /\ todo = [c \in Contracts |-> {}]
    /\ ids = [c \in Contracts |-> [draft |-> 0, of |-> {}]]
    /\ saved = ids
    /\ drafts = <<>>
    /\ held = [d \in Drafts |-> [h \in Holdings |-> 0]]
    /\ filed = {}
    /\ people \in SUBSET Parties        \* from other contracts
    /\ known = {}
    /\ blank = {}
    /\ lapses = 0
    /\ deaths = 0

-----------------------------------------------------------------------------
(* ejar_client.py: the idempotency keys.  All but those of entities and of *)
(* the creation name the draft they are about.                             *)

KeyIndividual(p)   == <<"individual", p>>     \* id_number, id_type
KeyOrganization(p) == <<"organization", p>>   \* cr_number, unified_number

KeyEntity(p) == IF p \in Companies THEN KeyOrganization(p) ELSE KeyIndividual(p)

\* Faulty variant: a key of the attempt's own.
KeyCreateOfAttempt(c) == <<"create", deaths>>

(* Company, dates and contract type: not which contract it is.             *)
KeyCreate(c) == <<"create", Terms[c]>>

KeyAttach(u)    == <<"unit", u>>
KeyParty(p)     == <<"party", p>>
KeyProxy(p, v)  == <<"proxy", p, v>>     \* with a hash of the file
KeySigned(v)    == <<"signed", v>>       \* likewise
KeyFinancial    == <<"financial">>       \* whatever it says
KeyFee          == <<"fee">>             \* whatever it says
KeySubmit       == <<"submit">>

About(d, key) == [draft |-> d, key |-> key]

-----------------------------------------------------------------------------
(* The pipeline between its requests                                       *)

ItemsOf(s) ==
    CASE s \in {"entities", "parties"} -> Parties
      [] s = "units" -> Units
      [] s = "proxies" -> Representatives
      [] s \in {"contract", "signed", "financial", "submit"} -> {"contract"}
      [] s = "fee" -> IF HasFee THEN {"contract"} ELSE {}
      [] s = "finalize" -> {}

Commit(c) == saved' = [saved EXCEPT ![c] = ids'[c]]

(* execute_full_submission and _resolve_profile: the status is committed,  *)
(* then everybody's data is checked; the check may fail.                   *)
StartFiling(c) ==
    /\ stage[c] = "idle" /\ filing[c] \in {"ready", "submitting"}
    /\ began' = [began EXCEPT ![c] = form[c]]
    /\ \/ /\ filing' = [filing EXCEPT ![c] = "submitting"]
          /\ stage' = [stage EXCEPT ![c] = "entities"]
          /\ todo' = [todo EXCEPT ![c] = Parties]
       \/ filing' = [filing EXCEPT ![c] = "ready"] /\ UNCHANGED <<stage, todo>>
    /\ UNCHANGED <<form, ids, saved, heldVars, blank, lapses, deaths>>

(* All of the stage's records have had their turn.                         *)
StageDone(c) ==
    /\ stage[c] \notin {"idle", "finalize"} /\ todo[c] = {}
    /\ stage' = [stage EXCEPT ![c] = StageAfter[@]]
    /\ todo' = [todo EXCEPT ![c] = ItemsOf(StageAfter[stage[c]])]
    /\ UNCHANGED ids /\ Commit(c)
    /\ UNCHANGED <<filing, form, began, heldVars, blank, lapses, deaths>>

FinalizeFiling(c) ==
    /\ stage[c] = "finalize"
    /\ filing' = [filing EXCEPT ![c] = "submitted"]
    /\ stage' = [stage EXCEPT ![c] = "idle"]
    /\ UNCHANGED ids /\ Commit(c)
    /\ UNCHANGED <<form, began, todo, heldVars, blank, lapses, deaths>>

(* The handler of exceptions: back to ready, and what was noted since the  *)
(* last commit is committed with it.                                       *)
Breaks(c) ==
    /\ filing' = [filing EXCEPT ![c] = "ready"]
    /\ stage' = [stage EXCEPT ![c] = "idle"]
    /\ todo' = [todo EXCEPT ![c] = {}]
    /\ Commit(c)
    /\ UNCHANGED <<form, began>>

(* A request that is refused, never arrives or cannot be built.            *)
RequestFails(c) ==
    /\ stage[c] \notin {"idle", "finalize"} /\ todo[c] # {}
    /\ UNCHANGED ids /\ Breaks(c)
    /\ UNCHANGED <<heldVars, blank, lapses, deaths>>

(* This record has had its turn.                                           *)
Passes(c, i) ==
    /\ todo' = [todo EXCEPT ![c] = @ \ {i}]
    /\ UNCHANGED <<filing, form, began, stage, saved>>

(* ... without a request.                                                  *)
Skips(c, i) ==
    /\ Passes(c, i)
    /\ UNCHANGED <<ids, heldVars, blank, lapses, deaths>>

-----------------------------------------------------------------------------
(* One request and its answer                                              *)

(* What Ejar answers a request for something it has already, or has not:   *)
(* a "conflict" names what exists, a "blank" one does not.  A document may *)
(* also be taken a second time.                                            *)
Answers(request, exists) ==
    IF request \in known \/ ~exists THEN {"ok"}
    ELSE {"conflict", "blank"} \cup (IF request.key[1] \in {"proxy", "signed"} THEN {"ok"} ELSE {})

Done(request, answer) == answer = "ok" /\ request \notin known

(* What the payload builders make of the records: their data as of now.    *)
Payload(c) == form[c]

Learnt(request, answer) == known' = IF answer = "ok" THEN known \cup {request} ELSE known

\* Faulty variant: a conflict raises.
TakesNew(c, i, h, answer, tolerated) ==
    \/ answer = "ok" /\ ids' = [ids EXCEPT ![c].of = @ \cup {h}] /\ Passes(c, i) /\ UNCHANGED blank
    \/ UNCHANGED <<ids, blank>> /\ Breaks(c)

(* What is done with the answer: it does not raise, and the identifier in  *)
(* it is kept as h; or it does, or is lost.                                *)
Takes(c, i, h, answer, tolerated) ==
    \/ /\ answer \in tolerated
       /\ IF answer # "blank" /\ h \in Identified
            THEN ids' = [ids EXCEPT ![c].of = @ \cup {h}] ELSE UNCHANGED ids
       /\ blank' = IF answer = "blank" /\ h \in Identified THEN blank \cup {c} ELSE blank
       /\ Passes(c, i)
    \/ UNCHANGED <<ids, blank>> /\ Breaks(c)

(* A request that adds h, as the form has it, to the contract's draft.     *)
Adds(c, i, key, h, tolerated) ==
    LET d == ids[c].draft
        request == About(d, key)
    IN /\ \E answer \in Answers(request, held[d][h] # 0) :
            /\ held' = IF Done(request, answer) THEN [held EXCEPT ![d][h] = Payload(c)] ELSE held
            /\ Learnt(request, answer)
            /\ Takes(c, i, h, answer, tolerated)
       /\ UNCHANGED <<drafts, filed, people, lapses, deaths>>

AtTurn(c, s, i) == stage[c] = s /\ i \in todo[c]
Has(c, h) == h \in ids[c].of

CreateEntity(c, p) ==
    /\ AtTurn(c, "entities", p)
    /\ \/ Has(c, <<"entity", p>>) /\ Skips(c, p)
       \/ /\ ~Has(c, <<"entity", p>>)
          /\ \E answer \in Answers(About(0, KeyEntity(p)), p \in people) :
               /\ people' = people \cup {p}
               /\ Learnt(About(0, KeyEntity(p)), answer)
               /\ Takes(c, p, <<"entity", p>>, answer, {"ok", "conflict"})
          /\ UNCHANGED <<drafts, held, filed, lapses, deaths>>

(* A request whose key is not known opens another draft, or one for the    *)
(* same terms is named in a conflict.                                      *)
CreateDraft(c) ==
    LET key == KeyCreate(c)
        remembered == {d \in Drafts : About(d, key) \in known}
        alike == {d \in 1 .. Len(drafts) : drafts[d] = Terms[c]}
        Named(d) == \/ ids' = [ids EXCEPT ![c].draft = d] /\ Passes(c, "contract")
                    \/ UNCHANGED ids /\ Breaks(c)
    IN /\ AtTurn(c, "contract", "contract")
       /\ \/ ids[c].draft # 0 /\ Passes(c, "contract") /\ UNCHANGED <<ids, drafts, known>>
          \/ /\ ids[c].draft = 0 /\ remembered = {} /\ Len(drafts) < MaxDrafts
             /\ drafts' = Append(drafts, Terms[c])
             /\ known' = known \cup {About(Len(drafts'), key)}
             /\ Named(Len(drafts'))
          \/ /\ ids[c].draft = 0
             /\ \E d \in IF remembered # {} THEN remembered ELSE alike : Named(d)
             /\ UNCHANGED <<drafts, known>>
       /\ UNCHANGED <<held, filed, people, blank, lapses, deaths>>

AttachUnit(c, u) ==
    /\ AtTurn(c, "units", u)
    /\ \/ Has(c, <<"unit", u>>) /\ Skips(c, u)
       \/ /\ ~Has(c, <<"unit", u>>) /\ u \in Portfolio
          /\ Adds(c, u, KeyAttach(u), <<"unit", u>>, {"ok", "conflict", "blank"})

\* Faulty variant: noted before it is sent, and kept if sending fails.
AddPartyNotedFirst(c, p) ==
    /\ AtTurn(c, "parties", p)
    /\ ids' = [ids EXCEPT ![c].of = @ \cup {<<"party", p>>}]
    /\ Passes(c, p) \/ Breaks(c)
    /\ UNCHANGED <<heldVars, blank, lapses, deaths>>

AddParty(c, p) ==
    /\ AtTurn(c, "parties", p)
    /\ \/ Has(c, <<"party", p>>) /\ Skips(c, p)
       \/ /\ ~Has(c, <<"party", p>>) /\ Has(c, <<"entity", p>>)
          /\ Adds(c, p, KeyParty(p), <<"party", p>>, {"ok", "conflict", "blank"})

\* Faulty variant: an upload that fails does not stop the pipeline.
UploadProxyOrNot(c, p) ==
    AtTurn(c, "proxies", p) /\ (Skips(c, p) \/ Adds(c, p, KeyProxy(p, form[c]), <<"proxy", p>>, {"ok"}))

(* Nothing is uploaded for a party whose identifier is not known.          *)
UploadProxy(c, p) ==
    /\ AtTurn(c, "proxies", p)
    /\ IF Has(c, <<"proxy", p>>) \/ ~Has(c, <<"party", p>>)
         THEN Skips(c, p)
         ELSE Adds(c, p, KeyProxy(p, form[c]), <<"proxy", p>>, {"ok"})

UploadSigned(c) ==
    /\ AtTurn(c, "signed", "contract")
    /\ Adds(c, "contract", KeySigned(form[c]), <<"signed", "contract">>, {"ok"})

AddFinancial(c) ==
    /\ AtTurn(c, "financial", "contract")
    /\ Adds(c, "contract", KeyFinancial, <<"financial", "contract">>, {"ok", "conflict", "blank"})

AddFee(c) ==
    /\ AtTurn(c, "fee", "contract")
    /\ Adds(c, "contract", KeyFee, <<"fee", "contract">>, {"ok", "conflict", "blank"})

(* A conflict is not put up with here: Ejar says it has been submitted.    *)
SubmitDraft(c) ==
    LET d == ids[c].draft IN
    /\ AtTurn(c, "submit", "contract")
    /\ \E answer \in Answers(About(d, KeySubmit), d \in filed) :
         /\ filed' = filed \cup {d}
         /\ Learnt(About(d, KeySubmit), answer)
         /\ Takes(c, "contract", <<"submitted", "contract">>, answer, {"ok"})
    /\ UNCHANGED <<drafts, held, people, lapses, deaths>>

-----------------------------------------------------------------------------
(* What happens around it                                                  *)

(* The process dies: what it had not committed is gone.                    *)
DieInPipeline(c) ==
    /\ stage[c] # "idle" /\ deaths < MaxDeaths
    /\ deaths' = deaths + 1
    /\ stage' = [stage EXCEPT ![c] = "idle"]
    /\ todo' = [todo EXCEPT ![c] = {}]
    /\ ids' = [ids EXCEPT ![c] = saved[c]]
    /\ UNCHANGED <<filing, form, began, saved, heldVars, blank, lapses>>

(* A day later.                                                            *)
KeysLapse ==
    /\ lapses < MaxLapses /\ known # {}
    /\ lapses' = lapses + 1
    /\ known' = {}
    /\ UNCHANGED <<odooVars, drafts, held, filed, people, blank, deaths>>

(* Ejar's registrar rejects it, and a poll tells; it is reset and, when    *)
(* its data has been put right, made ready again.                          *)
Reject(c) ==
    /\ filing[c] = "submitted"
    /\ filing' = [filing EXCEPT ![c] = "rejected"]
    /\ UNCHANGED <<form, began, stage, todo, ids, saved, heldVars, blank, lapses, deaths>>

ResetRejected(c) ==
    /\ filing[c] = "rejected"
    /\ filing' = [filing EXCEPT ![c] = "draft"]
    /\ UNCHANGED <<form, began, stage, todo, ids, saved, heldVars, blank, lapses, deaths>>

PutRight(c) ==
    /\ filing[c] = "draft"
    /\ filing' = [filing EXCEPT ![c] = "ready"]
    /\ form' = [form EXCEPT ![c] = IF @ < MaxForm THEN @ + 1 ELSE @]
    /\ UNCHANGED <<began, stage, todo, ids, saved, heldVars, blank, lapses, deaths>>

-----------------------------------------------------------------------------
Requests(c) ==
    \/ \E p \in Parties : CreateEntity(c, p) \/ AddParty(c, p)
    \/ \E p \in Representatives : UploadProxy(c, p)
    \/ \E u \in Units : AttachUnit(c, u)
    \/ CreateDraft(c) \/ UploadSigned(c) \/ AddFinancial(c) \/ AddFee(c) \/ SubmitDraft(c)

Pipeline(c) == StartFiling(c) \/ Requests(c) \/ StageDone(c) \/ FinalizeFiling(c)

FilingNext ==
    \/ \E c \in Contracts :
         \/ Pipeline(c) \/ RequestFails(c) \/ DieInPipeline(c)
         \/ Reject(c) \/ ResetRejected(c) \/ PutRight(c)
    \/ KeysLapse

FilingSpec == FilingInit /\ [][FilingNext]_filingVars

(* Pipelines go on and are started again, by the queue or by people; data  *)
(* that is checked passes; and the time comes when processes live and      *)
(* requests are granted.                                                   *)
Succeeds(c) == Pipeline(c) /\ filing'[c] \in {"submitting", "submitted"}
Trouble(c)  == stage[c] # "idle" /\ stage'[c] = "idle" /\ filing'[c] # "submitted"

FilingFairness ==
    /\ \A c \in Contracts : WF_filingVars(Succeeds(c))
    /\ <>[][\A c \in Contracts : ~Trouble(c)]_filingVars

FilingFairSpec == FilingSpec /\ FilingFairness

-----------------------------------------------------------------------------
(* What a filed contract has at Ejar.                                      *)
Needed == Holdings \ (IF HasFee THEN {} ELSE {<<"fee", "contract">>})

(* What is filed is complete: whatever failed, was lost, was repeated or   *)
(* was forgotten by Ejar on the way, a draft that is submitted holds all   *)
(* that a contract needs.  One gap is the code's own: a conflict that does *)
(* not name the party makes its contract skip that party's document        *)
(* (lifecycle_service.py:172-249, 420-426, 451-454).                       *)
FiledIsComplete ==
    \A d \in filed : \/ \E c \in blank : ids[c].draft = d
                     \/ \A h \in Needed : held[d][h] # 0

(* Whatever is remembered of a step has happened at Ejar, on the draft the *)
(* contract remembers: a retry never skips what was not done               *)
(* (lifecycle_service.py:349-430, 96-107).                                 *)
RememberedIsHeld ==
    \A c \in Contracts : \A h \in saved[c].of \cap Holdings :
        saved[c].draft # 0 /\ held[saved[c].draft][h] # 0

(* As long as Ejar knows the keys, no attempt opens a second draft for the *)
(* same terms, whenever the process died and whichever answer was lost     *)
(* (ejar_client.py:510-516, lifecycle_service.py:315-318).                 *)
OneDraftEach ==
    lapses = 0 => \A d1, d2 \in 1 .. Len(drafts) : drafts[d1] = drafts[d2] => d1 = d2

(* A contract whose submission was begun is submitted in the end, wherever *)
(* its pipeline broke off; unless Ejar has forgotten a key meanwhile: then the *)
(* conflict it answers with is not put up with                             *)
(* (lifecycle_service.py:96-107, 508-570).                                 *)
FilingEnds ==
    \A c \in Contracts :
        began[c] # 0 /\ filing[c] = "ready" ~> filing[c] = "submitted" \/ lapses > 0

-----------------------------------------------------------------------------
(* What the documentation says and the code does not do                    *)

(* ejar_contract.py:488, "rejected -> draft: fix data and resubmit": a     *)
(* pipeline that has submitted a contract has filed the financial          *)
(* information it started with, or later.                                  *)
FixIsFiled ==
    \A c \in Contracts :
        filing[c] = "submitted" => held[ids[c].draft][<<"financial", "contract">>] >= began[c]
=============================================================================
