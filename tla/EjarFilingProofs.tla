--------------------------- MODULE EjarFilingProofs ---------------------------
(***************************************************************************)
(* Proofs about EjarFiling, for any contracts, parties, units and terms:   *)
(* what a pipeline has passed, what a record remembers and what Ejar       *)
(* remembers of a key are all held by the contract's draft; hence what is  *)
(* filed is complete, and no key that is known opens a second draft.       *)
(***************************************************************************)
EXTENDS EjarFiling, TLAPS

Rank == [idle |-> 0, entities |-> 1, contract |-> 2, units |-> 3, parties |-> 4, proxies |-> 5,
         signed |-> 6, financial |-> 7, fee |-> 8, submit |-> 9, finalize |-> 10]

(* The record i has had its turn in stage s.                               *)
Over(c, s, i) == Rank[stage[c]] > Rank[s] \/ (stage[c] = s /\ i \notin todo[c])

Holds(d, h) == d # 0 /\ held[d][h] # 0

(* What a contract has to show for a turn that is over.                    *)
Met(c, s, i) ==
    LET d == ids[c].draft IN
    /\ s = "contract" => d # 0
    /\ s = "units" => Holds(d, <<"unit", i>>)
    /\ s = "parties" => Holds(d, <<"party", i>>) /\ (Has(c, <<"party", i>>) \/ c \in blank)
    /\ s = "proxies" => Holds(d, <<"proxy", i>>) \/ c \in blank
    /\ s \in {"signed", "financial", "fee"} => Holds(d, <<s, "contract">>)

Passed(c) == \A s \in FilingStages : \A i \in ItemsOf(s) : Over(c, s, i) => Met(c, s, i)

(* What is noted on the record, committed or not, is held by the draft.    *)
Noted(c) ==
    \A h \in Holdings : /\ h \in ids[c].of => Holds(ids[c].draft, h)
                        /\ h \in saved[c].of => Holds(saved[c].draft, h)

(* The draft is committed before anything is asked of it.                  *)
DraftSaved(c) ==
    /\ saved[c].draft \in {0, ids[c].draft}
    /\ c \in blank => saved[c].draft # 0
    /\ Rank[stage[c]] > 2 => saved[c].draft # 0

ContractOK(c) == Passed(c) /\ Noted(c) /\ DraftSaved(c)

(* Of which holding the request with this key is.                          *)
Kinds == {"unit", "party", "proxy", "signed", "financial", "fee"}
Holding(key) == <<key[1], IF key[1] \in {"unit", "party", "proxy"} THEN key[2] ELSE "contract">>

KnownIsHeld ==
    \A r \in known : r.key[1] \in Kinds =>
        r.draft \in Drafts /\ Holding(r.key) \in Holdings /\ Holds(r.draft, Holding(r.key))

KnownDrafts ==
    lapses = 0 => \A d \in 1 .. Len(drafts) : About(d, <<"create", drafts[d]>>) \in known

FilingInv ==
    /\ FilingTypeOK
    /\ \A c \in Contracts : ContractOK(c)
    /\ KnownIsHeld
    /\ KnownDrafts /\ OneDraftEach
    /\ FiledIsComplete

HeldGrows == \A d \in Drafts : \A h \in Holdings : Holds(d, h) => Holds(d, h)'

(* Nothing of contract x is written.                                       *)
Untouched(x) ==
    /\ ids'[x] = ids[x] /\ saved'[x] = saved[x] /\ stage'[x] = stage[x] /\ todo'[x] = todo[x]
    /\ x \in blank' <=> x \in blank

-----------------------------------------------------------------------------
(* The identifiers and the keys                                            *)

LEMMA Items ==
    /\ ItemsOf("entities") = Parties /\ ItemsOf("parties") = Parties
    /\ ItemsOf("units") = Units /\ ItemsOf("proxies") = Representatives
    /\ ItemsOf("contract") = {"contract"} /\ ItemsOf("signed") = {"contract"}
    /\ ItemsOf("financial") = {"contract"} /\ ItemsOf("submit") = {"contract"}
    /\ ItemsOf("fee") = (IF HasFee THEN {"contract"} ELSE {})
    /\ ItemsOf("finalize") = {}
  <1>1. ItemsOf("entities") = Parties /\ ItemsOf("parties") = Parties
    BY DEF ItemsOf
  <1>2. ItemsOf("units") = Units /\ ItemsOf("proxies") = Representatives
    BY DEF ItemsOf
  <1>3. /\ ItemsOf("contract") = {"contract"} /\ ItemsOf("signed") = {"contract"}
        /\ ItemsOf("financial") = {"contract"} /\ ItemsOf("submit") = {"contract"}
    BY DEF ItemsOf
  <1>4. ItemsOf("fee") = (IF HasFee THEN {"contract"} ELSE {})
    BY DEF ItemsOf
  <1>5. ItemsOf("finalize") = {}
    BY DEF ItemsOf
  <1>6. QED
    BY <1>1, <1>2, <1>3, <1>4, <1>5

LEMMA ItemsTyped ==
    \A s \in FilingStages : ItemsOf(s) \subseteq Parties \cup Units \cup {"contract"}
  BY Items, FilingAssumption DEF FilingStages, FilingAssumption

LEMMA Ranks ==
    /\ \A s \in FilingStages : Rank[s] \in 1 .. 10 /\ (Rank[s] > 2 => s \notin {"entities", "contract"})
    /\ Rank["idle"] = 0
    /\ \A s \in FilingStages \ {"finalize"} :
         StageAfter[s] \in FilingStages /\ Rank[StageAfter[s]] = Rank[s] + 1
    /\ \A s, t \in FilingStages : Rank[s] = Rank[t] => s = t
  BY DEF Rank, FilingStages, StageAfter

LEMMA HoldingsAre ==
    /\ \A u \in Units : <<"unit", u>> \in Holdings \cap Identified
    /\ \A p \in Parties : <<"party", p>> \in Holdings \cap Identified
    /\ \A p \in Representatives : <<"proxy", p>> \in Holdings \cap Identified
    /\ \A k \in {"signed", "financial", "fee"} : <<k, "contract">> \in Holdings \ Identified
    /\ \A p \in Parties : <<"entity", p>> \in Identified \ Holdings
    /\ <<"submitted", "contract">> \notin Identified
  BY DEF Holdings, Identified, OfUnits, OfParties, OfProxies, Whole

LEMMA HoldingOfKeys ==
    /\ \A u : KeyAttach(u)[1] = "unit" /\ Holding(KeyAttach(u)) = <<"unit", u>>
    /\ \A p : KeyParty(p)[1] = "party" /\ Holding(KeyParty(p)) = <<"party", p>>
    /\ \A p, v : KeyProxy(p, v)[1] = "proxy" /\ Holding(KeyProxy(p, v)) = <<"proxy", p>>
    /\ \A v : KeySigned(v)[1] = "signed" /\ Holding(KeySigned(v)) = <<"signed", "contract">>
    /\ KeyFinancial[1] = "financial" /\ Holding(KeyFinancial) = <<"financial", "contract">>
    /\ KeyFee[1] = "fee" /\ Holding(KeyFee) = <<"fee", "contract">>
  BY DEF Holding, KeyAttach, KeyParty, KeyProxy, KeySigned, KeyFinancial, KeyFee

LEMMA OtherKeys ==
    /\ \A p : KeyEntity(p)[1] \notin Kinds
    /\ \A c : KeyCreate(c)[1] \notin Kinds
    /\ KeySubmit[1] \notin Kinds
  BY DEF KeyEntity, KeyOrganization, KeyIndividual, KeyCreate, KeySubmit, Kinds

-----------------------------------------------------------------------------
(* One contract at a time                                                  *)

LEMMA UntouchedKeeps ==
  ASSUME NEW x \in Contracts, ContractOK(x), Untouched(x), HeldGrows,
         FilingTypeOK
  PROVE  ContractOK(x)'
  <1>0. /\ ids'[x].draft = ids[x].draft /\ ids'[x].of = ids[x].of
        /\ (x \in blank)' = (x \in blank)
    BY DEF Untouched
  <1>1. ids[x].draft \in Drafts \cup {0} /\ saved[x].draft \in Drafts \cup {0}
    BY DEF FilingTypeOK
  <1>2. \A h \in Holdings :
          /\ Holds(ids[x].draft, h) => Holds(ids[x].draft, h)'
          /\ Holds(saved[x].draft, h) => Holds(saved[x].draft, h)'
    BY <1>1 DEF HeldGrows, Holds, Untouched
  <1>3. ASSUME NEW s \in FilingStages, NEW i \in ItemsOf(s), Over(x, s, i)'
        PROVE  Met(x, s, i)'
    <2>1. Over(x, s, i) /\ Met(x, s, i)
      BY <1>3 DEF ContractOK, Passed, Over, Untouched
    <2>2. i \in ItemsOf(s)
      OBVIOUS
    <2>3. CASE s = "units"
      <3>1. <<"unit", i>> \in Holdings
        BY <2>3, <2>2, Items, HoldingsAre
      <3>2. QED
        BY <2>1, <2>3, <3>1, <1>0, <1>2 DEF Met, Holds
    <2>4. CASE s = "parties"
      <3>1. <<"party", i>> \in Holdings
        BY <2>4, <2>2, Items, HoldingsAre
      <3>2. QED
        BY <2>1, <2>4, <3>1, <1>0, <1>2 DEF Met, Holds, Has
    <2>5. CASE s = "proxies"
      <3>1. <<"proxy", i>> \in Holdings
        BY <2>5, <2>2, Items, HoldingsAre
      <3>2. QED
        BY <2>1, <2>5, <3>1, <1>0, <1>2 DEF Met, Holds
    <2>6. CASE s \in {"signed", "financial", "fee"}
      <3>1. <<s, "contract">> \in Holdings
        BY <2>6, HoldingsAre
      <3>2. QED
        BY <2>1, <2>6, <3>1, <1>0, <1>2 DEF Met, Holds
    <2>7. CASE s \in {"entities", "contract", "submit", "finalize"}
      BY <2>1, <2>7, <1>0 DEF Met, Holds
    <2>8. QED
      BY <2>3, <2>4, <2>5, <2>6, <2>7 DEF FilingStages
  <1>4. Passed(x)'
    BY <1>3 DEF Passed
  <1>5. Noted(x)'
    BY <1>2 DEF ContractOK, Noted, Untouched
  <1>6. DraftSaved(x)'
    BY DEF ContractOK, DraftSaved, Untouched
  <1>7. QED
    BY <1>4, <1>5, <1>6 DEF ContractOK

(* A turn is over: the contract has to show for it.                        *)
LEMMA PassKeeps ==
  ASSUME NEW c \in Contracts, NEW i, ContractOK(c), FilingTypeOK, HeldGrows,
         stage'[c] = stage[c], stage[c] \in FilingStages,
         todo'[c] = todo[c] \ {i}, ids'[c].draft = ids[c].draft,
         ids[c].of \subseteq ids'[c].of, blank \subseteq blank',
         Met(c, stage[c], i)'
  PROVE  Passed(c)'
  <1> DEFINE d == ids[c].draft
  <1>1. d \in Drafts \cup {0}
    BY DEF FilingTypeOK
  <1>2. \A h \in Holdings : Holds(d, h) => Holds(ids[c].draft, h)'
    BY <1>1 DEF HeldGrows, Holds
  <1> HIDE DEF d
  <1>3. SUFFICES ASSUME NEW s \in FilingStages, NEW j \in ItemsOf(s), Over(c, s, j)',
                        ~(s = stage[c] /\ j = i)
                 PROVE  Met(c, s, j)'
    BY DEF Passed
  <1>4. Over(c, s, j)
    BY <1>3 DEF Over
  <1>5. Met(c, s, j)
    BY <1>4 DEF ContractOK, Passed
  <1>6. j \in ItemsOf(s)
    OBVIOUS
  <1>7. CASE s = "units"
    <2>1. <<"unit", j>> \in Holdings
      BY <1>7, <1>6, Items, HoldingsAre
    <2>2. QED
      BY <1>5, <1>7, <2>1, <1>2 DEF Met, Holds, d
  <1>8. CASE s = "parties"
    <2>1. <<"party", j>> \in Holdings
      BY <1>8, <1>6, Items, HoldingsAre
    <2>2. QED
      BY <1>5, <1>8, <2>1, <1>2 DEF Met, Holds, Has, d
  <1>9. CASE s = "proxies"
    <2>1. <<"proxy", j>> \in Holdings
      BY <1>9, <1>6, Items, HoldingsAre
    <2>2. QED
      BY <1>5, <1>9, <2>1, <1>2 DEF Met, Holds, d
  <1>10. CASE s \in {"signed", "financial", "fee"}
    <2>1. <<s, "contract">> \in Holdings
      BY <1>10, HoldingsAre
    <2>2. QED
      BY <1>5, <1>10, <2>1, <1>2 DEF Met, Holds, d
  <1>11. CASE s \in {"entities", "contract", "submit", "finalize"}
    BY <1>5, <1>11 DEF Met, Holds, d
  <1>12. QED
    BY <1>7, <1>8, <1>9, <1>10, <1>11 DEF FilingStages

(* The pipeline is over: nothing is claimed of turns.                      *)
LEMMA IdlePassed ==
  ASSUME NEW c \in Contracts, stage'[c] = "idle"
  PROVE  Passed(c)'
  <1>1. \A s \in FilingStages : s # "idle" /\ ~(Rank["idle"] > Rank[s])
    BY Ranks DEF FilingStages
  <1>2. \A s \in FilingStages : \A i : ~Over(c, s, i)'
    BY <1>1 DEF Over
  <1>3. QED
    BY <1>2 DEF Passed

(* ... and ends with a commit.                                             *)
LEMMA EndKeeps ==
  ASSUME NEW c \in Contracts, ContractOK(c), FilingTypeOK, HeldGrows,
         stage'[c] = "idle", ids'[c] = ids[c], saved'[c] = ids[c],
         c \in blank' => ids[c].draft # 0
  PROVE  ContractOK(c)'
  <1>1. Passed(c)'
    BY IdlePassed
  <1>2. Noted(c)'
    BY DEF ContractOK, Noted, HeldGrows, Holds, FilingTypeOK
  <1>3. DraftSaved(c)'
    BY Ranks DEF DraftSaved
  <1>4. QED
    BY <1>1, <1>2, <1>3 DEF ContractOK

(* What was filed stays complete.                                          *)
LEMMA FiledKeeps ==
  ASSUME FilingTypeOK, FiledIsComplete, HeldGrows, filed' = filed, blank \subseteq blank',
         \A x \in blank : ids'[x].draft = ids[x].draft
  PROVE  FiledIsComplete'
  <1>1. \A d \in filed : \A h \in Needed : d \in Drafts /\ h \in Holdings /\ d # 0
    BY DEF FilingTypeOK, Needed, Drafts
  <1>2. \A d \in filed : \A h \in Needed : held[d][h] # 0 => held'[d][h] # 0
    BY <1>1 DEF HeldGrows, Holds
  <1>3. QED
    BY <1>2 DEF FiledIsComplete

LEMMA KnownKeeps ==
  ASSUME FilingTypeOK, KnownIsHeld, HeldGrows, NEW d, NEW key,
         known' \subseteq known \cup {About(d, key)},
         key[1] \in Kinds => d \in Drafts /\ Holding(key) \in Holdings /\ Holds(d, Holding(key))'
  PROVE  KnownIsHeld'
  <1>1. SUFFICES ASSUME NEW r \in known', r.key[1] \in Kinds
                 PROVE  r.draft \in Drafts /\ Holding(r.key) \in Holdings /\ Holds(r.draft, Holding(r.key))'
    BY DEF KnownIsHeld, Holding
  <1>2. CASE r \in known
    <2>1. r.draft \in Drafts /\ Holding(r.key) \in Holdings /\ Holds(r.draft, Holding(r.key))
      BY <1>2, <1>1 DEF KnownIsHeld
    <2>2. QED
      BY <2>1 DEF HeldGrows
  <1>3. CASE r = About(d, key)
    <2>1. r.draft = d /\ r.key = key
      BY <1>3 DEF About
    <2>2. QED
      BY <1>1, <2>1
  <1>4. QED
    BY <1>2, <1>3

-----------------------------------------------------------------------------
(* Types                                                                   *)

OdooTypeOK ==
    /\ filing \in [Contracts -> {"draft", "ready", "submitting", "submitted", "rejected"}]
    /\ form \in [Contracts -> Forms]
    /\ began \in [Contracts -> Forms \cup {0}]
    /\ stage \in [Contracts -> FilingStages \cup {"idle"}]
    /\ todo \in [Contracts -> SUBSET (Parties \cup Units \cup {"contract"})]
    /\ saved \in [Contracts -> [draft : Drafts \cup {0}, of : SUBSET Identified]]

LEMMA PassesTyped ==
  ASSUME FilingTypeOK, NEW c \in Contracts, NEW i, Passes(c, i)
  PROVE  OdooTypeOK'
  BY DEF FilingTypeOK, OdooTypeOK, Passes

LEMMA CommitTyped ==
  ASSUME FilingTypeOK, NEW c \in Contracts, Commit(c),
         ids' \in [Contracts -> [draft : Drafts \cup {0}, of : SUBSET Identified]] \/ ids' = ids
  PROVE  saved' \in [Contracts -> [draft : Drafts \cup {0}, of : SUBSET Identified]]
  <1>1. \A r \in {ids, saved} : r \in [Contracts -> [draft : Drafts \cup {0}, of : SUBSET Identified]]
    BY DEF FilingTypeOK
  <1>2. ids' \in [Contracts -> [draft : Drafts \cup {0}, of : SUBSET Identified]]
    BY <1>1
  <1>3. ids'[c] \in [draft : Drafts \cup {0}, of : SUBSET Identified]
    BY <1>2
  <1>4. QED
    BY <1>1, <1>3 DEF Commit

LEMMA BreaksTyped ==
  ASSUME FilingTypeOK, NEW c \in Contracts, Breaks(c),
         ids' \in [Contracts -> [draft : Drafts \cup {0}, of : SUBSET Identified]]
  PROVE  OdooTypeOK'
  <1>1. saved' \in [Contracts -> [draft : Drafts \cup {0}, of : SUBSET Identified]]
    BY CommitTyped DEF Breaks
  <1>2. /\ filing' \in [Contracts -> {"draft", "ready", "submitting", "submitted", "rejected"}]
        /\ form' = form /\ began' = began
        /\ stage' \in [Contracts -> FilingStages \cup {"idle"}]
        /\ todo' \in [Contracts -> SUBSET (Parties \cup Units \cup {"contract"})]
    BY DEF FilingTypeOK, Breaks
  <1>3. QED
    BY <1>1, <1>2 DEF FilingTypeOK, OdooTypeOK

LEMMA OdooTypes ==
  ASSUME FilingTypeOK, NEW c \in Contracts,
         \/ StartFiling(c) \/ StageDone(c) \/ FinalizeFiling(c) \/ RequestFails(c)
         \/ DieInPipeline(c) \/ Reject(c) \/ ResetRejected(c) \/ PutRight(c)
  PROVE  FilingTypeOK'
  <1>1. CASE StartFiling(c)
    <2>1. /\ form' = form /\ ids' = ids /\ saved' = saved /\ drafts' = drafts /\ held' = held
          /\ filed' = filed /\ people' = people /\ blank' = blank /\ lapses' = lapses /\ deaths' = deaths
      BY <1>1 DEF StartFiling, heldVars
    <2>2. began' \in [Contracts -> Forms \cup {0}]
      <3>1. began \in [Contracts -> Forms \cup {0}] /\ form \in [Contracts -> Forms]
        BY DEF FilingTypeOK
      <3>2. QED
        BY <1>1, <3>1 DEF StartFiling
    <2>3. filing' \in [Contracts -> {"draft", "ready", "submitting", "submitted", "rejected"}]
      <3>1. filing \in [Contracts -> {"draft", "ready", "submitting", "submitted", "rejected"}]
        BY DEF FilingTypeOK
      <3>2. QED
        BY <1>1, <3>1 DEF StartFiling
    <2>4. stage' \in [Contracts -> FilingStages \cup {"idle"}]
      <3>1. stage \in [Contracts -> FilingStages \cup {"idle"}] /\ "entities" \in FilingStages
        BY DEF FilingTypeOK, FilingStages
      <3>2. QED
        BY <1>1, <3>1 DEF StartFiling
    <2>5. todo' \in [Contracts -> SUBSET (Parties \cup Units \cup {"contract"})]
      <3>1. todo \in [Contracts -> SUBSET (Parties \cup Units \cup {"contract"})]
        BY DEF FilingTypeOK
      <3>2. QED
        BY <1>1, <3>1 DEF StartFiling
    <2>6. QED
      BY <2>1, <2>2, <2>3, <2>4, <2>5 DEF FilingTypeOK
  <1>2. CASE StageDone(c)
    <2>1. StageAfter[stage[c]] \in FilingStages
      BY <1>2, Ranks DEF StageDone, FilingTypeOK
    <2>2. ItemsOf(StageAfter[stage[c]]) \subseteq Parties \cup Units \cup {"contract"}
      BY <2>1, ItemsTyped
    <2>3. /\ filing' = filing /\ form' = form /\ began' = began /\ ids' = ids
          /\ UNCHANGED heldVars /\ blank' = blank /\ lapses' = lapses /\ deaths' = deaths
          /\ stage' = [stage EXCEPT ![c] = StageAfter[stage[c]]]
          /\ todo' = [todo EXCEPT ![c] = ItemsOf(StageAfter[stage[c]])] /\ Commit(c)
      BY <1>2 DEF StageDone
    <2>4. stage' \in [Contracts -> FilingStages \cup {"idle"}]
      <3>1. stage \in [Contracts -> FilingStages \cup {"idle"}]
        BY DEF FilingTypeOK
      <3>2. QED
        BY <2>1, <2>3, <3>1
    <2>5. todo' \in [Contracts -> SUBSET (Parties \cup Units \cup {"contract"})]
      <3>1. todo \in [Contracts -> SUBSET (Parties \cup Units \cup {"contract"})]
        BY DEF FilingTypeOK
      <3>2. QED
        BY <2>2, <2>3, <3>1
    <2>6. saved' \in [Contracts -> [draft : Drafts \cup {0}, of : SUBSET Identified]]
      BY <2>3, CommitTyped
    <2>7. QED
      BY <2>3, <2>4, <2>5, <2>6 DEF FilingTypeOK, heldVars
  <1>3. CASE FinalizeFiling(c)
    <2>1. /\ filing' = [filing EXCEPT ![c] = "submitted"] /\ stage' = [stage EXCEPT ![c] = "idle"]
          /\ form' = form /\ began' = began /\ todo' = todo /\ ids' = ids /\ Commit(c)
          /\ UNCHANGED heldVars /\ blank' = blank /\ lapses' = lapses /\ deaths' = deaths
      BY <1>3 DEF FinalizeFiling
    <2>2. filing' \in [Contracts -> {"draft", "ready", "submitting", "submitted", "rejected"}]
      BY <2>1 DEF FilingTypeOK
    <2>3. stage' \in [Contracts -> FilingStages \cup {"idle"}]
      BY <2>1 DEF FilingTypeOK
    <2>4. saved' \in [Contracts -> [draft : Drafts \cup {0}, of : SUBSET Identified]]
      BY <2>1, CommitTyped
    <2>5. QED
      BY <2>1, <2>2, <2>3, <2>4 DEF FilingTypeOK, heldVars
  <1>4. CASE RequestFails(c)
    <2>1. /\ Breaks(c) /\ ids' = ids /\ UNCHANGED heldVars
          /\ blank' = blank /\ lapses' = lapses /\ deaths' = deaths
      BY <1>4 DEF RequestFails
    <2>2. ids' \in [Contracts -> [draft : Drafts \cup {0}, of : SUBSET Identified]]
      BY <2>1 DEF FilingTypeOK
    <2>3. OdooTypeOK'
      BY <2>1, <2>2, BreaksTyped
    <2>4. QED
      BY <2>1, <2>2, <2>3 DEF FilingTypeOK, OdooTypeOK, heldVars
  <1>5. CASE DieInPipeline(c)
    <2>1. /\ filing' = filing /\ form' = form /\ began' = began /\ saved' = saved
          /\ UNCHANGED heldVars /\ blank' = blank /\ lapses' = lapses
      BY <1>5 DEF DieInPipeline
    <2>2. stage' \in [Contracts -> FilingStages \cup {"idle"}]
      BY <1>5 DEF DieInPipeline, FilingTypeOK
    <2>3. todo' \in [Contracts -> SUBSET (Parties \cup Units \cup {"contract"})]
      BY <1>5 DEF DieInPipeline, FilingTypeOK
    <2>4. ids' \in [Contracts -> [draft : Drafts \cup {0}, of : SUBSET Identified]]
      <3>1. \A r \in {ids, saved} : r \in [Contracts -> [draft : Drafts \cup {0}, of : SUBSET Identified]]
        BY DEF FilingTypeOK
      <3>2. ids' = [ids EXCEPT ![c] = saved[c]]
        BY <1>5 DEF DieInPipeline
      <3>3. QED
        BY <3>1, <3>2
    <2>5. deaths' \in 0 .. MaxDeaths
      BY <1>5, FilingAssumption DEF FilingTypeOK, DieInPipeline, FilingAssumption
    <2>6. QED
      BY <2>1, <2>2, <2>3, <2>4, <2>5 DEF FilingTypeOK, heldVars
  <1>6. CASE Reject(c) \/ ResetRejected(c)
    <2>1. filing' \in [Contracts -> {"draft", "ready", "submitting", "submitted", "rejected"}]
      BY <1>6 DEF FilingTypeOK, Reject, ResetRejected
    <2>2. UNCHANGED <<form, began, stage, todo, ids, saved, heldVars, blank, lapses, deaths>>
      BY <1>6 DEF Reject, ResetRejected
    <2>3. QED
      BY <2>1, <2>2 DEF FilingTypeOK, heldVars
  <1>7. CASE PutRight(c)
    BY <1>7, FilingAssumption DEF FilingTypeOK, PutRight, Forms, heldVars, FilingAssumption
  <1>8. QED
    BY <1>1, <1>2, <1>3, <1>4, <1>5, <1>6, <1>7

(* What a contract's row says after an identifier is noted on it.          *)
LEMMA DraftNoted ==
  ASSUME FilingTypeOK, NEW c \in Contracts, NEW d \in Drafts
  PROVE  [ids EXCEPT ![c].draft = d] \in [Contracts -> [draft : Drafts \cup {0}, of : SUBSET Identified]]
  <1>1. ids \in [Contracts -> [draft : Drafts \cup {0}, of : SUBSET Identified]]
    BY DEF FilingTypeOK
  <1>2. [ids[c] EXCEPT !.draft = d] \in [draft : Drafts \cup {0}, of : SUBSET Identified]
    BY <1>1
  <1>3. QED
    BY <1>1, <1>2

LEMMA HoldingNoted ==
  ASSUME FilingTypeOK, NEW c \in Contracts, NEW h \in Identified
  PROVE  [ids EXCEPT ![c].of = @ \cup {h}] \in [Contracts -> [draft : Drafts \cup {0}, of : SUBSET Identified]]
  <1>1. ids \in [Contracts -> [draft : Drafts \cup {0}, of : SUBSET Identified]]
    BY DEF FilingTypeOK
  <1>2. [ids[c] EXCEPT !.of = @ \cup {h}] \in [draft : Drafts \cup {0}, of : SUBSET Identified]
    BY <1>1
  <1>3. QED
    BY <1>1, <1>2

LEMMA TakesTyped ==
  ASSUME FilingTypeOK, NEW c \in Contracts, NEW i, NEW h, NEW answer, NEW tolerated,
         Takes(c, i, h, answer, tolerated)
  PROVE  /\ OdooTypeOK'
         /\ ids' \in [Contracts -> [draft : Drafts \cup {0}, of : SUBSET Identified]]
         /\ blank' \subseteq Contracts
  <1>1. /\ ids' \in [Contracts -> [draft : Drafts \cup {0}, of : SUBSET Identified]]
        /\ blank' \subseteq Contracts
    <2>1. ids \in [Contracts -> [draft : Drafts \cup {0}, of : SUBSET Identified]] /\ blank \subseteq Contracts
      BY DEF FilingTypeOK
    <2>2. \/ ids' = ids
          \/ h \in Identified /\ ids' = [ids EXCEPT ![c].of = @ \cup {h}]
      BY DEF Takes
    <2>3. blank' = blank \/ blank' = blank \cup {c}
      BY DEF Takes
    <2>4. QED
      BY <2>1, <2>2, <2>3, HoldingNoted
  <1>2. Passes(c, i) \/ Breaks(c)
    BY DEF Takes
  <1>3. QED
    BY <1>1, <1>2, PassesTyped, BreaksTyped

LEMMA AddsTyped ==
  ASSUME FilingTypeOK, NEW c \in Contracts, ids[c].draft \in Drafts,
         NEW i, NEW key, NEW h \in Holdings, NEW tolerated, Adds(c, i, key, h, tolerated)
  PROVE  FilingTypeOK'
  <1>1. PICK answer \in Answers(About(ids[c].draft, key), held[ids[c].draft][h] # 0) :
          /\ held' = IF Done(About(ids[c].draft, key), answer)
                       THEN [held EXCEPT ![ids[c].draft][h] = Payload(c)] ELSE held
          /\ Takes(c, i, h, answer, tolerated)
    BY DEF Adds
  <1>2. Payload(c) \in Forms
    BY DEF Payload, FilingTypeOK
  <1>3. held' \in [Drafts -> [Holdings -> Forms \cup {0}]]
    BY <1>1, <1>2 DEF FilingTypeOK
  <1>4. drafts' = drafts /\ filed' = filed /\ people' = people /\ lapses' = lapses /\ deaths' = deaths
    BY DEF Adds
  <1>5. QED
    BY <1>1, <1>3, <1>4, TakesTyped DEF FilingTypeOK, OdooTypeOK

LEMMA RequestsTyped ==
  ASSUME FilingTypeOK, NEW c \in Contracts,
         \/ \E p \in Parties : CreateEntity(c, p)
         \/ CreateDraft(c) \/ (ids[c].draft \in Drafts /\ SubmitDraft(c))
  PROVE  FilingTypeOK'
  <1>1. ASSUME NEW p \in Parties, CreateEntity(c, p)
        PROVE  FilingTypeOK'
    <2>1. CASE Skips(c, p)
      BY <2>1 DEF FilingTypeOK, Skips, Passes, heldVars
    <2>2. CASE ~Skips(c, p)
      <3>1. PICK answer : Takes(c, p, <<"entity", p>>, answer, {"ok", "conflict"})
        BY <1>1, <2>2 DEF CreateEntity
      <3>2. /\ people' = people \cup {p} /\ drafts' = drafts /\ held' = held
            /\ filed' = filed /\ lapses' = lapses /\ deaths' = deaths
        BY <1>1, <2>2 DEF CreateEntity
      <3>3. QED
        BY <3>1, <3>2, TakesTyped DEF FilingTypeOK, OdooTypeOK
    <2>3. QED
      BY <2>1, <2>2
  <1>2. CASE CreateDraft(c)
    <2>1. held' = held /\ filed' = filed /\ people' = people /\ blank' = blank
          /\ lapses' = lapses /\ deaths' = deaths
      BY <1>2 DEF CreateDraft
    <2>2. CASE Passes(c, "contract") /\ UNCHANGED <<ids, drafts, known>>
      BY <2>1, <2>2 DEF FilingTypeOK, Passes
    <2>3. ASSUME NEW d \in Drafts,
                 \/ ids' = [ids EXCEPT ![c].draft = d] /\ Passes(c, "contract")
                 \/ UNCHANGED ids /\ Breaks(c),
                 drafts' \in Seq({Terms[x] : x \in Contracts}), Len(drafts') <= MaxDrafts
          PROVE  FilingTypeOK'
      <3>1. ids' \in [Contracts -> [draft : Drafts \cup {0}, of : SUBSET Identified]]
        <4>1. CASE ids' = ids
          BY <4>1 DEF FilingTypeOK
        <4>2. CASE ids' = [ids EXCEPT ![c].draft = d]
          BY <4>2, DraftNoted
        <4>3. QED
          BY <2>3, <4>1, <4>2
      <3>2. OdooTypeOK'
        BY <2>3, <3>1, PassesTyped, BreaksTyped
      <3>3. QED
        BY <2>1, <2>3, <3>1, <3>2 DEF FilingTypeOK, OdooTypeOK
    <2>4. CASE /\ Len(drafts) < MaxDrafts
               /\ drafts' = Append(drafts, Terms[c])
               /\ \/ ids' = [ids EXCEPT ![c].draft = Len(drafts')] /\ Passes(c, "contract")
                  \/ UNCHANGED ids /\ Breaks(c)
      <3>1. /\ drafts' \in Seq({Terms[x] : x \in Contracts})
            /\ Len(drafts') = Len(drafts) + 1 /\ Len(drafts) \in Nat
        BY <2>4 DEF FilingTypeOK
      <3>2. Len(drafts') \in Drafts /\ Len(drafts') <= MaxDrafts
        BY <2>4, <3>1, FilingAssumption DEF Drafts, FilingAssumption
      <3>3. QED
        BY <2>3, <2>4, <3>1, <3>2
    <2>5. CASE /\ drafts' = drafts
               /\ \E d \in Drafts :
                    \/ ids' = [ids EXCEPT ![c].draft = d] /\ Passes(c, "contract")
                    \/ UNCHANGED ids /\ Breaks(c)
      BY <2>3, <2>5 DEF FilingTypeOK
    <2>6. \A d \in 1 .. Len(drafts) : d \in Drafts
      BY FilingAssumption DEF FilingTypeOK, Drafts, FilingAssumption
    <2>7. QED
      BY <1>2, <2>2, <2>4, <2>5, <2>6 DEF CreateDraft
  <1>3. CASE ids[c].draft \in Drafts /\ SubmitDraft(c)
    <2>1. PICK answer : Takes(c, "contract", <<"submitted", "contract">>, answer, {"ok"})
      BY <1>3 DEF SubmitDraft
    <2>2. /\ filed' = filed \cup {ids[c].draft} /\ drafts' = drafts /\ held' = held
          /\ people' = people /\ lapses' = lapses /\ deaths' = deaths
      BY <1>3 DEF SubmitDraft
    <2>3. QED
      BY <1>3, <2>1, <2>2, TakesTyped DEF FilingTypeOK, OdooTypeOK
  <1>4. QED
    BY <1>1, <1>2, <1>3

-----------------------------------------------------------------------------
(* Requests                                                                *)

(* The answer to a request is taken: its turn is over, or the pipeline.    *)
LEMMA TakesKeeps ==
  ASSUME FilingInv, HeldGrows, NEW c \in Contracts, stage[c] \in FilingStages,
         NEW i, NEW h, NEW answer, NEW tolerated,
         Takes(c, i, h, answer, tolerated),
         "blank" \in tolerated => Rank[stage[c]] > 2,
         answer \in tolerated /\ h \in Holdings => Holds(ids[c].draft, h)',
         /\ answer \in tolerated /\ ids'[c].draft = ids[c].draft /\ stage'[c] = stage[c]
         /\ h \in Identified => h \in ids'[c].of \/ c \in blank'
         => Met(c, stage[c], i)'
  PROVE  /\ \A x \in Contracts : ContractOK(x)' /\ ids'[x].draft = ids[x].draft
         /\ blank \subseteq blank'
  <1>1. FilingTypeOK /\ \A x \in Contracts : ContractOK(x)
    BY DEF FilingInv
  <1>2. CASE UNCHANGED <<ids, blank>> /\ Breaks(c)
    <2>1. \A x \in Contracts \ {c} : Untouched(x)
      BY <1>1, <1>2 DEF FilingTypeOK, Breaks, Commit, Untouched
    <2>2. stage'[c] = "idle" /\ ids'[c] = ids[c] /\ saved'[c] = ids[c]
      BY <1>1, <1>2 DEF FilingTypeOK, Breaks, Commit
    <2>3. c \in blank' => ids[c].draft # 0
      BY <1>1, <1>2 DEF ContractOK, DraftSaved
    <2>4. ContractOK(c)'
      BY <1>1, <2>2, <2>3, EndKeeps
    <2>5. QED
      BY <1>1, <1>2, <2>1, <2>4, UntouchedKeeps
  <1>3. CASE /\ answer \in tolerated
             /\ IF answer # "blank" /\ h \in Identified
                  THEN ids' = [ids EXCEPT ![c].of = @ \cup {h}] ELSE UNCHANGED ids
             /\ blank' = IF answer = "blank" /\ h \in Identified THEN blank \cup {c} ELSE blank
             /\ Passes(c, i)
    <2>1. \A x \in Contracts \ {c} : ids'[x] = ids[x] /\ (x \in blank')= (x \in blank)
      BY <1>1, <1>3 DEF FilingTypeOK
    <2>2. /\ ids'[c].draft = ids[c].draft /\ ids[c].of \subseteq ids'[c].of
          /\ ids'[c].of \subseteq ids[c].of \cup {h}
      BY <1>1, <1>3 DEF FilingTypeOK
    <2>3. h \in Identified => h \in ids'[c].of \/ c \in blank'
      BY <1>1, <1>3 DEF FilingTypeOK
    <2>4. /\ stage' = stage /\ saved' = saved /\ todo'[c] = todo[c] \ {i}
          /\ \A x \in Contracts \ {c} : todo'[x] = todo[x]
      BY <1>1, <1>3 DEF FilingTypeOK, Passes
    <2>5. \A x \in Contracts \ {c} : ContractOK(x)'
      BY <1>1, <2>1, <2>4, UntouchedKeeps DEF Untouched
    <2>6. blank \subseteq blank'
      BY <1>3
    <2>7. Met(c, stage[c], i)'
      BY <1>3, <2>2, <2>3, <2>4
    <2>8. Passed(c)'
      BY <1>1, <2>2, <2>4, <2>6, <2>7, PassKeeps
    <2>9. Noted(c)'
      <3>1. SUFFICES ASSUME NEW g \in Holdings
                     PROVE  /\ g \in ids'[c].of => Holds(ids[c].draft, g)'
                            /\ g \in saved[c].of => Holds(saved[c].draft, g)'
        BY <2>2, <2>4 DEF Noted, Holds
      <3>2. /\ g \in ids[c].of => Holds(ids[c].draft, g)
            /\ g \in saved[c].of => Holds(saved[c].draft, g)
        BY <1>1 DEF ContractOK, Noted
      <3>3. ids[c].draft \in Drafts \cup {0} /\ saved[c].draft \in Drafts \cup {0}
        BY <1>1 DEF FilingTypeOK
      <3>4. g \in ids[c].of => Holds(ids[c].draft, g)'
        BY <2>2, <3>2, <3>3 DEF HeldGrows, Holds
      <3>5. g \in saved[c].of => Holds(saved[c].draft, g)'
        BY <2>4, <3>2, <3>3 DEF HeldGrows, Holds
      <3>6. g = h => Holds(ids[c].draft, g)'
        BY <1>3
      <3>7. QED
        BY <2>2, <3>4, <3>5, <3>6
    <2>10. DraftSaved(c)'
      <3>1. c \in blank' => saved[c].draft # 0
        BY <1>1, <1>3 DEF ContractOK, DraftSaved
      <3>2. QED
        BY <1>1, <2>2, <2>4, <3>1 DEF ContractOK, DraftSaved
    <2>11. QED
      BY <2>1, <2>2, <2>5, <2>6, <2>8, <2>9, <2>10 DEF ContractOK
  <1>4. QED
    BY <1>2, <1>3 DEF Takes

LEMMA Sums ==
  ASSUME FilingInv, FilingTypeOK', \A x \in Contracts : ContractOK(x)', KnownIsHeld',
         KnownDrafts', OneDraftEach', FiledIsComplete'
  PROVE  FilingInv'
  BY DEF FilingInv

(* A request adds h to the draft, or it was there before.                  *)
LEMMA AddsKeeps ==
  ASSUME FilingInv, NEW c \in Contracts,
         stage[c] \in {"units", "parties", "proxies", "signed", "financial", "fee"},
         NEW i, NEW key, NEW h \in Holdings, NEW tolerated,
         key[1] \in Kinds, Holding(key) = h, Adds(c, i, key, h, tolerated),
         /\ Holds(ids[c].draft, h)' /\ ids'[c].draft = ids[c].draft /\ stage'[c] = stage[c]
         /\ h \in Identified => h \in ids'[c].of \/ c \in blank'
         => Met(c, stage[c], i)'
  PROVE  FilingInv'
  <1> DEFINE d == ids[c].draft
             request == About(d, key)
  <1>1. FilingTypeOK /\ (\A x \in Contracts : ContractOK(x)) /\ KnownIsHeld /\ KnownDrafts /\ OneDraftEach
        /\ FiledIsComplete
    BY DEF FilingInv
  <1>2. stage[c] \in FilingStages /\ Rank[stage[c]] > 2
    BY DEF FilingStages, Rank
  <1>3. d \in Drafts /\ d # 0
    BY <1>1, <1>2 DEF FilingTypeOK, ContractOK, DraftSaved
  <1>4. PICK answer \in Answers(request, held[d][h] # 0) :
          /\ held' = IF Done(request, answer) THEN [held EXCEPT ![d][h] = Payload(c)] ELSE held
          /\ Learnt(request, answer)
          /\ Takes(c, i, h, answer, tolerated)
    BY DEF Adds
  <1>5. /\ drafts' = drafts /\ filed' = filed /\ lapses' = lapses
    BY DEF Adds
  <1>6. Payload(c) # 0
    BY <1>1 DEF Payload, FilingTypeOK, Forms
  <1>7. HeldGrows
    BY <1>1, <1>3, <1>4, <1>6 DEF HeldGrows, Holds, FilingTypeOK
  <1>8. request \in known => held[d][h] # 0
    <2>1. request.draft = d /\ request.key = key
      BY DEF About
    <2>2. QED
      BY <1>1, <2>1 DEF KnownIsHeld, Holds
  <1>9. Holds(ids[c].draft, h)'
    <2>1. answer # "ok" => held[d][h] # 0
      BY <1>4, <1>8 DEF Answers
    <2>2. CASE held[d][h] # 0
      <3>1. held'[d][h] # 0
        BY <1>3, <1>7, <2>2 DEF HeldGrows, Holds
      <3>2. ids'[c].draft = ids[c].draft
        BY <1>1, <1>4 DEF Takes, FilingTypeOK
      <3>3. QED
        BY <1>3, <3>1, <3>2 DEF Holds
    <2>3. CASE held[d][h] = 0
      <3>1. Done(request, answer)
        BY <1>8, <2>1, <2>3 DEF Done
      <3>2. held'[d][h] # 0
        BY <1>1, <1>3, <1>4, <1>6, <3>1 DEF FilingTypeOK
      <3>3. ids'[c].draft = ids[c].draft
        BY <1>1, <1>4 DEF Takes, FilingTypeOK
      <3>4. QED
        BY <1>3, <3>2, <3>3 DEF Holds
    <2>4. QED
      BY <2>2, <2>3
  <1> HIDE DEF request
  <1>10. /\ \A x \in Contracts : ContractOK(x)' /\ ids'[x].draft = ids[x].draft
         /\ blank \subseteq blank'
    BY <1>2, <1>4, <1>7, <1>9, TakesKeeps
  <1>11. known' \subseteq known \cup {request} /\ known \subseteq known'
    BY <1>4 DEF Learnt
  <1>13. KnownIsHeld'
    <2>1. PICK e : e = d
      OBVIOUS
    <2>2. Holds(e, Holding(key))'
      BY <1>3, <1>9, <1>10, <2>1 DEF Holds
    <2>3. known' \subseteq known \cup {About(e, key)}
      BY <1>11, <2>1 DEF request
    <2>4. e \in Drafts /\ Holding(key) \in Holdings
      BY <1>3, <2>1
    <2>5. QED
      BY <1>1, <1>7, <2>2, <2>3, <2>4, KnownKeeps
  <1>14. KnownDrafts' /\ OneDraftEach'
    BY <1>1, <1>5, <1>11 DEF KnownDrafts, OneDraftEach
  <1>15. FiledIsComplete'
    BY <1>1, <1>5, <1>7, <1>10, FiledKeeps DEF FilingTypeOK
  <1>16. FilingTypeOK'
    BY <1>1, <1>3, AddsTyped
  <1>17. QED
    BY <1>10, <1>13, <1>14, <1>15, <1>16, Sums

(* Nothing at Ejar changes.                                                *)
LEMMA ThereSame ==
  ASSUME FilingInv, FilingTypeOK', UNCHANGED <<drafts, held, filed, known, lapses>>,
         blank \subseteq blank', \A x \in blank : ids'[x].draft = ids[x].draft,
         \A x \in Contracts : ContractOK(x)'
  PROVE  FilingInv'
  <1>1. FilingTypeOK /\ KnownIsHeld /\ KnownDrafts /\ OneDraftEach /\ FiledIsComplete
    BY DEF FilingInv
  <1>2. HeldGrows
    BY DEF HeldGrows, Holds
  <1>3. FiledIsComplete'
    BY <1>1, <1>2, FiledKeeps
  <1>4. KnownDrafts' /\ OneDraftEach'
    BY <1>1 DEF KnownDrafts, OneDraftEach
  <1>5. KnownIsHeld'
    BY <1>1 DEF KnownIsHeld, Holds
  <1>6. QED
    BY <1>3, <1>4, <1>5, Sums

(* A turn that needs no request.                                           *)
LEMMA SkipsKeeps ==
  ASSUME FilingInv, NEW c \in Contracts, stage[c] \in FilingStages,
         NEW i, Skips(c, i), Met(c, stage[c], i)
  PROVE  FilingInv'
  <1>1. FilingTypeOK /\ \A x \in Contracts : ContractOK(x)
    BY DEF FilingInv
  <1>2. /\ ids' = ids /\ drafts' = drafts /\ held' = held /\ filed' = filed /\ people' = people
        /\ known' = known /\ blank' = blank /\ lapses' = lapses /\ deaths' = deaths
        /\ filing' = filing /\ form' = form /\ began' = began /\ stage' = stage /\ saved' = saved
        /\ todo' = [todo EXCEPT ![c] = @ \ {i}]
    BY DEF Skips, Passes, heldVars
  <1>3. FilingTypeOK'
    BY <1>1, <1>2 DEF FilingTypeOK
  <1>4. HeldGrows
    BY <1>2 DEF HeldGrows, Holds
  <1>5. \A x \in Contracts \ {c} : Untouched(x)
    BY <1>1, <1>2 DEF Untouched, FilingTypeOK
  <1>6. Met(c, stage[c], i)'
    BY <1>2 DEF Met, Holds, Has
  <1>7. todo'[c] = todo[c] \ {i}
    BY <1>1, <1>2 DEF FilingTypeOK
  <1>8. Passed(c)'
    BY <1>1, <1>2, <1>4, <1>6, <1>7, PassKeeps
  <1>9. Noted(c)' /\ DraftSaved(c)'
    BY <1>1, <1>2 DEF ContractOK, Noted, DraftSaved, Holds
  <1>10. \A x \in Contracts : ContractOK(x)'
    BY <1>1, <1>4, <1>5, <1>8, <1>9, UntouchedKeeps DEF ContractOK
  <1>11. QED
    BY <1>2, <1>3, <1>10, ThereSame

LEMMA EntityKeeps ==
  ASSUME FilingInv, NEW c \in Contracts, NEW p \in Parties, CreateEntity(c, p)
  PROVE  FilingInv'
  <1>1. stage[c] = "entities" /\ stage[c] \in FilingStages
    BY Items DEF CreateEntity, AtTurn, FilingStages
  <1>2. \A i : Met(c, stage[c], i) /\ Met(c, "entities", i)'
    BY <1>1 DEF Met
  <1>3. CASE Skips(c, p)
    BY <1>1, <1>2, <1>3, SkipsKeeps
  <1>4. CASE ~Skips(c, p)
    <2>1. PICK answer : /\ Learnt(About(0, KeyEntity(p)), answer)
                        /\ Takes(c, p, <<"entity", p>>, answer, {"ok", "conflict"})
      BY <1>4 DEF CreateEntity
    <2>2. /\ held' = held /\ drafts' = drafts /\ filed' = filed /\ lapses' = lapses
      BY <1>4 DEF CreateEntity
    <2>3. FilingTypeOK /\ KnownIsHeld /\ KnownDrafts /\ OneDraftEach /\ FiledIsComplete
      BY DEF FilingInv
    <2>4. HeldGrows
      BY <2>2 DEF HeldGrows, Holds
    <2>5. /\ \A x \in Contracts : ContractOK(x)' /\ ids'[x].draft = ids[x].draft
          /\ blank \subseteq blank'
      <3>1. <<"entity", p>> \notin Holdings
        BY HoldingsAre
      <3>2. stage'[c] = stage[c] => Met(c, stage[c], p)'
        BY <1>1 DEF Met
      <3>3. QED
        BY <1>1, <2>1, <2>4, <3>1, <3>2, TakesKeeps
    <2>6. known' \subseteq known \cup {About(0, KeyEntity(p))} /\ known \subseteq known'
      BY <2>1 DEF Learnt
    <2>7. KnownIsHeld'
      BY <2>3, <2>4, <2>6, OtherKeys, KnownKeeps
    <2>8. KnownDrafts' /\ OneDraftEach'
      BY <2>2, <2>3, <2>6 DEF KnownDrafts, OneDraftEach
    <2>9. FiledIsComplete'
      BY <2>2, <2>3, <2>4, <2>5, FiledKeeps DEF FilingTypeOK
    <2>10. FilingTypeOK'
      BY <2>3, RequestsTyped
    <2>11. QED
      BY <2>5, <2>7, <2>8, <2>9, <2>10, Sums
  <1>5. QED
    BY <1>3, <1>4

LEMMA SubmitKeeps ==
  ASSUME FilingInv, NEW c \in Contracts, SubmitDraft(c)
  PROVE  FilingInv'
  <1>1. stage[c] = "submit" /\ stage[c] \in FilingStages
        /\ Rank[stage[c]] > 2
    BY Items DEF SubmitDraft, AtTurn, FilingStages, Rank
  <1>2. FilingTypeOK /\ (\A x \in Contracts : ContractOK(x)) /\ KnownIsHeld /\ KnownDrafts /\ OneDraftEach
        /\ FiledIsComplete
    BY DEF FilingInv
  <1>3. PICK d : d = ids[c].draft
    OBVIOUS
  <1>4. d \in Drafts /\ d # 0
    BY <1>1, <1>2, <1>3 DEF FilingTypeOK, ContractOK, DraftSaved
  <1>5. PICK answer : /\ Learnt(About(d, KeySubmit), answer)
                      /\ Takes(c, "contract", <<"submitted", "contract">>, answer, {"ok"})
    BY <1>3 DEF SubmitDraft
  <1>6. /\ held' = held /\ drafts' = drafts /\ filed' = filed \cup {d} /\ lapses' = lapses
    BY <1>3 DEF SubmitDraft
  <1>7. HeldGrows
    BY <1>6 DEF HeldGrows, Holds
  <1>8. /\ \A x \in Contracts : ContractOK(x)' /\ ids'[x].draft = ids[x].draft
        /\ blank \subseteq blank'
    <2>1. <<"submitted", "contract">> \notin Holdings
      BY DEF Holdings, OfUnits, OfParties, OfProxies, Whole
    <2>2. stage'[c] = stage[c] => Met(c, stage[c], "contract")'
      BY <1>1 DEF Met
    <2>3. QED
      BY <1>1, <1>5, <1>7, <2>1, <2>2, TakesKeeps
  <1>9. known' \subseteq known \cup {About(d, KeySubmit)} /\ known \subseteq known'
    BY <1>5 DEF Learnt
  <1>10. KnownIsHeld'
    BY <1>2, <1>7, <1>9, OtherKeys, KnownKeeps
  <1>11. KnownDrafts' /\ OneDraftEach'
    BY <1>2, <1>6, <1>9 DEF KnownDrafts, OneDraftEach
  <1>12. FilingTypeOK'
    BY <1>2, <1>3, <1>4, RequestsTyped
  \* all turns before the submission are over
  <1>13. c \in blank \/ \A h \in Needed : held[d][h] # 0
    <2>1. \A s \in FilingStages : \A i \in ItemsOf(s) : s \notin {"submit", "finalize"} => Met(c, s, i)
      <3>1. \A s \in FilingStages : s \notin {"submit", "finalize"} => Rank["submit"] > Rank[s]
        BY DEF Rank, FilingStages
      <3>2. QED
        BY <1>1, <1>2, <3>1 DEF ContractOK, Passed, Over
    <2>2. SUFFICES ASSUME c \notin blank, NEW h \in Needed
                   PROVE  held[d][h] # 0
      OBVIOUS
    <2>3. CASE h \in OfUnits
      <3>1. PICK u \in Units : h = <<"unit", u>>
        BY <2>3 DEF OfUnits
      <3>2. Met(c, "units", u)
        BY <2>1, Items DEF FilingStages
      <3>3. QED
        BY <1>3, <3>1, <3>2 DEF Met, Holds
    <2>4. CASE h \in OfParties
      <3>1. PICK p \in Parties : h = <<"party", p>>
        BY <2>4 DEF OfParties
      <3>2. Met(c, "parties", p)
        BY <2>1, Items DEF FilingStages
      <3>3. QED
        BY <1>3, <3>1, <3>2 DEF Met, Holds
    <2>5. CASE h \in OfProxies
      <3>1. PICK p \in Representatives : h = <<"proxy", p>>
        BY <2>5 DEF OfProxies
      <3>2. Met(c, "proxies", p)
        BY <2>1, Items DEF FilingStages
      <3>3. QED
        BY <1>3, <2>2, <3>1, <3>2 DEF Met, Holds
    <2>6. CASE h \in Whole
      <3>1. PICK k \in {"signed", "financial", "fee"} : h = <<k, "contract">>
        BY <2>6 DEF Whole
      <3>2. k = "fee" => HasFee
        BY <2>2, <3>1 DEF Needed
      <3>3. "contract" \in ItemsOf(k) /\ k \in FilingStages
        BY <3>2, Items DEF FilingStages
      <3>4. Met(c, k, "contract")
        BY <2>1, <3>3
      <3>5. QED
        BY <1>3, <3>1, <3>4 DEF Met, Holds
    <2>7. QED
      BY <2>2, <2>3, <2>4, <2>5, <2>6 DEF Needed, Holdings
  <1>14. FiledIsComplete'
    <2>1. SUFFICES ASSUME NEW e \in filed \cup {d}
                   PROVE  \/ \E x \in blank' : ids'[x].draft = e
                          \/ \A h \in Needed : held[e][h] # 0
      BY <1>6 DEF FiledIsComplete
    <2>2. CASE e = d
      BY <1>3, <1>8, <1>13, <2>2
    <2>3. CASE e \in filed
      BY <1>2, <1>8, <2>3 DEF FiledIsComplete, FilingTypeOK
    <2>4. QED
      BY <2>1, <2>2, <2>3
  <1>15. QED
    BY <1>8, <1>10, <1>11, <1>12, <1>14, Sums

LEMMA UnitKeeps ==
  ASSUME FilingInv, NEW c \in Contracts, NEW u \in Units, AttachUnit(c, u)
  PROVE  FilingInv'
  <1>1. stage[c] = "units" /\ stage[c] \in FilingStages
    BY Items DEF AttachUnit, AtTurn, FilingStages
  <1>2. <<"unit", u>> \in Holdings
    BY HoldingsAre
  <1>3. CASE Has(c, <<"unit", u>>) /\ Skips(c, u)
    <2>1. Met(c, stage[c], u)
      BY <1>1, <1>2, <1>3 DEF FilingInv, ContractOK, Noted, Met, Has
    <2>2. QED
      BY <1>1, <1>3, <2>1, SkipsKeeps
  <1>4. CASE Adds(c, u, KeyAttach(u), <<"unit", u>>, {"ok", "conflict", "blank"})
    <2>1. KeyAttach(u)[1] \in Kinds /\ Holding(KeyAttach(u)) = <<"unit", u>>
      BY HoldingOfKeys DEF Kinds
    <2>2. Holds(ids[c].draft, <<"unit", u>>)' /\ stage'[c] = stage[c] => Met(c, stage[c], u)'
      BY <1>1 DEF Met
    <2>3. QED
      BY <1>1, <1>2, <1>4, <2>1, <2>2, AddsKeeps
  <1>5. QED
    BY <1>3, <1>4 DEF AttachUnit

LEMMA PartyKeeps ==
  ASSUME FilingInv, NEW c \in Contracts, NEW p \in Parties, AddParty(c, p)
  PROVE  FilingInv'
  <1>1. stage[c] = "parties" /\ stage[c] \in FilingStages
    BY Items DEF AddParty, AtTurn, FilingStages
  <1>2. <<"party", p>> \in Holdings \cap Identified
    BY HoldingsAre
  <1>3. CASE Has(c, <<"party", p>>) /\ Skips(c, p)
    <2>1. Met(c, stage[c], p)
      BY <1>1, <1>2, <1>3 DEF FilingInv, ContractOK, Noted, Met, Has
    <2>2. QED
      BY <1>1, <1>3, <2>1, SkipsKeeps
  <1>4. CASE Adds(c, p, KeyParty(p), <<"party", p>>, {"ok", "conflict", "blank"})
    <2>1. KeyParty(p)[1] \in Kinds /\ Holding(KeyParty(p)) = <<"party", p>>
      BY HoldingOfKeys DEF Kinds
    <2>2. /\ Holds(ids[c].draft, <<"party", p>>)' /\ stage'[c] = stage[c]
          /\ <<"party", p>> \in ids'[c].of \/ c \in blank'
          => Met(c, stage[c], p)'
      BY <1>1 DEF Met, Has
    <2>3. QED
      BY <1>1, <1>2, <1>4, <2>1, <2>2, AddsKeeps
  <1>5. QED
    BY <1>3, <1>4 DEF AddParty

LEMMA ProxyKeeps ==
  ASSUME FilingInv, NEW c \in Contracts, NEW p \in Representatives, UploadProxy(c, p)
  PROVE  FilingInv'
  <1>1. stage[c] = "proxies" /\ stage[c] \in FilingStages
    BY Items DEF UploadProxy, AtTurn, FilingStages
  <1>2. <<"proxy", p>> \in Holdings
    BY HoldingsAre
  <1>3. CASE (Has(c, <<"proxy", p>>) \/ ~Has(c, <<"party", p>>)) /\ Skips(c, p)
    <2>1. ContractOK(c)
      BY DEF FilingInv
    <2>2. Has(c, <<"proxy", p>>) => Holds(ids[c].draft, <<"proxy", p>>)
      BY <1>2, <2>1 DEF ContractOK, Noted, Has
    <2>3. Has(c, <<"party", p>>) \/ c \in blank
      <3>1. "parties" \in FilingStages /\ p \in ItemsOf("parties") /\ Rank["proxies"] > Rank["parties"]
        BY Items, FilingAssumption DEF FilingStages, Rank, FilingAssumption
      <3>2. Met(c, "parties", p)
        BY <1>1, <2>1, <3>1 DEF ContractOK, Passed, Over
      <3>3. QED
        BY <3>2 DEF Met
    <2>4. Met(c, stage[c], p)
      BY <1>1, <1>3, <2>2, <2>3 DEF Met
    <2>5. QED
      BY <1>1, <1>3, <2>4, SkipsKeeps
  <1>4. CASE Adds(c, p, KeyProxy(p, form[c]), <<"proxy", p>>, {"ok"})
    <2>1. KeyProxy(p, form[c])[1] \in Kinds /\ Holding(KeyProxy(p, form[c])) = <<"proxy", p>>
      BY HoldingOfKeys DEF Kinds
    <2>2. Holds(ids[c].draft, <<"proxy", p>>)' /\ stage'[c] = stage[c] => Met(c, stage[c], p)'
      BY <1>1 DEF Met
    <2>3. QED
      BY <1>1, <1>2, <1>4, <2>1, <2>2, AddsKeeps
  <1>5. QED
    BY <1>3, <1>4 DEF UploadProxy

LEMMA WholeKeeps ==
  ASSUME FilingInv, NEW c \in Contracts, UploadSigned(c) \/ AddFinancial(c) \/ AddFee(c)
  PROVE  FilingInv'
  <1>1. ASSUME NEW k \in {"signed", "financial", "fee"}, AtTurn(c, k, "contract"),
               NEW key, key[1] = k, Holding(key) = <<k, "contract">>, NEW tolerated,
               Adds(c, "contract", key, <<k, "contract">>, tolerated)
        PROVE  FilingInv'
    <2>1. FilingTypeOK /\ stage[c] = k /\ "contract" \in todo[c]
      BY <1>1 DEF AtTurn, FilingInv
    <2>2. <<k, "contract">> \in Holdings
      BY <1>1, HoldingsAre
    <2>3. Holds(ids[c].draft, <<k, "contract">>)' /\ stage'[c] = stage[c]
          => Met(c, stage[c], "contract")'
      BY <1>1, <2>1 DEF Met
    <2>4. stage[c] \in {"units", "parties", "proxies", "signed", "financial", "fee"} /\ key[1] \in Kinds
      BY <1>1, <2>1 DEF Kinds
    <2>5. QED
      BY <1>1, <2>2, <2>3, <2>4, AddsKeeps
  <1>2. CASE UploadSigned(c)
    <2>1. KeySigned(form[c])[1] = "signed" /\ Holding(KeySigned(form[c])) = <<"signed", "contract">>
      BY HoldingOfKeys
    <2>2. QED
      BY <1>1, <1>2, <2>1 DEF UploadSigned
  <1>3. CASE AddFinancial(c)
    BY <1>1, <1>3, HoldingOfKeys DEF AddFinancial
  <1>4. CASE AddFee(c)
    BY <1>1, <1>4, HoldingOfKeys DEF AddFee
  <1>5. QED
    BY <1>2, <1>3, <1>4

(* A draft is named: nothing was noted of one before.                      *)
LEMMA DraftKeeps ==
  ASSUME FilingInv, NEW c \in Contracts, CreateDraft(c)
  PROVE  FilingInv'
  <1> DEFINE key == KeyCreate(c)
             remembered == {d \in Drafts : About(d, key) \in known}
  <1>1. FilingTypeOK /\ (\A x \in Contracts : ContractOK(x)) /\ KnownIsHeld /\ KnownDrafts /\ OneDraftEach
        /\ FiledIsComplete
    BY DEF FilingInv
  <1>2. stage[c] = "contract" /\ stage[c] \in FilingStages
    BY DEF CreateDraft, AtTurn, FilingStages
  <1>3. FilingTypeOK'
    BY <1>1, RequestsTyped
  <1>4. /\ held' = held /\ filed' = filed /\ blank' = blank /\ lapses' = lapses
    BY DEF CreateDraft
  <1>5. HeldGrows
    BY <1>4 DEF HeldGrows, Holds
  <1>6. ASSUME ids' = ids, Passes(c, "contract") \/ Breaks(c), ids[c].draft # 0 \/ Breaks(c)
        PROVE  \A x \in Contracts : ContractOK(x)'
    <2>1. CASE Breaks(c)
      <3>1. \A x \in Contracts \ {c} : Untouched(x)
        BY <1>1, <1>4, <1>6, <2>1 DEF FilingTypeOK, Breaks, Commit, Untouched
      <3>2. stage'[c] = "idle" /\ ids'[c] = ids[c] /\ saved'[c] = ids[c]
        BY <1>1, <1>6, <2>1 DEF FilingTypeOK, Breaks, Commit
      <3>3. c \in blank' => ids[c].draft # 0
        BY <1>1, <1>4 DEF ContractOK, DraftSaved
      <3>4. ContractOK(c)'
        BY <1>1, <1>5, <3>2, <3>3, EndKeeps
      <3>5. QED
        BY <1>1, <1>5, <3>1, <3>4, UntouchedKeeps
    <2>2. CASE Passes(c, "contract") /\ ids[c].draft # 0
      <3>1. stage' = stage /\ saved' = saved /\ todo' = [todo EXCEPT ![c] = @ \ {"contract"}]
        BY <2>2 DEF Passes
      <3>2. \A x \in Contracts \ {c} : Untouched(x)
        BY <1>1, <1>4, <1>6, <3>1 DEF FilingTypeOK, Untouched
      <3>3. Met(c, stage[c], "contract")'
        BY <1>2, <1>6, <2>2, <3>1 DEF Met
      <3>4. todo'[c] = todo[c] \ {"contract"}
        BY <1>1, <3>1 DEF FilingTypeOK
      <3>5. Passed(c)'
        BY <1>1, <1>2, <1>4, <1>5, <1>6, <3>1, <3>3, <3>4, PassKeeps
      <3>6. Noted(c)' /\ DraftSaved(c)'
        BY <1>1, <1>4, <1>6, <3>1 DEF ContractOK, Noted, DraftSaved, Holds
      <3>7. QED
        BY <1>1, <1>5, <3>2, <3>5, <3>6, UntouchedKeeps DEF ContractOK
    <2>3. QED
      BY <1>6, <2>1, <2>2
  <1>7. ASSUME NEW d \in Drafts, ids[c].draft = 0, ids' = [ids EXCEPT ![c].draft = d],
               Passes(c, "contract")
        PROVE  \A x \in Contracts : ContractOK(x)'
    <2>1. stage' = stage /\ saved' = saved /\ todo' = [todo EXCEPT ![c] = @ \ {"contract"}]
      BY <1>7 DEF Passes
    <2>2. \A x \in Contracts \ {c} : Untouched(x)
      BY <1>1, <1>4, <1>7, <2>1 DEF FilingTypeOK, Untouched
    <2>3. ids'[c].draft = d /\ ids'[c].of = ids[c].of /\ d # 0
      BY <1>1, <1>7 DEF FilingTypeOK, Drafts
    <2>4. /\ saved[c].draft = 0 /\ c \notin blank
          /\ \A h \in Holdings : h \notin ids[c].of /\ h \notin saved[c].of
      BY <1>1, <1>7 DEF ContractOK, DraftSaved, Noted, Holds
    <2>5. Noted(c)'
      BY <2>1, <2>3, <2>4 DEF Noted
    <2>6. DraftSaved(c)'
      <3>1. ~(Rank[stage[c]] > 2)
        BY <1>2 DEF Rank
      <3>2. QED
        BY <1>4, <2>1, <2>4, <3>1 DEF DraftSaved
    <2>7. Passed(c)'
      <3>1. SUFFICES ASSUME NEW s \in FilingStages, NEW i \in ItemsOf(s), Over(c, s, i)'
                     PROVE  Met(c, s, i)'
        BY DEF Passed
      <3>2. s \in {"entities", "contract"}
        BY <1>2, <2>1, <3>1 DEF Over, Rank, FilingStages
      <3>3. QED
        BY <2>3, <3>2 DEF Met
    <2>8. QED
      BY <1>1, <1>5, <2>2, <2>5, <2>6, <2>7, UntouchedKeeps DEF ContractOK
  <1>8. \A x \in blank : ids[x].draft # 0 /\ x \in Contracts
    BY <1>1 DEF ContractOK, DraftSaved, FilingTypeOK
  <1>9. \A d : ids[c].draft = 0 /\ ids' = [ids EXCEPT ![c].draft = d]
               => \A x \in blank : ids'[x].draft = ids[x].draft
    BY <1>1, <1>8 DEF FilingTypeOK
  \* the contract has its draft already, or learns of one that is there
  <1>10. CASE UNCHANGED <<drafts, known>>
    <2>1. CASE ids[c].draft # 0 /\ Passes(c, "contract") /\ ids' = ids
      BY <1>3, <1>4, <1>6, <1>10, <2>1, ThereSame
    <2>2. CASE ids' = ids /\ Breaks(c)
      BY <1>3, <1>4, <1>6, <1>10, <2>2, ThereSame
    <2>3. ASSUME NEW d \in Drafts, ids[c].draft = 0, ids' = [ids EXCEPT ![c].draft = d],
                 Passes(c, "contract")
          PROVE  FilingInv'
      BY <1>3, <1>4, <1>7, <1>9, <1>10, <2>3, ThereSame
    <2>4. \A d \in 1 .. Len(drafts) : d \in Drafts
      BY <1>1, FilingAssumption DEF FilingTypeOK, Drafts, FilingAssumption
    <2>5. drafts' # Append(drafts, Terms[c])
      <3>1. drafts \in Seq({Terms[x] : x \in Contracts}) /\ drafts' = drafts
        BY <1>1, <1>10 DEF FilingTypeOK
      <3>2. Len(Append(drafts, Terms[c])) = Len(drafts) + 1 /\ Len(drafts) \in Nat
        BY <3>1
      <3>3. QED
        BY <3>1, <3>2
    <2>6. \/ ids[c].draft # 0 /\ Passes(c, "contract") /\ ids' = ids
          \/ ids' = ids /\ Breaks(c)
          \/ ids[c].draft = 0 /\ \E d \in Drafts : ids' = [ids EXCEPT ![c].draft = d] /\ Passes(c, "contract")
      BY <2>4, <2>5 DEF CreateDraft
    <2>7. QED
      BY <2>1, <2>2, <2>3, <2>6
  \* no key is known for these terms: a draft is opened
  <1>11. CASE /\ ids[c].draft = 0 /\ remembered = {} /\ Len(drafts) < MaxDrafts
              /\ drafts' = Append(drafts, Terms[c])
              /\ known' = known \cup {About(Len(drafts'), key)}
              /\ \/ ids' = [ids EXCEPT ![c].draft = Len(drafts')] /\ Passes(c, "contract")
                 \/ UNCHANGED ids /\ Breaks(c)
    <2>1. PICK d : d = Len(drafts')
      OBVIOUS
    <2>2. /\ d = Len(drafts) + 1 /\ Len(drafts) \in Nat
          /\ \A e \in 1 .. Len(drafts) : drafts'[e] = drafts[e]
          /\ drafts'[d] = Terms[c]
      BY <1>1, <1>11, <2>1 DEF FilingTypeOK
    <2>3. d \in Drafts
      BY <1>11, <2>2, FilingAssumption DEF Drafts, FilingAssumption
    <2>4. \A x \in Contracts : ContractOK(x)'
      BY <1>6, <1>7, <1>11, <2>1, <2>3
    <2>5. \A x \in blank : ids'[x].draft = ids[x].draft
      BY <1>9, <1>11
    <2>6. FiledIsComplete'
      BY <1>1, <1>4, <1>5, <2>5, FiledKeeps
    <2>7. KnownIsHeld'
      BY <1>1, <1>5, <1>11, <2>1, OtherKeys, KnownKeeps
    <2>8. KnownDrafts'
      <3>1. SUFFICES ASSUME lapses = 0, NEW e \in 1 .. d
                     PROVE  About(e, <<"create", drafts'[e]>>) \in known'
        BY <1>4, <2>1 DEF KnownDrafts
      <3>2. CASE e = d
        BY <1>11, <2>1, <2>2, <3>2 DEF KeyCreate
      <3>3. CASE e # d
        BY <1>1, <1>11, <2>2, <3>1, <3>3 DEF KnownDrafts
      <3>4. QED
        BY <3>2, <3>3
    <2>9. OneDraftEach'
      <3>1. SUFFICES ASSUME lapses = 0, NEW e \in 1 .. Len(drafts), drafts[e] = Terms[c]
                     PROVE  FALSE
        BY <1>1, <1>4, <2>1, <2>2 DEF OneDraftEach
      <3>2. About(e, key) \in known
        BY <1>1, <3>1 DEF KnownDrafts, KeyCreate
      <3>3. e \in Drafts
        BY <1>1, FilingAssumption DEF FilingTypeOK, Drafts, FilingAssumption
      <3>4. QED
        BY <1>11, <3>2, <3>3
    <2>10. QED
      BY <1>3, <2>4, <2>6, <2>7, <2>8, <2>9, Sums
  <1>12. QED
    BY <1>10, <1>11 DEF CreateDraft

-----------------------------------------------------------------------------
(* The pipeline between requests, and what happens around it               *)

LEMMA MovesKeep ==
  ASSUME FilingInv, NEW c \in Contracts,
         \/ StartFiling(c) \/ StageDone(c) \/ FinalizeFiling(c) \/ RequestFails(c)
         \/ DieInPipeline(c) \/ Reject(c) \/ ResetRejected(c) \/ PutRight(c)
  PROVE  FilingInv'
  <1>1. FilingTypeOK /\ \A x \in Contracts : ContractOK(x)
    BY DEF FilingInv
  <1>2. FilingTypeOK'
    BY <1>1, OdooTypes
  <1>3. UNCHANGED <<drafts, held, filed, known, blank, lapses>>
    BY DEF StartFiling, StageDone, FinalizeFiling, RequestFails, DieInPipeline, Reject,
           ResetRejected, PutRight, heldVars
  <1>4. HeldGrows
    BY <1>3 DEF HeldGrows, Holds
  <1>5. SUFFICES /\ \A x \in Contracts : ContractOK(x)'
                 /\ \A x \in blank : ids'[x].draft = ids[x].draft
    BY <1>2, <1>3, ThereSame
  <1>6. CASE StartFiling(c)
    <2>1. ids' = ids /\ saved' = saved
      BY <1>6 DEF StartFiling
    <2>2. \A x \in Contracts \ {c} : Untouched(x)
      BY <1>1, <1>3, <1>6, <2>1 DEF FilingTypeOK, StartFiling, Untouched
    <2>3. stage'[c] \in {"idle", "entities"}
      BY <1>1, <1>6 DEF StartFiling, FilingTypeOK
    <2>4. CASE stage'[c] = "idle"
      <3>1. Passed(c)'
        BY <2>4, IdlePassed
      <3>2. Noted(c)' /\ DraftSaved(c)'
        BY <1>1, <1>3, <2>1, <2>4 DEF ContractOK, Noted, DraftSaved, Holds, Rank
      <3>3. QED
        BY <1>1, <1>4, <2>1, <2>2, <3>1, <3>2, UntouchedKeeps DEF ContractOK
    <2>5. CASE stage'[c] = "entities"
      <3>1. Passed(c)'
        <4>1. SUFFICES ASSUME NEW s \in FilingStages, NEW i \in ItemsOf(s), Over(c, s, i)'
                       PROVE  Met(c, s, i)'
          BY DEF Passed
        <4>2. s = "entities"
          BY <2>5, <4>1 DEF Over, Rank, FilingStages
        <4>3. QED
          BY <4>2 DEF Met
      <3>2. Noted(c)' /\ DraftSaved(c)'
        BY <1>1, <1>3, <2>1, <2>5 DEF ContractOK, Noted, DraftSaved, Holds, Rank
      <3>3. QED
        BY <1>1, <1>4, <2>1, <2>2, <3>1, <3>2, UntouchedKeeps DEF ContractOK
    <2>6. QED
      BY <2>3, <2>4, <2>5
  <1>7. CASE StageDone(c)
    <2>1. PICK s : s = stage[c]
      OBVIOUS
    <2>2. s \in FilingStages \ {"finalize"} /\ todo[c] = {}
      BY <1>1, <1>7, <2>1 DEF StageDone, FilingTypeOK
    <2>3. /\ ids' = ids /\ saved'[c] = ids[c] /\ stage'[c] = StageAfter[s]
          /\ todo'[c] = ItemsOf(StageAfter[s])
      BY <1>1, <1>7, <2>1 DEF StageDone, Commit, FilingTypeOK
    <2>4. \A x \in Contracts \ {c} : Untouched(x)
      BY <1>1, <1>3, <1>7, <2>3 DEF FilingTypeOK, StageDone, Commit, Untouched
    <2>5. StageAfter[s] \in FilingStages /\ Rank[StageAfter[s]] = Rank[s] + 1
      BY <2>2, Ranks
    <2>6. Passed(c)'
      <3>1. SUFFICES ASSUME NEW t \in FilingStages, NEW i \in ItemsOf(t), Over(c, t, i)'
                     PROVE  Met(c, t, i)'
        BY DEF Passed
      <3>2. Rank[StageAfter[s]] > Rank[t]
        BY <2>3, <3>1 DEF Over
      <3>3. Rank[s] > Rank[t] \/ s = t
        BY <2>2, <2>5, <3>2, Ranks
      <3>4. Over(c, t, i)
        BY <2>1, <2>2, <3>3 DEF Over
      <3>5. Met(c, t, i)
        BY <1>1, <3>4 DEF ContractOK, Passed
      <3>6. QED
        BY <1>3, <2>3, <3>5 DEF Met, Holds, Has
    <2>7. Noted(c)'
      BY <1>1, <1>3, <2>3 DEF ContractOK, Noted, Holds
    <2>8. DraftSaved(c)'
      <3>1. Rank[StageAfter[s]] > 2 => ids[c].draft # 0
        <4>1. CASE s = "contract"
          <5>1. "contract" \in FilingStages /\ "contract" \in ItemsOf("contract")
            BY Items DEF FilingStages
          <5>2. Over(c, "contract", "contract")
            BY <2>1, <2>2, <4>1 DEF Over
          <5>3. Met(c, "contract", "contract")
            BY <1>1, <5>1, <5>2 DEF ContractOK, Passed
          <5>4. QED
            BY <5>3 DEF Met
        <4>2. CASE Rank[s] > 2
          BY <1>1, <2>1, <4>2 DEF ContractOK, DraftSaved
        <4>3. s = "entities" => Rank[StageAfter[s]] = 2
          BY DEF Rank, StageAfter
        <4>4. s = "entities" \/ s = "contract" \/ Rank[s] > 2
          BY <2>2 DEF FilingStages, Rank
        <4>5. QED
          BY <4>1, <4>2, <4>3, <4>4
      <3>2. c \in blank => ids[c].draft # 0
        BY <1>1 DEF ContractOK, DraftSaved
      <3>3. QED
        BY <1>3, <2>3, <3>1, <3>2 DEF DraftSaved
    <2>9. QED
      BY <1>1, <1>4, <2>3, <2>4, <2>6, <2>7, <2>8, UntouchedKeeps DEF ContractOK
  <1>8. CASE FinalizeFiling(c) \/ RequestFails(c)
    <2>1. ids' = ids /\ stage'[c] = "idle" /\ saved'[c] = ids[c]
      BY <1>1, <1>8 DEF FinalizeFiling, RequestFails, Breaks, Commit, FilingTypeOK
    <2>2. \A x \in Contracts \ {c} : Untouched(x)
      BY <1>1, <1>3, <1>8, <2>1
         DEF FilingTypeOK, FinalizeFiling, RequestFails, Breaks, Commit, Untouched
    <2>3. c \in blank' => ids[c].draft # 0
      BY <1>1, <1>3 DEF ContractOK, DraftSaved
    <2>4. ContractOK(c)'
      BY <1>1, <1>4, <2>1, <2>3, EndKeeps
    <2>5. QED
      BY <1>1, <1>4, <2>1, <2>2, <2>4, UntouchedKeeps
  <1>9. CASE DieInPipeline(c)
    <2>1. stage'[c] = "idle" /\ ids'[c] = saved[c] /\ saved' = saved
          /\ \A x \in Contracts \ {c} : ids'[x] = ids[x]
      BY <1>1, <1>9 DEF DieInPipeline, FilingTypeOK
    <2>2. \A x \in Contracts \ {c} : Untouched(x)
      BY <1>1, <1>3, <1>9, <2>1 DEF FilingTypeOK, DieInPipeline, Untouched
    <2>3. Passed(c)'
      BY <2>1, IdlePassed
    <2>4. Noted(c)'
      BY <1>1, <1>3, <2>1 DEF ContractOK, Noted, Holds
    <2>5. DraftSaved(c)'
      BY <1>1, <1>3, <2>1 DEF ContractOK, DraftSaved, Rank
    <2>6. c \in blank => ids'[c].draft = ids[c].draft
      BY <1>1, <2>1 DEF ContractOK, DraftSaved
    <2>7. \A x \in blank : ids'[x].draft = ids[x].draft
      BY <1>1, <2>1, <2>6 DEF FilingTypeOK
    <2>8. QED
      BY <1>1, <1>4, <2>2, <2>3, <2>4, <2>5, <2>7, UntouchedKeeps DEF ContractOK
  <1>10. CASE Reject(c) \/ ResetRejected(c) \/ PutRight(c)
    <2>1. ids' = ids /\ saved' = saved /\ stage' = stage /\ todo' = todo
      BY <1>10 DEF Reject, ResetRejected, PutRight
    <2>2. \A x \in Contracts : Untouched(x)
      BY <1>3, <2>1 DEF Untouched
    <2>3. QED
      BY <1>1, <1>4, <2>1, <2>2, UntouchedKeeps
  <1>11. QED
    BY <1>6, <1>7, <1>8, <1>9, <1>10

LEMMA LapseKeeps == FilingInv /\ KeysLapse => FilingInv'
  <1> SUFFICES ASSUME FilingInv, KeysLapse
               PROVE  FilingInv'
    OBVIOUS
  <1>1. /\ FilingTypeOK /\ FiledIsComplete /\ \A x \in Contracts : ContractOK(x)
    BY DEF FilingInv
  <1>2. /\ UNCHANGED <<filing, form, began, stage, todo, ids, saved, drafts, held, filed, people, blank, deaths>>
        /\ known' = {} /\ lapses' = lapses + 1 /\ lapses < MaxLapses
    BY DEF KeysLapse, odooVars
  <1>3. FilingTypeOK' /\ lapses' # 0
    BY <1>1, <1>2, FilingAssumption DEF FilingTypeOK, FilingAssumption
  <1>4. HeldGrows
    BY <1>2 DEF HeldGrows, Holds
  <1>5. \A x \in Contracts : ContractOK(x)'
    BY <1>1, <1>2, <1>4, UntouchedKeeps DEF Untouched
  <1>6. FiledIsComplete'
    BY <1>1, <1>2, <1>4, FiledKeeps
  <1>7. KnownIsHeld' /\ KnownDrafts' /\ OneDraftEach'
    BY <1>2, <1>3 DEF KnownIsHeld, KnownDrafts, OneDraftEach
  <1>8. QED
    BY <1>3, <1>5, <1>6, <1>7, Sums

LEMMA FilingStep == FilingInv /\ [FilingNext]_filingVars => FilingInv'
  <1> SUFFICES ASSUME FilingInv, [FilingNext]_filingVars
               PROVE  FilingInv'
    OBVIOUS
  <1>1. ASSUME NEW c \in Contracts, Requests(c)
        PROVE  FilingInv'
    BY <1>1, EntityKeeps, PartyKeeps, ProxyKeeps, UnitKeeps, DraftKeeps, WholeKeeps, SubmitKeeps
       DEF Requests
  <1>2. CASE UNCHANGED filingVars
    <2>1. UNCHANGED <<filing, form, began, stage, todo, ids, saved, drafts, held, filed, people,
                      known, blank, lapses, deaths>>
      BY <1>2 DEF filingVars, odooVars, heldVars
    <2>2. FilingTypeOK' /\ \A x \in Contracts : Untouched(x)
      BY <2>1 DEF FilingInv, FilingTypeOK, Untouched
    <2>3. HeldGrows
      BY <2>1 DEF HeldGrows, Holds
    <2>4. \A x \in Contracts : ContractOK(x)'
      BY <2>2, <2>3, UntouchedKeeps DEF FilingInv
    <2>5. QED
      BY <2>1, <2>2, <2>4, ThereSame
  <1>3. QED
    BY <1>1, <1>2, MovesKeep, LapseKeeps DEF FilingNext, Pipeline

LEMMA FilingStarts == FilingInit => FilingInv
  <1> SUFFICES ASSUME FilingInit
               PROVE  FilingInv
    OBVIOUS
  <1>1. FilingTypeOK
    <2>1. drafts \in Seq({Terms[c] : c \in Contracts}) /\ Len(drafts) <= MaxDrafts
      BY FilingAssumption DEF FilingInit, FilingAssumption
    <2>2. 1 \in Forms /\ 0 \in 0 .. MaxLapses /\ 0 \in 0 .. MaxDeaths
      BY FilingAssumption DEF Forms, FilingAssumption
    <2>3. QED
      BY <2>1, <2>2 DEF FilingInit, FilingTypeOK
  <1>2. ASSUME NEW c \in Contracts
        PROVE  ContractOK(c)
    <2>1. stage[c] = "idle" /\ ids[c] = [draft |-> 0, of |-> {}] /\ saved[c] = [draft |-> 0, of |-> {}]
          /\ blank = {}
      BY DEF FilingInit
    <2>2. \A s \in FilingStages : \A i : ~Over(c, s, i)
      BY <2>1, Ranks DEF Over, FilingStages
    <2>3. Passed(c)
      BY <2>2 DEF Passed
    <2>4. Noted(c) /\ DraftSaved(c)
      BY <2>1 DEF Noted, DraftSaved, Rank
    <2>5. QED
      BY <2>3, <2>4 DEF ContractOK
  <1>3. KnownIsHeld /\ KnownDrafts /\ OneDraftEach /\ FiledIsComplete
    BY DEF FilingInit, KnownIsHeld, KnownDrafts, OneDraftEach, FiledIsComplete
  <1>4. QED
    BY <1>1, <1>2, <1>3 DEF FilingInv

LEMMA FilingAlways == FilingSpec => []FilingInv
  BY FilingStarts, FilingStep, PTL DEF FilingSpec

-----------------------------------------------------------------------------
(* Whatever fails, is lost, repeated or forgotten by Ejar on the way of the *)
(* fourteen steps, a draft that is submitted holds all that its contract   *)
(* needs (lifecycle_service.py:172-249), but for the documents that a      *)
(* conflict without an identifier makes it skip.                           *)
THEOREM FilesComplete == FilingSpec => [](FilingTypeOK /\ FiledIsComplete)
  <1>1. FilingInv => FilingTypeOK /\ FiledIsComplete
    BY DEF FilingInv
  <1>2. QED
    BY <1>1, FilingAlways, PTL

(* Whatever a contract remembers of a step, Ejar holds on its draft        *)
(* (lifecycle_service.py:349-430): no retry skips what was not done.       *)
THEOREM RemembersTruly == FilingSpec => []RememberedIsHeld
  <1>1. FilingInv => RememberedIsHeld
    <2> SUFFICES ASSUME FilingInv, NEW c \in Contracts, NEW h \in saved[c].of \cap Holdings
                 PROVE  saved[c].draft # 0 /\ held[saved[c].draft][h] # 0
      BY DEF RememberedIsHeld
    <2>1. Noted(c)
      BY DEF FilingInv, ContractOK
    <2>2. QED
      BY <2>1 DEF Noted, Holds
  <1>2. QED
    BY <1>1, FilingAlways, PTL

(* While Ejar knows the keys, no attempt opens a second draft for the same *)
(* terms (ejar_client.py:510-516), for any number of contracts.            *)
THEOREM OpensOnce == FilingSpec => []OneDraftEach
  <1>1. FilingInv => OneDraftEach
    BY DEF FilingInv
  <1>2. QED
    BY <1>1, FilingAlways, PTL

-----------------------------------------------------------------------------
(* What becomes of a correction                                            *)

Financial == <<"financial", "contract">>

(* Ejar has the financial information of the first form, if any.           *)
OnlyFirstForm == \A d \in Drafts : held[d][Financial] \in {0, 1}

(* A contract whose draft Ejar has all of, for good.                       *)
Told(c) == saved[c].draft = ids[c].draft /\ Holds(ids[c].draft, Financial)

(* Only what has been filed is rejected, and only what has been rejected   *)
(* is put right.                                                           *)
FixedLate ==
    \A c \in Contracts : /\ stage[c] # "idle" => filing[c] = "submitting"
                         /\ filing[c] \in {"submitted", "rejected", "draft"} \/ form[c] # 1 => Told(c)

FixInv == OnlyFirstForm /\ FixedLate

(* A request belongs to a running pipeline and goes on with it or ends it; *)
(* the draft that is known is kept.                                        *)
Proceeds(c) ==
    /\ stage[c] # "idle" /\ UNCHANGED form
    /\ \A x \in Contracts \ {c} : /\ filing'[x] = filing[x] /\ stage'[x] = stage[x]
                                  /\ ids'[x] = ids[x] /\ saved'[x] = saved[x]
    /\ \/ filing'[c] = "ready" /\ stage'[c] = "idle"
       \/ filing'[c] = filing[c] /\ stage'[c] = stage[c]
    /\ saved'[c] \in {saved[c], ids'[c]}

KeepsDraft(c) == ids[c].draft # 0 => ids'[c].draft = ids[c].draft

(* At most one holding is written, as the form has it; the financial       *)
(* information only where there is none.                                   *)
Writes(c) ==
    \/ held' = held
    \/ \E h \in Holdings : /\ held' = [held EXCEPT ![ids[c].draft][h] = form[c]]
                           /\ h = Financial => held[ids[c].draft][h] = 0

LEMMA PassesOrBreaks ==
    ASSUME FilingTypeOK, NEW c \in Contracts, stage[c] # "idle", NEW i, NEW r,
           ids' = ids \/ ids' = [ids EXCEPT ![c] = r],
           Passes(c, i) \/ Breaks(c)
    PROVE  Proceeds(c)
<1>1. \A x \in Contracts \ {c} : ids'[x] = ids[x]
  BY DEF FilingTypeOK
<1>2. CASE Passes(c, i)
  BY <1>1, <1>2 DEF Passes, Proceeds
<1>3. CASE Breaks(c)
  <2>1. /\ filing'[c] = "ready" /\ stage'[c] = "idle" /\ saved'[c] = ids'[c]
        /\ UNCHANGED form
    BY <1>3 DEF Breaks, Commit, FilingTypeOK
  <2>2. \A x \in Contracts \ {c} : filing'[x] = filing[x] /\ stage'[x] = stage[x]
                                                         /\ saved'[x] = saved[x]
    BY <1>3 DEF Breaks, Commit, FilingTypeOK
  <2> QED BY <1>1, <2>1, <2>2 DEF Proceeds
<1> QED BY <1>2, <1>3

LEMMA TakesOn ==
    ASSUME FilingTypeOK, NEW c \in Contracts, stage[c] # "idle", NEW i, NEW h, NEW answer,
           NEW tolerated, Takes(c, i, h, answer, tolerated)
    PROVE  Proceeds(c) /\ ids'[c].draft = ids[c].draft
<1>1. ids' = ids \/ ids' = [ids EXCEPT ![c].of = @ \cup {h}]
  BY DEF Takes
<1>2. ids[c].draft = ids'[c].draft
  BY <1>1 DEF FilingTypeOK
<1>3. Passes(c, i) \/ Breaks(c)
  BY DEF Takes
<1>4. ids' = ids \/ ids' = [ids EXCEPT ![c] = [ids[c] EXCEPT !.of = @ \cup {h}]]
  BY <1>1
<1> QED BY <1>2, <1>3, <1>4, PassesOrBreaks

LEMMA AddsOn ==
    ASSUME FilingTypeOK, NEW c \in Contracts, stage[c] # "idle", NEW i, NEW key, NEW h \in Holdings,
           NEW tolerated, Adds(c, i, key, h, tolerated), h = Financial => key = KeyFinancial
    PROVE  Proceeds(c) /\ KeepsDraft(c) /\ Writes(c)
<1> DEFINE request == About(ids[c].draft, key)
<1>1. PICK answer \in Answers(request, held[ids[c].draft][h] # 0) :
        /\ held' = IF Done(request, answer)
                     THEN [held EXCEPT ![ids[c].draft][h] = Payload(c)] ELSE held
        /\ Takes(c, i, h, answer, tolerated)
  BY DEF Adds
<1>2. Done(request, answer) /\ h = Financial => held[ids[c].draft][h] = 0
  <2>1. h = Financial => request.key[1] = "financial"  BY DEF About, KeyFinancial
  <2> QED BY <1>1, <2>1 DEF Done, Answers
<1>3. Writes(c)  BY <1>1, <1>2 DEF Writes, Payload
<1>4. Proceeds(c) /\ ids'[c].draft = ids[c].draft  BY <1>1, TakesOn
<1> QED BY <1>3, <1>4 DEF KeepsDraft

LEMMA SkipsOn ==
    ASSUME FilingTypeOK, NEW c \in Contracts, stage[c] # "idle", NEW i, Skips(c, i)
    PROVE  Proceeds(c) /\ KeepsDraft(c) /\ Writes(c)
<1>1. Passes(c, i) /\ ids' = ids /\ held' = held  BY DEF Skips, heldVars
<1>2. Proceeds(c)  BY <1>1, PassesOrBreaks
<1> QED BY <1>1, <1>2 DEF KeepsDraft, Writes

LEMMA CreateOn ==
    ASSUME FilingTypeOK, NEW c \in Contracts, CreateDraft(c)
    PROVE  Proceeds(c) /\ KeepsDraft(c) /\ Writes(c)
<1>1. stage[c] # "idle" /\ held' = held  BY DEF CreateDraft, AtTurn
<1>2. CASE ids[c].draft # 0 /\ Passes(c, "contract") /\ ids' = ids
  BY <1>1, <1>2, PassesOrBreaks DEF KeepsDraft, Writes
<1>3. CASE /\ ids[c].draft = 0 /\ (Passes(c, "contract") \/ Breaks(c))
           /\ ids' = ids \/ \E d : ids' = [ids EXCEPT ![c].draft = d]
  <2>1. ids' = ids \/ \E d : ids' = [ids EXCEPT ![c] = [ids[c] EXCEPT !.draft = d]]
    BY <1>3
  <2> QED BY <1>1, <1>3, <2>1, PassesOrBreaks DEF KeepsDraft, Writes
<1>4. \/ ids[c].draft # 0 /\ Passes(c, "contract") /\ ids' = ids
      \/ /\ ids[c].draft = 0 /\ (Passes(c, "contract") \/ Breaks(c))
         /\ ids' = ids \/ \E d : ids' = [ids EXCEPT ![c].draft = d]
  BY DEF CreateDraft
<1> QED BY <1>2, <1>3, <1>4

LEMMA RequestsOn ==
    ASSUME FilingTypeOK, NEW c \in Contracts, Requests(c)
    PROVE  Proceeds(c) /\ KeepsDraft(c) /\ Writes(c)
<1>1. ASSUME NEW p \in Parties, CreateEntity(c, p)
      PROVE  Proceeds(c) /\ KeepsDraft(c) /\ Writes(c)
  <2>1. stage[c] # "idle"  BY <1>1 DEF CreateEntity, AtTurn
  <2>2. CASE Skips(c, p)  BY <2>1, <2>2, SkipsOn
  <2>3. CASE ~Skips(c, p)
    <3>1. PICK answer : Takes(c, p, <<"entity", p>>, answer, {"ok", "conflict"})
      BY <1>1, <2>3 DEF CreateEntity
    <3>2. held' = held  BY <1>1, <2>3 DEF CreateEntity
    <3> QED BY <2>1, <3>1, <3>2, TakesOn DEF KeepsDraft, Writes
  <2> QED BY <2>2, <2>3
<1>2. ASSUME NEW p \in Parties, AddParty(c, p)
      PROVE  Proceeds(c) /\ KeepsDraft(c) /\ Writes(c)
  <2>1. stage[c] # "idle"  BY <1>2 DEF AddParty, AtTurn
  <2>2. Skips(c, p) \/ Adds(c, p, KeyParty(p), <<"party", p>>, {"ok", "conflict", "blank"})
    BY <1>2 DEF AddParty
  <2>3. <<"party", p>> # Financial  BY DEF Financial
  <2> QED BY <2>1, <2>2, <2>3, SkipsOn, AddsOn, HoldingsAre
<1>3. ASSUME NEW p \in Representatives, UploadProxy(c, p)
      PROVE  Proceeds(c) /\ KeepsDraft(c) /\ Writes(c)
  <2>1. stage[c] # "idle"  BY <1>3 DEF UploadProxy, AtTurn
  <2>2. Skips(c, p) \/ Adds(c, p, KeyProxy(p, form[c]), <<"proxy", p>>, {"ok"})
    BY <1>3 DEF UploadProxy
  <2>3. <<"proxy", p>> # Financial  BY DEF Financial
  <2> QED BY <2>1, <2>2, <2>3, SkipsOn, AddsOn, HoldingsAre
<1>4. ASSUME NEW u \in Units, AttachUnit(c, u)
      PROVE  Proceeds(c) /\ KeepsDraft(c) /\ Writes(c)
  <2>1. stage[c] # "idle"  BY <1>4 DEF AttachUnit, AtTurn
  <2>2. Skips(c, u) \/ Adds(c, u, KeyAttach(u), <<"unit", u>>, {"ok", "conflict", "blank"})
    BY <1>4 DEF AttachUnit
  <2>3. <<"unit", u>> # Financial  BY DEF Financial
  <2> QED BY <2>1, <2>2, <2>3, SkipsOn, AddsOn, HoldingsAre
<1>5. CASE UploadSigned(c)
  <2>1. stage[c] # "idle"  BY <1>5 DEF UploadSigned, AtTurn
  <2>2. Adds(c, "contract", KeySigned(form[c]), <<"signed", "contract">>, {"ok"})
    BY <1>5 DEF UploadSigned
  <2>3. <<"signed", "contract">> # Financial  BY DEF Financial
  <2> QED BY <2>1, <2>2, <2>3, AddsOn, HoldingsAre
<1>6. CASE AddFinancial(c)
  <2>1. stage[c] # "idle"  BY <1>6 DEF AddFinancial, AtTurn
  <2>2. Adds(c, "contract", KeyFinancial, <<"financial", "contract">>, {"ok", "conflict", "blank"})
    BY <1>6 DEF AddFinancial
  <2> QED BY <2>1, <2>2, AddsOn, HoldingsAre
<1>7. CASE AddFee(c)
  <2>1. stage[c] # "idle"  BY <1>7 DEF AddFee, AtTurn
  <2>2. Adds(c, "contract", KeyFee, <<"fee", "contract">>, {"ok", "conflict", "blank"})
    BY <1>7 DEF AddFee
  <2>3. <<"fee", "contract">> # Financial  BY DEF Financial
  <2> QED BY <2>1, <2>2, <2>3, AddsOn, HoldingsAre
<1>8. CASE SubmitDraft(c)
  <2>1. stage[c] # "idle"  BY <1>8 DEF SubmitDraft, AtTurn
  <2>2. PICK answer : Takes(c, "contract", <<"submitted", "contract">>, answer, {"ok"})
    BY <1>8 DEF SubmitDraft
  <2>3. held' = held  BY <1>8 DEF SubmitDraft
  <2> QED BY <2>1, <2>2, <2>3, TakesOn DEF KeepsDraft, Writes
<1> QED BY <1>1, <1>2, <1>3, <1>4, <1>5, <1>6, <1>7, <1>8, CreateOn DEF Requests

LEMMA FinancialTyped ==
    ASSUME FilingTypeOK
    PROVE  /\ Financial \in Holdings
           /\ \A d \in Drafts : held[d] \in [Holdings -> Forms \cup {0}]
           /\ \A x \in Contracts : form[x] \in Nat /\ form[x] # 0 /\ began[x] \in Nat
           /\ 0 \notin Drafts
  BY FilingAssumption, HoldingsAre DEF Financial, FilingTypeOK, Forms, Drafts, FilingAssumption

LEMMA WrittenOnce ==
    ASSUME FilingTypeOK, NEW c \in Contracts, Writes(c), NEW d \in Drafts
    PROVE  \/ held'[d][Financial] = held[d][Financial]
           \/ d = ids[c].draft /\ held[d][Financial] = 0 /\ held'[d][Financial] = form[c]
<1>1. CASE held' = held  BY <1>1
<1>2. CASE held' # held
  <2>1. PICK h \in Holdings : /\ held' = [held EXCEPT ![ids[c].draft][h] = form[c]]
                              /\ h = Financial => held[ids[c].draft][h] = 0
    BY <1>2 DEF Writes
  <2>2. held \in [Drafts -> [Holdings -> Forms \cup {0}]]  BY DEF FilingTypeOK
  <2>3. CASE d # ids[c].draft  BY <2>1, <2>2, <2>3
  <2>4. CASE d = ids[c].draft
    <3>1. held'[d] = [held[d] EXCEPT ![h] = form[c]]  BY <2>1, <2>2, <2>4
    <3>2. held[d] \in [Holdings -> Forms \cup {0}] /\ Financial \in Holdings  BY FinancialTyped
    <3> QED BY <2>1, <2>4, <3>1, <3>2
  <2> QED BY <2>3, <2>4
<1> QED BY <1>1, <1>2

LEMMA RequestFix ==
    ASSUME FilingTypeOK, FixInv, NEW c \in Contracts, Requests(c)
    PROVE  FixInv'
<1>1. Proceeds(c) /\ KeepsDraft(c) /\ Writes(c)  BY RequestsOn
<1>2. \A x \in Contracts : /\ stage[x] # "idle" => filing[x] = "submitting"
                           /\ filing[x] \in {"submitted", "rejected", "draft"} \/ form[x] # 1 => Told(x)
  BY DEF FixInv, FixedLate
<1>3. form[c] # 1 => Holds(ids[c].draft, Financial)  BY <1>2 DEF Told
<1>4. OnlyFirstForm'
  <2> SUFFICES ASSUME NEW d \in Drafts
               PROVE  held'[d][Financial] \in {0, 1}
    BY DEF OnlyFirstForm
  <2>1. held[d][Financial] \in {0, 1}  BY DEF FixInv, OnlyFirstForm
  <2> QED BY <1>1, <1>3, <2>1, WrittenOnce DEF Holds
<1>5. \A d \in Drafts \cup {0} : Holds(d, Financial) => Holds(d, Financial)'
  <2>1. form[c] # 0  BY FinancialTyped
  <2> QED BY <1>1, <2>1, WrittenOnce DEF Holds
<1>6. ASSUME NEW x \in Contracts, Told(x)
      PROVE  Told(x)'
  <2>1. ids[x].draft \in Drafts \cup {0} /\ ids[x].draft # 0
    BY <1>6 DEF Told, Holds, FilingTypeOK
  <2>2. ids'[x].draft = ids[x].draft /\ saved'[x].draft = ids[x].draft
    BY <1>1, <1>6, <2>1 DEF Proceeds, KeepsDraft, Told
  <2>3. Holds(ids[x].draft, Financial)  BY <1>6 DEF Told
  <2> QED BY <1>5, <2>1, <2>2, <2>3 DEF Told, Holds
<1>7. FixedLate'
  <2> SUFFICES ASSUME NEW x \in Contracts
               PROVE  /\ stage'[x] # "idle" => filing'[x] = "submitting"
                      /\ filing'[x] \in {"submitted", "rejected", "draft"} \/ form'[x] # 1 => Told(x)'
    BY DEF FixedLate
  <2>1. CASE x = c  BY <1>1, <1>2, <1>6, <2>1 DEF Proceeds
  <2>2. CASE x # c  BY <1>1, <1>2, <1>6, <2>2 DEF Proceeds
  <2> QED BY <2>1, <2>2
<1> QED BY <1>4, <1>7 DEF FixInv

(* What happens between requests tells Ejar nothing.                       *)
LEMMA MovesFix ==
    ASSUME FilingInv, FixInv, NEW c \in Contracts,
           \/ StartFiling(c) \/ StageDone(c) \/ FinalizeFiling(c) \/ RequestFails(c)
           \/ DieInPipeline(c) \/ Reject(c) \/ ResetRejected(c) \/ PutRight(c)
    PROVE  FixInv'
<1>1. FilingTypeOK /\ FixedLate /\ Passed(c)  BY DEF FilingInv, ContractOK, FixInv
<1>2. held' = held
  BY DEF StartFiling, StageDone, FinalizeFiling, RequestFails, DieInPipeline, Reject,
         ResetRejected, PutRight, heldVars
<1>3. OnlyFirstForm'  BY <1>2 DEF FixInv, OnlyFirstForm
<1>4. \A x \in Contracts : /\ stage[x] # "idle" => filing[x] = "submitting"
                           /\ filing[x] \in {"submitted", "rejected", "draft"} \/ form[x] # 1 => Told(x)
  BY <1>1 DEF FixedLate
<1>5. FixedLate'
  <2> SUFFICES ASSUME NEW x \in Contracts
               PROVE  /\ stage'[x] # "idle" => filing'[x] = "submitting"
                      /\ filing'[x] \in {"submitted", "rejected", "draft"} \/ form'[x] # 1 => Told(x)'
    BY DEF FixedLate
  <2> DEFINE Same(y) == /\ filing'[y] = filing[y] /\ stage'[y] = stage[y] /\ form'[y] = form[y]
                        /\ ids'[y] = ids[y] /\ saved'[y] = saved[y]
  <2>0. Same(x) => /\ stage'[x] # "idle" => filing'[x] = "submitting"
                   /\ filing'[x] \in {"submitted", "rejected", "draft"} \/ form'[x] # 1 => Told(x)'
    BY <1>2, <1>4 DEF Told, Holds
  <2>1. CASE StartFiling(c)
    <3>1. x # c => Same(x)  BY <1>1, <2>1 DEF StartFiling, FilingTypeOK
    <3>2. /\ stage'[c] # "idle" => filing'[c] = "submitting"
          /\ filing'[c] \in {"submitting", "ready"}
          /\ UNCHANGED <<form, ids, saved>>
      BY <1>1, <2>1 DEF StartFiling, FilingTypeOK
    <3>3. Told(c) => Told(c)'  BY <1>2, <3>2 DEF Told, Holds
    <3> QED BY <1>4, <2>0, <3>1, <3>2, <3>3
  <2>2. CASE StageDone(c)
    <3>1. x # c => Same(x)  BY <1>1, <2>2 DEF StageDone, Commit, FilingTypeOK
    <3>2. stage[c] # "idle" /\ saved'[c] = ids[c] /\ UNCHANGED <<filing, form, ids>>
      BY <1>1, <2>2 DEF StageDone, Commit, FilingTypeOK
    <3>3. Told(c) => Told(c)'  BY <1>2, <3>2 DEF Told, Holds
    <3> QED BY <1>4, <2>0, <3>1, <3>2, <3>3
  <2>3. CASE FinalizeFiling(c)
    <3>1. x # c => Same(x)  BY <1>1, <2>3 DEF FinalizeFiling, Commit, FilingTypeOK
    <3>2. stage'[c] = "idle" /\ saved'[c] = ids[c] /\ UNCHANGED <<form, ids>>
      BY <1>1, <2>3 DEF FinalizeFiling, Commit, FilingTypeOK
    <3>3. Holds(ids[c].draft, Financial)
      <4>1. "financial" \in FilingStages /\ "contract" \in ItemsOf("financial")
        BY Items DEF FilingStages
      <4>2. Over(c, "financial", "contract")  BY <2>3 DEF FinalizeFiling, Over, Rank
      <4>3. Met(c, "financial", "contract")  BY <1>1, <4>1, <4>2 DEF Passed
      <4> QED BY <4>3 DEF Met, Financial
    <3>4. Told(c)'  BY <1>2, <3>2, <3>3 DEF Told, Holds
    <3> QED BY <2>0, <3>1, <3>2, <3>4
  <2>4. CASE RequestFails(c)
    <3>1. x # c => Same(x)  BY <1>1, <2>4 DEF RequestFails, Breaks, Commit, FilingTypeOK
    <3>2. /\ filing'[c] = "ready" /\ stage'[c] = "idle" /\ saved'[c] = ids[c]
          /\ UNCHANGED <<form, ids>>
      BY <1>1, <2>4 DEF RequestFails, Breaks, Commit, FilingTypeOK
    <3>3. Told(c) => Told(c)'  BY <1>2, <3>2 DEF Told, Holds
    <3> QED BY <1>4, <2>0, <3>1, <3>2, <3>3
  <2>5. CASE DieInPipeline(c)
    <3>1. x # c => Same(x)  BY <1>1, <2>5 DEF DieInPipeline, FilingTypeOK
    <3>2. /\ stage[c] # "idle" /\ stage'[c] = "idle" /\ ids'[c] = saved[c]
          /\ UNCHANGED <<filing, form, saved>>
      BY <1>1, <2>5 DEF DieInPipeline, FilingTypeOK
    <3>3. Told(c) => Told(c)'  BY <1>2, <3>2 DEF Told, Holds
    <3> QED BY <1>4, <2>0, <3>1, <3>2, <3>3
  <2>6. CASE Reject(c) \/ ResetRejected(c) \/ PutRight(c)
    <3>1. x # c => Same(x)  BY <1>1, <2>6 DEF Reject, ResetRejected, PutRight, FilingTypeOK
    <3>2. filing[c] \in {"submitted", "rejected", "draft"} /\ UNCHANGED <<stage, ids, saved>>
      BY <2>6 DEF Reject, ResetRejected, PutRight
    <3>3. Told(c)'  BY <1>2, <1>4, <3>2 DEF Told, Holds
    <3> QED BY <1>4, <2>0, <3>1, <3>2, <3>3
  <2> QED BY <2>1, <2>2, <2>3, <2>4, <2>5, <2>6
<1> QED BY <1>3, <1>5 DEF FixInv

LEMMA FixStep == FilingInv /\ FixInv /\ [FilingNext]_filingVars => FixInv'
<1> SUFFICES ASSUME FilingInv, FixInv, [FilingNext]_filingVars
             PROVE  FixInv'
  OBVIOUS
<1>1. ASSUME NEW c \in Contracts, Requests(c)
      PROVE  FixInv'
  BY <1>1, RequestFix DEF FilingInv
<1>2. CASE KeysLapse \/ UNCHANGED filingVars
  <2>1. KeysLapse => UNCHANGED <<filing, form, stage, ids, saved, held>>
    BY DEF KeysLapse, odooVars
  <2>2. UNCHANGED filingVars => UNCHANGED <<filing, form, stage, ids, saved, held>>
    BY DEF filingVars, odooVars, heldVars
  <2> QED BY <1>2, <2>1, <2>2 DEF FixInv, OnlyFirstForm, FixedLate, Told, Holds
<1> QED BY <1>1, <1>2, MovesFix DEF FilingNext, Pipeline

(* What the run ejar_filing_fix shows once is the rule: whatever is put    *)
(* right after a rejection, by whichever contract, pipeline or death on    *)
(* the way, Ejar keeps the financial information of the first form; so the *)
(* comment at ejar_contract.py:488 is true of the contracts that were not  *)
(* put right, and of no other (lifecycle_service.py:508-527).              *)
THEOREM NoFixIsFiled ==
    FilingSpec => [](/\ OnlyFirstForm
                     /\ FixIsFiled <=> \A c \in Contracts : filing[c] = "submitted" => began[c] <= 1)
<1>1. FilingInit => FixInv
  <2> SUFFICES ASSUME FilingInit
               PROVE  FixInv
    OBVIOUS
  <2>1. \A d \in Drafts : held[d][Financial] = 0
    BY HoldingsAre DEF FilingInit, Financial
  <2>2. \A x \in Contracts : stage[x] = "idle" /\ filing[x] = "ready" /\ form[x] = 1
    BY DEF FilingInit
  <2> QED BY <2>1, <2>2 DEF FixInv, OnlyFirstForm, FixedLate
<1>2. FilingInv /\ FixInv =>
        FixIsFiled <=> \A c \in Contracts : filing[c] = "submitted" => began[c] <= 1
  <2> SUFFICES ASSUME FilingInv, FixInv, NEW c \in Contracts, filing[c] = "submitted"
               PROVE  held[ids[c].draft][Financial] >= began[c] <=> began[c] <= 1
    BY DEF FixIsFiled, Financial
  <2>1. Holds(ids[c].draft, Financial)  BY DEF FixInv, FixedLate, Told
  <2>2. ids[c].draft \in Drafts  BY <2>1 DEF FilingInv, FilingTypeOK, Holds
  <2>3. held[ids[c].draft][Financial] = 1
    BY <2>1, <2>2 DEF FixInv, OnlyFirstForm, Holds
  <2>4. began[c] \in Nat  BY FinancialTyped DEF FilingInv
  <2> QED BY <2>3, <2>4
<1>3. FilingInv /\ FixInv /\ [FilingNext]_filingVars => FixInv'
  BY FixStep
<1> QED BY <1>1, <1>2, <1>3, FilingAlways, PTL DEF FilingSpec, FixInv
=============================================================================
