--------------------------- MODULE BackOfficeProofs ---------------------------
(***************************************************************************)
(* Proofs about the back office: tenancies, reservations, commissions and  *)
(* maintenance here, rent payments in a module of their own, and that the  *)
(* parts keep what is proved of them in the whole.                         *)
(***************************************************************************)
EXTENDS BackOffice, RentPaymentsProofs, TLAPS

-----------------------------------------------------------------------------
(* Tenancies: a tenancy is renewed once, for any tenancies and managers.   *)

(* What is not a row has no links.                                         *)
Blank == \A t \in Tenancies : ~Made(t) => tenancy[t] = NoneYet

(* A wizard is about a row; the row is deleted with it.                    *)
WizardsAboutRows == \A m \in Managers : renewal[m] # NoTenancy => Made(renewal[m])

(* A tenancy that is being renewed has not been, for whatever renews it    *)
(* writes its row.                                                         *)
ReadingHolds ==
    \A w \in Renewers : \A t \in renewing[w] : Made(t) /\ tenancy[t].to = NoTenancy

TenanciesInv == TenanciesTypeOK /\ Blank /\ WizardsAboutRows /\ ReadingHolds /\ RenewedOnce

-----------------------------------------------------------------------------
(* What is used of the types below.                                        *)
LEMMA TenanciesTypes ==
    ASSUME TenanciesTypeOK
    PROVE  /\ tenancy \in [Tenancies -> Tenancy]
           /\ renewal \in [Managers -> Tenancies \cup {NoTenancy}]
           /\ renewing \in [Renewers -> SUBSET Tenancies]
           /\ let \in BOOLEAN /\ frozen \in BOOLEAN /\ ending \subseteq Tenancies
           /\ \A t \in Tenancies : /\ tenancy[t].to \in Tenancies \cup {NoTenancy}
                                   /\ tenancy[t].from \in Tenancies \cup {NoTenancy}
                                   /\ tenancy[t].to # NoTenancy => Made(tenancy[t].to)
                                   /\ tenancy[t].from # NoTenancy => Made(tenancy[t].from)
  BY DEF TenanciesTypeOK, Tenancy, Made

(* A renewal that outlives a step that writes the rows ts is of none.      *)
LEMMA Survives ==
    ASSUME TenanciesTypeOK, NEW ts, Conflicts(ts)
    PROVE  /\ renewing' \in [Renewers -> SUBSET Tenancies]
           /\ \A w \in Renewers : \A t \in renewing'[w] : t \in renewing[w] /\ t \notin ts
  BY TenanciesTypes DEF Conflicts

(* Two rows that agree in their fields are equal.                          *)
LEMMA SameRow ==
    ASSUME NEW x \in Tenancy, NEW y \in Tenancy, x.state = y.state, x.to = y.to, x.from = y.from
    PROVE  x = y
  BY DEF Tenancy

(* The row a renewal creates.                                              *)
LEMMA RenewedRow ==
    ASSUME NEW s \in Tenancies
    PROVE  /\ Renewed(s) \in Tenancy
           /\ Renewed(s).state = "draft" /\ Renewed(s).to = NoTenancy /\ Renewed(s).from = s
<1>1. NoneYet \in Tenancy /\ NoneYet.to = NoTenancy
  BY DEF NoneYet, Tenancy
<1> QED
  BY <1>1 DEF Renewed, Tenancy

-----------------------------------------------------------------------------
(* A step that changes no link.                                            *)
LEMMA LinksKept ==
    ASSUME TenanciesInv,
           tenancy' \in [Tenancies -> Tenancy],
           let' \in BOOLEAN, frozen' \in BOOLEAN, ending' \subseteq Tenancies,
           renewal' \in [Managers -> Tenancies \cup {NoTenancy}],
           renewing' \in [Renewers -> SUBSET Tenancies],
           frozen => frozen',
           \A t \in Tenancies : /\ tenancy'[t].to = tenancy[t].to /\ tenancy'[t].from = tenancy[t].from
                                /\ Made(t) => tenancy'[t].state # "absent"
                                /\ tenancy'[t].state = "absent" => tenancy'[t] = tenancy[t],
           \A m \in Managers : renewal'[m] = renewal[m] \/ renewal'[m] = NoTenancy \/ Made(renewal'[m]),
           \A w \in Renewers : \A t \in renewing'[w] :
               t \in renewing[w] \/ (Made(t) /\ tenancy[t].to = NoTenancy)
    PROVE  TenanciesInv'
<1> USE TenanciesAssumption
<1>1. TenanciesTypeOK
  BY DEF TenanciesInv
<1>2. TenanciesTypeOK'
  <2>1. \A t \in Tenancies : \A s \in {tenancy'[t].to, tenancy'[t].from} \ {NoTenancy} :
          s \in Tenancies /\ Made(s)
    BY <1>1, TenanciesTypes
  <2>2. \A t \in Tenancies : \A s \in {tenancy'[t].to, tenancy'[t].from} \ {NoTenancy} :
          tenancy'[s].state # "absent"
    BY <2>1
  <2> QED
    BY <2>2 DEF TenanciesTypeOK
<1>3. Blank'
  BY DEF TenanciesInv, Blank, Made
<1>4. WizardsAboutRows'
  <2> SUFFICES ASSUME NEW m \in Managers, renewal'[m] # NoTenancy
               PROVE  tenancy'[renewal'[m]].state # "absent"
    BY DEF WizardsAboutRows, Made
  <2>1. Made(renewal'[m]) /\ renewal'[m] \in Tenancies
    BY DEF TenanciesInv, WizardsAboutRows
  <2> QED
    BY <2>1
<1>5. ReadingHolds'
  <2> SUFFICES ASSUME NEW w \in Renewers, NEW t \in renewing'[w]
               PROVE  tenancy'[t].state # "absent" /\ tenancy'[t].to = NoTenancy
    BY DEF ReadingHolds, Made
  <2>1. t \in Tenancies
    OBVIOUS
  <2>2. Made(t) /\ tenancy[t].to = NoTenancy
    BY DEF TenanciesInv, ReadingHolds
  <2> QED
    BY <2>1, <2>2
<1>6. RenewedOnce'
  <2> SUFFICES ASSUME ~frozen', NEW s \in Tenancies, NEW t \in Tenancies
               PROVE  tenancy'[t].from = s /\ tenancy'[t].state # "absent"
                        <=> tenancy'[s].to = t /\ tenancy'[s].state # "absent"
    BY DEF RenewedOnce, Made
  <2>1. tenancy[t].from = s /\ Made(t) <=> tenancy[s].to = t /\ Made(s)
    BY DEF TenanciesInv, RenewedOnce
  <2>2. tenancy[t].from = s => Made(t)
    BY DEF TenanciesInv, Blank, NoneYet
  <2>3. tenancy[s].to = t => Made(s)
    BY DEF TenanciesInv, Blank, NoneYet
  <2> QED
    BY <2>1, <2>2, <2>3
<1> QED
  BY <1>2, <1>3, <1>4, <1>5, <1>6 DEF TenanciesInv

(* A tenancy is drawn up.                                                  *)
LEMMA DrawKeeps ==
    ASSUME TenanciesInv, NEW t \in Tenancies, Draw(t)
    PROVE  TenanciesInv'
<1>1. /\ tenancy \in [Tenancies -> Tenancy] /\ renewal \in [Managers -> Tenancies \cup {NoTenancy}]
      /\ renewing \in [Renewers -> SUBSET Tenancies]
      /\ let \in BOOLEAN /\ frozen \in BOOLEAN /\ ending \subseteq Tenancies
  BY TenanciesTypes DEF TenanciesInv
<1>2. tenancy' \in [Tenancies -> Tenancy]
  BY <1>1 DEF Draw, Tenancy
<1>3. \A s \in Tenancies : /\ tenancy'[s].to = tenancy[s].to /\ tenancy'[s].from = tenancy[s].from
                           /\ Made(s) => tenancy'[s].state # "absent"
                           /\ tenancy'[s].state = "absent" => tenancy'[s] = tenancy[s]
  BY <1>1 DEF Draw, Made, Tenancy
<1> QED
  BY <1>1, <1>2, <1>3, LinksKept DEF Draw

(* Its state changes.                                                      *)
LEMMA BecomesKeeps ==
    ASSUME TenanciesInv, NEW t \in Tenancies, NEW state \in {"draft", "confirm", "running", "closed", "cancelled"},
           Becomes(t, state), let' \in BOOLEAN
    PROVE  TenanciesInv'
<1>1. /\ tenancy \in [Tenancies -> Tenancy] /\ renewal \in [Managers -> Tenancies \cup {NoTenancy}]
      /\ frozen \in BOOLEAN /\ ending \subseteq Tenancies
  BY TenanciesTypes DEF TenanciesInv
<1>2. tenancy' \in [Tenancies -> Tenancy]
  BY <1>1 DEF Becomes, Tenancy
<1>3. \A s \in Tenancies : /\ tenancy'[s].to = tenancy[s].to /\ tenancy'[s].from = tenancy[s].from
                           /\ Made(s) => tenancy'[s].state # "absent"
                           /\ tenancy'[s].state = "absent" => tenancy'[s] = tenancy[s]
  BY <1>1 DEF Becomes, Made, Tenancy
<1>4. /\ renewing' \in [Renewers -> SUBSET Tenancies]
      /\ \A w \in Renewers : \A s \in renewing'[w] : s \in renewing[w]
  BY Survives DEF TenanciesInv, Becomes
<1> QED
  BY <1>1, <1>2, <1>3, <1>4, LinksKept DEF Becomes

(* It is deleted, and the links to it are cleared.                         *)
LEMMA DeleteKeeps ==
    ASSUME TenanciesInv, NEW t \in Tenancies, Delete(t)
    PROVE  TenanciesInv'
<1> USE TenanciesAssumption
<1>1. /\ tenancy \in [Tenancies -> Tenancy] /\ renewal \in [Managers -> Tenancies \cup {NoTenancy}]
      /\ let \in BOOLEAN /\ frozen \in BOOLEAN /\ ending \subseteq Tenancies
  BY TenanciesTypes DEF TenanciesInv
<1>2. \A s \in Tenancies : /\ tenancy[s].to \in Tenancies \cup {NoTenancy}
                           /\ tenancy[s].from \in Tenancies \cup {NoTenancy}
                           /\ tenancy[s].to # NoTenancy => Made(tenancy[s].to)
                           /\ tenancy[s].from # NoTenancy => Made(tenancy[s].from)
  BY TenanciesTypes DEF TenanciesInv
<1>3. /\ \A s \in Tenancies : tenancy'[s] =
           IF s = t THEN NoneYet
           ELSE [tenancy[s] EXCEPT !.to = Without(t, @), !.from = Without(t, @)]
      /\ let' = let /\ frozen' = frozen /\ ending' = ending \ {t} /\ Made(t)
      /\ \A m \in Managers : renewal'[m] = Without(t, renewal[m])
      /\ Conflicts({s \in Tenancies : tenancy'[s] # tenancy[s]})
  BY DEF Delete
<1>4. tenancy'[t] = NoneYet
  BY <1>3
<1>5. ASSUME NEW s \in Tenancies, s # t
      PROVE  /\ tenancy'[s].state = tenancy[s].state
             /\ tenancy'[s].to = IF tenancy[s].to = t THEN NoTenancy ELSE tenancy[s].to
             /\ tenancy'[s].from = IF tenancy[s].from = t THEN NoTenancy ELSE tenancy[s].from
             /\ tenancy'[s] \in Tenancy
  <2>1. tenancy[s] \in Tenancy
    BY <1>1
  <2>2. tenancy'[s] = [tenancy[s] EXCEPT !.to = Without(t, tenancy[s].to), !.from = Without(t, tenancy[s].from)]
    BY <1>3, <1>5
  <2>3. Without(t, tenancy[s].to) \in Tenancies \cup {NoTenancy} /\ Without(t, tenancy[s].from) \in Tenancies \cup {NoTenancy}
    BY <1>2 DEF Without
  <2>4. /\ tenancy'[s].state = tenancy[s].state
        /\ tenancy'[s].to = Without(t, tenancy[s].to) /\ tenancy'[s].from = Without(t, tenancy[s].from)
        /\ tenancy'[s] \in Tenancy
    BY <2>1, <2>2, <2>3 DEF Tenancy
  <2> QED
    BY <2>4 DEF Without
<1>6. TenanciesTypeOK'
  <2>1. NoneYet \in Tenancy
    BY DEF NoneYet, Tenancy
  <2>2. tenancy' \in [Tenancies -> Tenancy]
    <3>1. \A s \in Tenancies : tenancy'[s] \in Tenancy
      BY <1>4, <1>5, <2>1
    <3>2. tenancy' = [s \in Tenancies |-> tenancy'[s]]
      BY DEF Delete
    <3> QED
      BY <3>1, <3>2
  <2>3. renewal' \in [Managers -> Tenancies \cup {NoTenancy}]
    BY <1>1 DEF Delete, Without
  <2>4. renewing' \in [Renewers -> SUBSET Tenancies]
    BY <1>3, Survives DEF TenanciesInv
  <2>5. ASSUME NEW s \in Tenancies, NEW u \in {tenancy'[s].to, tenancy'[s].from} \ {NoTenancy}
        PROVE  tenancy'[u].state # "absent"
    <3>1. s # t
      BY <1>4, <2>5 DEF NoneYet
    <3>2. u # t /\ u \in Tenancies /\ Made(u)
      BY <1>2, <1>5, <2>5, <3>1
    <3> QED
      BY <1>5, <3>2 DEF Made
  <2> QED
    BY <1>1, <1>3, <2>2, <2>3, <2>4, <2>5 DEF TenanciesTypeOK
<1>7. Blank'
  <2> SUFFICES ASSUME NEW s \in Tenancies, tenancy'[s].state = "absent" PROVE tenancy'[s] = NoneYet
    BY DEF Blank, Made
  <2>1. CASE s = t
    BY <1>4, <2>1
  <2>2. CASE s # t
    <3>1. tenancy[s] = NoneYet
      BY <1>5, <2>2 DEF TenanciesInv, Blank, Made
    <3>2. /\ NoneYet \in Tenancy /\ NoneYet.state = "absent"
          /\ NoneYet.to = NoTenancy /\ NoneYet.from = NoTenancy
      BY DEF NoneYet, Tenancy
    <3>3. tenancy'[s] \in Tenancy /\ tenancy'[s].to = NoTenancy /\ tenancy'[s].from = NoTenancy
      BY <1>5, <2>2, <3>1, <3>2
    <3> QED
      BY <3>2, <3>3, SameRow
  <2> QED
    BY <2>1, <2>2
<1>8. WizardsAboutRows'
  <2> SUFFICES ASSUME NEW m \in Managers, renewal'[m] # NoTenancy
               PROVE  tenancy'[renewal'[m]].state # "absent"
    BY DEF WizardsAboutRows, Made
  <2>1. renewal'[m] = renewal[m] /\ renewal[m] # t
    BY <1>3 DEF Without
  <2>2. renewal[m] \in Tenancies /\ Made(renewal[m])
    BY <1>1, <2>1 DEF TenanciesInv, WizardsAboutRows
  <2> QED
    BY <1>5, <2>1, <2>2 DEF Made
<1>9. ReadingHolds'
  <2> SUFFICES ASSUME NEW w \in Renewers, NEW s \in renewing'[w]
               PROVE  tenancy'[s].state # "absent" /\ tenancy'[s].to = NoTenancy
    BY DEF ReadingHolds, Made
  <2>1. renewing[w] \in SUBSET Tenancies
    BY TenanciesTypes DEF TenanciesInv
  <2>2. s \in renewing[w] /\ s \notin {u \in Tenancies : tenancy'[u] # tenancy[u]}
    BY <1>3, Survives DEF TenanciesInv
  <2>3. s \in Tenancies /\ tenancy'[s] = tenancy[s]
    BY <2>1, <2>2
  <2> QED
    BY <2>2, <2>3 DEF TenanciesInv, ReadingHolds, Made
<1>10. RenewedOnce'
  <2> SUFFICES ASSUME ~frozen', NEW a \in Tenancies, NEW b \in Tenancies
               PROVE  tenancy'[b].from = a /\ tenancy'[b].state # "absent"
                        <=> tenancy'[a].to = b /\ tenancy'[a].state # "absent"
    BY DEF RenewedOnce, Made
  <2>1. tenancy[b].from = a /\ Made(b) <=> tenancy[a].to = b /\ Made(a)
    BY <1>3 DEF TenanciesInv, RenewedOnce
  <2>2. CASE a = t \/ b = t
    <3>1. ~(tenancy'[b].from = a /\ tenancy'[b].state # "absent")
      BY <1>4, <1>5, <2>2 DEF NoneYet
    <3>2. ~(tenancy'[a].to = b /\ tenancy'[a].state # "absent")
      BY <1>4, <1>5, <2>2 DEF NoneYet
    <3> QED
      BY <3>1, <3>2
  <2>3. CASE a # t /\ b # t
    BY <1>5, <2>1, <2>3 DEF Made
  <2> QED
    BY <2>2, <2>3
<1> QED
  BY <1>6, <1>7, <1>8, <1>9, <1>10 DEF TenanciesInv

-----------------------------------------------------------------------------
(* A renewal is committed: what it renews has not been renewed since it was*)
(* read, and the new rows have not been linked to.                         *)
LEMMA RenewCommitsKeeps ==
    ASSUME TenanciesInv, NEW w \in Renewers, RenewCommits(w)
    PROVE  TenanciesInv'
<1> USE TenanciesAssumption
<1>1. /\ tenancy \in [Tenancies -> Tenancy] /\ renewal \in [Managers -> Tenancies \cup {NoTenancy}]
      /\ renewing \in [Renewers -> SUBSET Tenancies]
      /\ let \in BOOLEAN /\ frozen \in BOOLEAN /\ ending \subseteq Tenancies
      /\ \A s \in Tenancies : /\ tenancy[s].to \in Tenancies \cup {NoTenancy}
                              /\ tenancy[s].from \in Tenancies \cup {NoTenancy}
                              /\ tenancy[s].to # NoTenancy => Made(tenancy[s].to)
                              /\ tenancy[s].from # NoTenancy => Made(tenancy[s].from)
  BY TenanciesTypes DEF TenanciesInv
<1>2. PICK next \in Injection(renewing[w], {n \in Tenancies : Unused(n)}) :
        tenancy' = Renewals(w, next)
  BY DEF RenewCommits
<1> DEFINE old == renewing[w]
           new == {next[s] : s \in old}
<1>3. /\ Conflicts(old) /\ let' = let /\ renewal' = renewal /\ ending' = ending /\ frozen' = frozen
      /\ old \subseteq Tenancies
  BY <1>1 DEF RenewCommits
<1>4. /\ DOMAIN next = old /\ \A s \in old : next[s] \in Tenancies /\ ~Made(next[s])
      /\ \A s, u \in old : next[s] = next[u] => s = u
  BY <1>2 DEF Injection, IsInjective, Unused
<1>5. \A s \in old : Made(s) /\ tenancy[s].to = NoTenancy
  BY DEF TenanciesInv, ReadingHolds
<1>6. \A s \in Tenancies : tenancy'[s] =
        IF frozen /\ w # RenewalJob THEN tenancy[s]
        ELSE IF s \in old /\ ~frozen THEN [tenancy[s] EXCEPT !.to = next[s]]
        ELSE IF s \in new THEN Renewed(CHOOSE u \in old : next[u] = s)
        ELSE tenancy[s]
  BY <1>2, <1>4 DEF Renewals
<1>7. \A s \in old : (CHOOSE u \in old : next[u] = next[s]) = s
  BY <1>4
<1>8. \A s \in Tenancies : s \in new => s \notin old
  BY <1>4, <1>5
<1>9. ASSUME NEW s \in old
      PROVE  /\ (frozen => w = RenewalJob) =>
                  /\ tenancy'[next[s]] \in Tenancy /\ tenancy'[next[s]].state = "draft"
                  /\ tenancy'[next[s]].to = NoTenancy /\ tenancy'[next[s]].from = s
             /\ tenancy'[s].state = tenancy[s].state /\ tenancy'[s].from = tenancy[s].from
             /\ tenancy'[s].to = IF frozen THEN NoTenancy ELSE next[s]
             /\ tenancy'[s] \in Tenancy
  <2>1. s \in Tenancies /\ next[s] \in Tenancies /\ next[s] \in new /\ next[s] \notin old /\ s \notin new
    BY <1>3, <1>4, <1>8
  <2>2. tenancy[s] \in Tenancy /\ tenancy[s].to = NoTenancy
    BY <1>1, <1>5, <2>1
  <2>3. tenancy'[s] = IF frozen THEN tenancy[s] ELSE [tenancy[s] EXCEPT !.to = next[s]]
    BY <1>6, <2>1
  <2>4. (frozen => w = RenewalJob) => tenancy'[next[s]] = Renewed(s)
    <3>1. (CHOOSE u \in old : next[u] = next[s]) = s
      BY <1>7
    <3> HIDE DEF old, new
    <3>2. (frozen => w = RenewalJob) =>
             tenancy'[next[s]] = Renewed(CHOOSE u \in old : next[u] = next[s])
      BY <1>6, <2>1
    <3> QED
      BY <3>1, <3>2
  <2>5. /\ Renewed(s) \in Tenancy
        /\ Renewed(s).state = "draft" /\ Renewed(s).to = NoTenancy /\ Renewed(s).from = s
    BY <2>1, RenewedRow
  <2> HIDE DEF old, new
  <2> QED
    BY <2>1, <2>2, <2>3, <2>4, <2>5 DEF Tenancy
<1>10. ASSUME NEW s \in Tenancies, s \notin old, s \notin new \/ (frozen /\ w # RenewalJob)
       PROVE  tenancy'[s] = tenancy[s]
  BY <1>6, <1>10
<1>11. \A s \in Tenancies : (s \notin old /\ s \notin new) \/ s \in old \/ \E u \in old : s = next[u]
  OBVIOUS
<1> HIDE DEF old, new
<1>12. \A s \in Tenancies : Made(s) => s \notin new
  BY <1>4 DEF new
<1>13. \A s \in Tenancies : Made(s) => tenancy'[s].state # "absent"
  BY <1>9, <1>10, <1>12 DEF Made
<1>14. TenanciesTypeOK'
  <2>2. \A s \in Tenancies : tenancy'[s] \in Tenancy
    <3> SUFFICES ASSUME NEW s \in Tenancies PROVE tenancy'[s] \in Tenancy
      OBVIOUS
    <3>1. CASE s \in old
      BY <1>9, <3>1
    <3>2. CASE s \notin old /\ s \in new /\ (frozen => w = RenewalJob)
      BY <1>9, <1>11, <3>2
    <3>3. CASE s \notin old /\ ~(s \in new /\ (frozen => w = RenewalJob))
      BY <1>1, <1>10, <3>3
    <3> QED
      BY <3>1, <3>2, <3>3
  <2>3. tenancy' = [s \in Tenancies |-> tenancy'[s]]
    BY <1>2 DEF Renewals
  <2>4. tenancy' \in [Tenancies -> Tenancy]
    BY <2>2, <2>3
  <2>5. renewing' \in [Renewers -> SUBSET Tenancies]
    BY <1>3, Survives DEF TenanciesInv
  <2>6. ASSUME NEW s \in Tenancies, NEW u \in {tenancy'[s].to, tenancy'[s].from} \ {NoTenancy}
        PROVE  tenancy'[u].state # "absent"
    <3>1. CASE s \in old
      <4>1. CASE u = next[s] /\ ~frozen
        BY <1>9, <3>1, <4>1
      <4>2. CASE u = tenancy[s].from
        BY <1>1, <1>13, <2>6, <4>2
      <4> QED
        BY <1>9, <2>6, <3>1, <4>1, <4>2
    <3>2. CASE s \notin old /\ s \in new /\ (frozen => w = RenewalJob)
      <4>1. PICK v \in old : s = next[v]
        BY <1>11, <3>2
      <4>2. u = v
        BY <1>9, <2>6, <3>2, <4>1
      <4> QED
        BY <1>3, <1>5, <1>13, <4>2
    <3>3. CASE s \notin old /\ ~(s \in new /\ (frozen => w = RenewalJob))
      <4>1. tenancy'[s] = tenancy[s]
        BY <1>10, <3>3
      <4> QED
        BY <1>1, <1>13, <2>6, <4>1
    <3> QED
      BY <3>1, <3>2, <3>3
  <2> QED
    BY <1>1, <1>3, <2>4, <2>5, <2>6 DEF TenanciesTypeOK
<1>15. Blank'
  <2> SUFFICES ASSUME NEW s \in Tenancies, tenancy'[s].state = "absent" PROVE tenancy'[s] = NoneYet
    BY DEF Blank, Made
  <2>1. ~Made(s) /\ s \notin old
    BY <1>5, <1>13
  <2>2. s \notin new \/ (frozen /\ w # RenewalJob)
    BY <1>9, <1>11, <2>1
  <2> QED
    BY <1>10, <2>1, <2>2 DEF TenanciesInv, Blank
<1>16. WizardsAboutRows'
  BY <1>1, <1>3, <1>13 DEF TenanciesInv, WizardsAboutRows, Made
<1>17. ReadingHolds'
  <2> SUFFICES ASSUME NEW x \in Renewers, NEW s \in renewing'[x]
               PROVE  tenancy'[s].state # "absent" /\ tenancy'[s].to = NoTenancy
    BY DEF ReadingHolds, Made
  <2>1. s \in renewing[x] /\ s \notin old /\ s \in Tenancies
    BY <1>1, <1>3, Survives DEF TenanciesInv
  <2>2. Made(s) /\ tenancy[s].to = NoTenancy
    BY <2>1 DEF TenanciesInv, ReadingHolds
  <2>3. tenancy'[s] = tenancy[s]
    BY <1>10, <1>12, <2>1, <2>2
  <2> QED
    BY <2>2, <2>3 DEF Made
<1>18. RenewedOnce'
  <2> SUFFICES ASSUME ~frozen, NEW a \in Tenancies, NEW b \in Tenancies
               PROVE  tenancy'[b].from = a /\ tenancy'[b].state # "absent"
                        <=> tenancy'[a].to = b /\ tenancy'[a].state # "absent"
    BY <1>3 DEF RenewedOnce, Made
  <2>1. frozen => w = RenewalJob
    OBVIOUS
  <2>2. tenancy[b].from = a /\ Made(b) <=> tenancy[a].to = b /\ Made(a)
    BY DEF TenanciesInv, RenewedOnce
  <2>3. CASE a \in old
    <3>1. tenancy'[a].to = next[a] /\ tenancy'[a].state # "absent"
      BY <1>5, <1>9, <1>13, <2>3
    <3>2. CASE b = next[a]
      BY <1>9, <2>1, <2>3, <3>1, <3>2
    <3>3. CASE b # next[a]
      <4>1. ~(tenancy[b].from = a /\ Made(b))
        BY <1>5, <2>2, <2>3
      <4>2. tenancy'[b].from = a => b \notin new
        BY <1>9, <1>11, <2>1, <3>3 DEF new
      <4>3. b \notin new => tenancy'[b].from = tenancy[b].from /\ tenancy'[b].state = tenancy[b].state
        BY <1>9, <1>10
      <4> QED
        BY <3>1, <3>3, <4>1, <4>2, <4>3 DEF Made
    <3> QED
      BY <3>2, <3>3
  <2>4. CASE a \notin old /\ a \in new
    <3>1. ~Made(a) /\ tenancy'[a].to = NoTenancy
      BY <1>4, <1>9, <1>11, <2>1, <2>4
    <3>2. tenancy[b].from # a
      BY <1>1, <3>1
    <3>3. tenancy'[b].from # a
      <4>1. b \in new => tenancy'[b].from \in old
        BY <1>9, <2>1 DEF new
      <4>2. b \notin new => tenancy'[b].from = tenancy[b].from
        BY <1>9, <1>10
      <4> QED
        BY <2>4, <3>2, <4>1, <4>2
    <3> QED
      BY <3>1, <3>3
  <2>5. CASE a \notin old /\ a \notin new
    <3>1. tenancy'[a] = tenancy[a]
      BY <1>10, <2>5
    <3>2. CASE b \in new
      <4>1. ~Made(b) /\ tenancy'[b].from \in old
        BY <1>4, <1>9, <2>1, <3>2 DEF new
      <4>2. tenancy[a].to # b
        BY <1>1, <4>1
      <4> QED
        BY <2>5, <3>1, <4>1, <4>2
    <3>3. CASE b \notin new
      <4>1. tenancy'[b].from = tenancy[b].from /\ tenancy'[b].state = tenancy[b].state
        BY <1>9, <1>10, <3>3
      <4> QED
        BY <2>2, <3>1, <4>1 DEF Made
    <3> QED
      BY <3>2, <3>3
  <2> QED
    BY <2>3, <2>4, <2>5
<1> QED
  BY <1>14, <1>15, <1>16, <1>17, <1>18 DEF TenanciesInv

-----------------------------------------------------------------------------
LEMMA TenanciesContinues ==
    ASSUME TenanciesInv, [NextTenancies]_tenancyVars
    PROVE  TenanciesInv'
<1> USE TenanciesAssumption
<1>1. /\ tenancy \in [Tenancies -> Tenancy] /\ renewal \in [Managers -> Tenancies \cup {NoTenancy}]
      /\ renewing \in [Renewers -> SUBSET Tenancies]
      /\ let \in BOOLEAN /\ frozen \in BOOLEAN /\ ending \subseteq Tenancies
  BY TenanciesTypes DEF TenanciesInv
<1>2. ASSUME NEW t \in Tenancies, ConfirmTenancy(t) \/ StartTenancy(t) \/ SetToDraft(t) \/ CloseTenancy(t) \/ CancelTenancy(t)
      PROVE  TenanciesInv'
  BY <1>1, <1>2, BecomesKeeps DEF ConfirmTenancy, StartTenancy, SetToDraft, CloseTenancy, CancelTenancy, EndTenancy
<1>3. ASSUME NEW t \in Tenancies, ComesToEnd(t) PROVE TenanciesInv'
  BY <1>1, <1>3, LinksKept DEF ComesToEnd, Made
<1>4. ASSUME NEW m \in Managers, NEW t \in Tenancies, OpenRenewal(m, t) PROVE TenanciesInv'
  <2>1. Made(t)
    BY <1>4 DEF OpenRenewal, Made
  <2> QED
    BY <1>1, <1>4, <2>1, LinksKept DEF OpenRenewal, Made
<1>5. ASSUME NEW m \in Managers, RenewReads(m) PROVE TenanciesInv'
  <2>1. renewal[m] \in Tenancies /\ Made(renewal[m]) /\ tenancy[renewal[m]].to = NoTenancy
    BY <1>1, <1>5 DEF RenewReads, TenanciesInv, WizardsAboutRows
  <2>2. renewing' = [renewing EXCEPT ![m] = {renewal[m]}]
    BY <1>5 DEF RenewReads, Begins
  <2>3. renewing' \in [Renewers -> SUBSET Tenancies]
    BY <1>1, <2>1, <2>2
  <2>4. \A w \in Renewers : \A t \in renewing'[w] :
          t \in renewing[w] \/ (Made(t) /\ tenancy[t].to = NoTenancy)
    BY <1>1, <2>1, <2>2
  <2>5. tenancy' = tenancy /\ let' = let /\ ending' = ending /\ frozen' = frozen
        /\ renewal' = [renewal EXCEPT ![m] = NoTenancy]
    BY <1>5 DEF RenewReads, Begins
  <2> QED
    BY <1>1, <2>3, <2>4, <2>5, LinksKept DEF Made
<1>6. CASE AutoRenewReads
  <2> DEFINE due == {t \in Tenancies : Due(t)}
  <2>1. renewing' = [renewing EXCEPT ![RenewalJob] = due]
    BY <1>6 DEF AutoRenewReads, Begins
  <2>2. \A t \in due : Made(t) /\ tenancy[t].to = NoTenancy
    BY DEF Due, Made
  <2>3. due \subseteq Tenancies
    OBVIOUS
  <2> HIDE DEF due
  <2>4. renewing' \in [Renewers -> SUBSET Tenancies]
    BY <1>1, <2>1, <2>3
  <2>5. \A w \in Renewers : \A t \in renewing'[w] :
          t \in renewing[w] \/ (Made(t) /\ tenancy[t].to = NoTenancy)
    BY <1>1, <2>1, <2>2
  <2>6. tenancy' = tenancy /\ let' = let /\ ending' = ending /\ frozen' = frozen /\ renewal' = renewal
    BY <1>6 DEF AutoRenewReads, Begins
  <2> QED
    BY <1>1, <2>4, <2>5, <2>6, LinksKept DEF Made
<1>7. CASE FreezeRents
  BY <1>1, <1>7, LinksKept DEF FreezeRents, Made
<1>8. CASE UNCHANGED tenancyVars
  BY <1>1, <1>8, LinksKept DEF tenancyVars, Made
<1> QED
  BY <1>2, <1>3, <1>4, <1>5, <1>6, <1>7, <1>8, DrawKeeps, DeleteKeeps, RenewCommitsKeeps
     DEF NextTenancies, TenancyAction

LEMMA TenanciesStarts == InitTenancies => TenanciesInv
<1> SUFFICES ASSUME InitTenancies PROVE TenanciesInv
  OBVIOUS
<1> USE TenanciesAssumption
<1>1. TenanciesTypeOK
  BY DEF InitTenancies, TenanciesTypeOK, NoneYet, Tenancy
<1>2. Blank /\ WizardsAboutRows /\ ReadingHolds /\ RenewedOnce
  BY DEF InitTenancies, Blank, WizardsAboutRows, ReadingHolds, RenewedOnce, Made, NoneYet
<1> QED
  BY <1>1, <1>2 DEF TenanciesInv

(* For any tenancies and managers: wizards and the daily job renew a       *)
(* tenancy once, and the links agree, as long as rents are not frozen      *)
(* (action_renew, cron_auto_renew_tenancies).                              *)
THEOREM RenewedAtMostOnce == TenanciesSpec => [](TenanciesTypeOK /\ RenewedOnce)
<1>1. InitTenancies => TenanciesInv
  BY TenanciesStarts
<1>2. TenanciesInv /\ [NextTenancies]_tenancyVars => TenanciesInv'
  BY TenanciesContinues
<1>3. TenanciesInv => TenanciesTypeOK /\ RenewedOnce
  BY DEF TenanciesInv
<1> QED
  BY <1>1, <1>2, <1>3, PTL DEF TenanciesSpec

-----------------------------------------------------------------------------
(* Reservations: the leads of an agent reserve a property once, for any    *)
(* reservations, properties, leads, agents and managers.                   *)

(* property_id and lead_id are required.                                   *)
RowsComplete ==
    \A r \in Reservations : Booked(r) => booking[r].on \in Properties /\ booking[r].by \in Leads

(* What the search of an activation has found is still so: whatever has    *)
(* activated another reservation of the property since has written the     *)
(* property's row, and undone the activation.                              *)
SearchHolds ==
    \A a \in Agents : confirming[a].of # None =>
        /\ Booked(confirming[a].of)
        /\ booking[confirming[a].of].on \notin moved =>
             \A s \in ActiveOn(booking, booking[confirming[a].of].on) :
                 AgentOf(s) = AgentOf(confirming[a].of) => s = confirming[a].of

(* is_reserved may miss a reservation, but shows none that is not active.  *)
HolderActive == \A p \in Properties : holder[p] = None \/ holder[p] \in ActiveOn(booking, p)

OnceEach ==
    \A p \in Properties \ moved : \A r, s \in ActiveOn(booking, p) : AgentOf(r) = AgentOf(s) => r = s

HeldShows ==
    \A p \in Properties \ moved : OfOneAgent(p) /\ ActiveOn(booking, p) # {} => holder[p] # None

ReservationsInv ==
    ReservationsTypeOK /\ RowsComplete /\ SearchHolds /\ HolderActive /\ OnceEach /\ HeldShows

-----------------------------------------------------------------------------
LEMMA NoActivationOK == NoActivation.of = None /\ NoActivation \in Confirming
  BY DEF NoActivation, Confirming

(* An activation that outlives a step has its rows as it has read them.    *)
LEMMA Outlives ==
    ASSUME NEW agents, NEW leads, OthersUndone(agents, leads), NEW a \in Agents, confirming'[a].of # None
    PROVE  /\ a \notin agents
           /\ confirming'[a] = confirming[a]
           /\ booking'[confirming[a].of] = booking[confirming[a].of]
           /\ holder'[booking[confirming[a].of].on] = holder[booking[confirming[a].of].on]
<1>1. confirming'[a] = IF a \in agents \/ Undone(a, leads) THEN NoActivation ELSE confirming[a]
  BY DEF OthersUndone
<1>2. a \notin agents /\ ~Undone(a, leads) /\ confirming'[a] = confirming[a]
  BY <1>1, NoActivationOK
<1> QED
  BY <1>2 DEF Undone

(* Two reservations of a property that the step brings into one hand have  *)
(* been in one hand before.                                                *)
NoneJoined(p) ==
    \A r, s \in Reservations :
        Booked(r) /\ Booked(s) /\ booking[r].on = p /\ booking[s].on = p /\ AgentOf(r)' = AgentOf(s)'
        => AgentOf(r) = AgentOf(s)

(* A step that activates nothing on the properties that count.             *)
LEMMA NoMoreActive ==
    ASSUME ReservationsInv, ReservationsTypeOK', RowsComplete', HolderActive', HeldShows', moved \subseteq moved',
           \A p \in Properties \ moved' : ActiveOn(booking', p) \subseteq ActiveOn(booking, p) /\ NoneJoined(p),
           \A a \in Agents : confirming'[a].of # None =>
               /\ confirming'[a] = confirming[a]
               /\ booking'[confirming[a].of] = booking[confirming[a].of]
    PROVE  ReservationsInv'
<1>1. SearchHolds'
  <2> SUFFICES ASSUME NEW a \in Agents, confirming'[a].of # None
               PROVE  /\ booking'[confirming'[a].of].state # "absent"
                      /\ booking'[confirming'[a].of].on \notin moved' =>
                           \A s \in ActiveOn(booking', booking'[confirming'[a].of].on) :
                              AgentOf(s)' = AgentOf(confirming[a].of)' => s = confirming[a].of
    BY DEF SearchHolds, Booked, AgentOf
  <2> DEFINE r == confirming[a].of
             p == booking[r].on
  <2>1. confirming'[a].of = r /\ r # None /\ booking'[r] = booking[r]
    OBVIOUS
  <2>2. /\ Booked(r)
        /\ p \notin moved => \A s \in ActiveOn(booking, p) : AgentOf(s) = AgentOf(r) => s = r
    BY <2>1 DEF ReservationsInv, SearchHolds
  <2>3. r \in Reservations
    BY <2>1 DEF ReservationsInv, ReservationsTypeOK, Confirming
  <2>4. p \in Properties
    BY <2>2, <2>3 DEF ReservationsInv, RowsComplete
  <2>5. ASSUME p \notin moved', NEW s \in ActiveOn(booking', p), AgentOf(s)' = AgentOf(r)' PROVE s = r
    <3>1. NoneJoined(p) /\ s \in ActiveOn(booking, p)
      BY <2>4, <2>5
    <3>2. s \in Reservations /\ Booked(s) /\ booking[s].on = p
      BY <3>1 DEF ActiveOn, Booked
    <3>3. AgentOf(s) = AgentOf(r)
      BY <2>2, <2>3, <2>5, <3>1, <3>2 DEF NoneJoined
    <3> QED
      BY <2>2, <2>5, <3>1, <3>3
  <2>6. booking'[r].on = p
    BY <2>1
  <2> QED
    BY <2>1, <2>2, <2>5, <2>6 DEF Booked
<1>2. OnceEach'
  <2> SUFFICES ASSUME NEW p \in Properties \ moved', NEW r \in ActiveOn(booking', p), NEW s \in ActiveOn(booking', p),
                      AgentOf(r)' = AgentOf(s)'
               PROVE  r = s
    BY DEF OnceEach, AgentOf
  <2>1. r \in ActiveOn(booking, p) /\ s \in ActiveOn(booking, p) /\ NoneJoined(p) /\ p \notin moved
    OBVIOUS
  <2>2. /\ r \in Reservations /\ Booked(r) /\ booking[r].on = p
        /\ s \in Reservations /\ Booked(s) /\ booking[s].on = p
    BY <2>1 DEF ActiveOn, Booked
  <2>3. AgentOf(r) = AgentOf(s)
    BY <2>1, <2>2 DEF NoneJoined
  <2> QED
    BY <2>1, <2>3 DEF ReservationsInv, OnceEach
<1> QED
  BY <1>1, <1>2 DEF ReservationsInv

(* _compute_is_reserved of a property.                                     *)
LEMMA RecomputedHolder ==
    ASSUME NEW ps, NEW seen, holder' \in Recomputed(booking', ps, seen), NEW p \in Properties
    PROVE  \/ p \notin ps /\ holder'[p] = holder[p]
           \/ p \in ps /\ ActiveOn(booking', p) \cap seen = {} /\ holder'[p] = None
           \/ p \in ps /\ holder'[p] \in ActiveOn(booking', p)
  BY DEF Recomputed

(* Who sees one reservation of a property that one agent's leads reserve   *)
(* sees them all.                                                          *)
LEMMA SeesAll ==
    ASSUME NEW a \in Agents, NEW r \in Seen(a), OfOneAgent(booking[r].on),
           NEW s \in Reservations, Booked(s), booking[s].on = booking[r].on
    PROVE  s \in Seen(a)
  BY DEF Seen, OfOneAgent

-----------------------------------------------------------------------------
(* A reservation stops being active.                                       *)
LEMMA EndsKeep ==
    ASSUME ReservationsInv, NEW rs \in SUBSET Reservations, \A r \in rs : Booked(r),
           NEW state \in {"expired", "cancelled", "converted"},
           \A r \in Reservations : booking'[r] = IF r \in rs THEN [booking[r] EXCEPT !.state = state] ELSE booking[r],
           booking' \in [Reservations -> Booking], lead' \in [Leads -> Lead],
           \A l \in Leads : lead'[l].agent = lead[l].agent,
           NEW seen, NEW leads,
           holder' \in Recomputed(booking', {booking[r].on : r \in rs}, seen),
           \A r \in rs, s \in Reservations :
               OfOneAgent(booking[r].on) /\ Booked(s) /\ booking[s].on = booking[r].on => s \in seen,
           moved' = moved, OthersUndone({}, leads)
    PROVE  ReservationsInv'
<1> DEFINE ps == {booking[r].on : r \in rs}
<1>1. booking \in [Reservations -> Booking] /\ confirming \in [Agents -> Confirming]
  BY DEF ReservationsInv, ReservationsTypeOK
<1>2. \A r \in Reservations : /\ booking'[r].on = booking[r].on /\ booking'[r].by = booking[r].by
                              /\ booking'[r].state = IF r \in rs THEN state ELSE booking[r].state
  BY <1>1 DEF Booking
<1>3. ReservationsTypeOK'
  <2>1. holder' \in [Properties -> Reservations \cup {None}]
    BY DEF Recomputed
  <2>2. confirming' \in [Agents -> Confirming]
    BY <1>1, NoActivationOK DEF OthersUndone
  <2> QED
    BY <2>1, <2>2 DEF ReservationsInv, ReservationsTypeOK
<1>4. RowsComplete'
  BY <1>2 DEF ReservationsInv, RowsComplete, Booked
<1>5. \A p \in Properties : ActiveOn(booking', p) \subseteq ActiveOn(booking, p)
  BY <1>2 DEF ActiveOn
<1>6. \A p \in Properties \ ps : ActiveOn(booking', p) = ActiveOn(booking, p)
  BY <1>2 DEF ActiveOn
<1>7. \A a \in Agents : confirming'[a].of # None =>
        confirming'[a] = confirming[a] /\ booking'[confirming[a].of] = booking[confirming[a].of]
  BY Outlives
<1>8. \A r \in Reservations : Booked(r) => AgentOf(r)' = AgentOf(r)
  BY <1>2 DEF ReservationsInv, RowsComplete, AgentOf
<1>9. \A r \in Reservations : Booked(r)' <=> Booked(r)
  BY <1>2 DEF Booked
<1>10. \A p \in Properties : NoneJoined(p) /\ (OfOneAgent(p)' => OfOneAgent(p))
  BY <1>2, <1>8, <1>9 DEF NoneJoined, OfOneAgent
<1>11. HolderActive'
  <2> SUFFICES ASSUME NEW p \in Properties PROVE holder'[p] = None \/ holder'[p] \in ActiveOn(booking', p)
    BY DEF HolderActive
  <2>1. holder[p] = None \/ holder[p] \in ActiveOn(booking, p)
    BY DEF ReservationsInv, HolderActive
  <2> HIDE DEF ps
  <2> QED
    BY <1>6, <2>1, RecomputedHolder DEF ps
<1>12. HeldShows'
  <2> SUFFICES ASSUME NEW p \in Properties \ moved, OfOneAgent(p)', NEW s \in ActiveOn(booking', p)
               PROVE  holder'[p] # None
    BY DEF HeldShows
  <2>1. OfOneAgent(p)
    BY <1>10
  <2>2. s \in Reservations /\ Booked(s) /\ booking[s].on = p
    BY <1>2 DEF ActiveOn, Booked
  <2>3. p \in ps => s \in seen
    BY <2>1, <2>2
  <2>4. p \notin ps => holder[p] # None
    BY <1>6, <2>1 DEF ReservationsInv, HeldShows
  <2>5. None \notin ActiveOn(booking', p)
    BY ReservationsAssumption DEF ActiveOn
  <2> HIDE DEF ps
  <2> QED
    BY <2>3, <2>4, <2>5, RecomputedHolder DEF ps
<1> HIDE DEF ps
<1> QED
  BY <1>3, <1>4, <1>5, <1>7, <1>10, <1>11, <1>12, NoMoreActive

(* A new reservation is a draft.                                           *)
LEMMA ReserveKeeps ==
    ASSUME ReservationsInv, NEW r \in Reservations, NEW p \in Properties, NEW l \in Leads, Reserve(r, p, l)
    PROVE  ReservationsInv'
<1>1. booking \in [Reservations -> Booking] /\ booking[r].state = "absent"
  BY DEF ReservationsInv, ReservationsTypeOK, Reserve, Booked
<1>2. /\ \A s \in Reservations : booking'[s] = IF s = r THEN [state |-> "draft", on |-> p, by |-> l] ELSE booking[s]
      /\ holder' = holder /\ lead' = lead /\ confirming' = confirming /\ moved' = moved
  BY <1>1 DEF Reserve
<1>3. ReservationsTypeOK'
  <2>1. [state |-> "draft", on |-> p, by |-> l] \in Booking
    BY DEF Booking
  <2> QED
    BY <1>1, <1>2, <2>1 DEF ReservationsInv, ReservationsTypeOK, Reserve
<1>4. RowsComplete'
  BY <1>2 DEF ReservationsInv, RowsComplete, Booked
<1>5. \A q \in Properties : ActiveOn(booking', q) = ActiveOn(booking, q)
  BY <1>1, <1>2 DEF ActiveOn
<1>6. \A a \in Agents : confirming[a].of # None =>
        confirming[a].of \in Reservations /\ confirming[a].of # r
  BY <1>1 DEF ReservationsInv, ReservationsTypeOK, Confirming, SearchHolds, Booked
<1>7. \A a \in Agents : confirming'[a].of # None =>
        confirming'[a] = confirming[a] /\ booking'[confirming[a].of] = booking[confirming[a].of]
  BY <1>2, <1>6
<1>8. \A s \in Reservations : Booked(s) => Booked(s)' /\ booking'[s] = booking[s] /\ AgentOf(s)' = AgentOf(s)
  BY <1>1, <1>2 DEF Booked, AgentOf
<1>9. \A q \in Properties : NoneJoined(q) /\ (OfOneAgent(q)' => OfOneAgent(q))
  BY <1>8 DEF NoneJoined, OfOneAgent
<1>10. HolderActive' /\ HeldShows'
  BY <1>2, <1>5, <1>9 DEF ReservationsInv, HolderActive, HeldShows
<1> QED
  BY <1>2, <1>3, <1>4, <1>5, <1>7, <1>9, <1>10, NoMoreActive

(* The search of an activation.                                            *)
LEMMA ActivateReadsKeeps ==
    ASSUME ReservationsInv, NEW a \in Agents, NEW r \in Reservations, ActivateReads(a, r)
    PROVE  ReservationsInv'
<1> DEFINE new == [of |-> r, category |-> lead[booking[r].by].category]
<1>1. booking' = booking /\ holder' = holder /\ lead' = lead /\ moved' = moved
  BY DEF ActivateReads
<1>2. confirming' = [confirming EXCEPT ![a] = new] /\ confirming \in [Agents -> Confirming]
  BY DEF ActivateReads, ReservationsInv, ReservationsTypeOK
<1>3. Booked(r) /\ booking[r].on \in Properties /\ booking[r].by \in Leads
  BY DEF ActivateReads, Seen, ReservationsInv, RowsComplete
<1>4. new \in Confirming /\ new.of = r
  BY <1>3 DEF ReservationsInv, ReservationsTypeOK, Confirming, Lead
<1> HIDE DEF new
<1>5. ReservationsTypeOK'
  BY <1>1, <1>2, <1>4 DEF ReservationsInv, ReservationsTypeOK
<1>6. RowsComplete' /\ HolderActive' /\ OnceEach' /\ HeldShows'
  BY <1>1 DEF ReservationsInv, RowsComplete, HolderActive, OnceEach, HeldShows, OfOneAgent, AgentOf, Booked, ActiveOn
<1>7. ASSUME NEW s \in ActiveOn(booking, booking[r].on), AgentOf(s) = AgentOf(r) PROVE s = r
  <2>1. s \in Reservations /\ Booked(s)
    BY DEF ActiveOn, Booked
  <2>2. s \in Seen(a)
    BY <1>7, <2>1 DEF ActivateReads, Seen
  <2> QED
    BY <2>2 DEF ActivateReads
<1>8. SearchHolds'
  <2> SUFFICES ASSUME NEW b \in Agents, confirming'[b].of # None
               PROVE  /\ Booked(confirming'[b].of)
                      /\ booking[confirming'[b].of].on \notin moved =>
                           \A s \in ActiveOn(booking, booking[confirming'[b].of].on) :
                              AgentOf(s) = AgentOf(confirming'[b].of) => s = confirming'[b].of
    BY <1>1 DEF SearchHolds, Booked, AgentOf
  <2>1. CASE b = a
    BY <1>2, <1>3, <1>4, <1>7, <2>1
  <2>2. CASE b # a
    BY <1>2, <2>2 DEF ReservationsInv, SearchHolds
  <2> QED
    BY <2>1, <2>2
<1> QED
  BY <1>5, <1>6, <1>8 DEF ReservationsInv

(* The write of an activation: any other of the same property would have   *)
(* changed active_reservation_id, and undone this one.                     *)
LEMMA ActivateCommitsKeeps ==
    ASSUME ReservationsInv, NEW a \in Agents, ActivateCommits(a)
    PROVE  ReservationsInv'
<1> DEFINE r == confirming[a].of
           p == booking[r].on
<1>1. /\ booking \in [Reservations -> Booking] /\ confirming \in [Agents -> Confirming]
      /\ holder \in [Properties -> Reservations \cup {None}] /\ lead \in [Leads -> Lead]
  BY DEF ReservationsInv, ReservationsTypeOK
<1>2. r \in Reservations /\ r # None /\ Booked(r)
  BY <1>1 DEF ActivateCommits, Confirming, ReservationsInv, SearchHolds
<1>3. p \in Properties /\ booking[r].by \in Leads
  BY <1>2 DEF ReservationsInv, RowsComplete
<1>4. p \notin moved => \A s \in ActiveOn(booking, p) : AgentOf(s) = AgentOf(r) => s = r
  BY <1>2 DEF ReservationsInv, SearchHolds
<1>5. PICK leads : OthersUndone({a}, leads)
  BY DEF ActivateCommits
<1>6. /\ booking' = [booking EXCEPT ![r].state = "active"]
      /\ holder' = [holder EXCEPT ![p] = r]
      /\ lead' = IF confirming[a].category = "opportunity" THEN lead
                 ELSE [lead EXCEPT ![booking[r].by].category = "opportunity"]
      /\ moved' = moved
  BY DEF ActivateCommits
<1>7. booking[r].on = p
  OBVIOUS
<1> HIDE DEF r, p
<1>8. \A s \in Reservations :
        /\ booking'[s].on = booking[s].on /\ booking'[s].by = booking[s].by
        /\ booking'[s].state = IF s = r THEN "active" ELSE booking[s].state
        /\ Booked(s)' <=> Booked(s)
  BY <1>1, <1>2, <1>6 DEF Booking, Booked
<1>9. \A l \in Leads : lead'[l].agent = lead[l].agent
  BY <1>1, <1>6 DEF Lead
<1>10. \A s \in Reservations : Booked(s) => AgentOf(s)' = AgentOf(s)
  BY <1>8, <1>9 DEF AgentOf, ReservationsInv, RowsComplete
<1>11. ReservationsTypeOK'
  <2>1. booking' \in [Reservations -> Booking]
    BY <1>1, <1>6 DEF Booking
  <2>2. holder' \in [Properties -> Reservations \cup {None}]
    BY <1>1, <1>2, <1>6
  <2>3. lead' \in [Leads -> Lead]
    BY <1>1, <1>6 DEF Lead
  <2>4. confirming' \in [Agents -> Confirming]
    BY <1>1, <1>5, NoActivationOK DEF OthersUndone
  <2> QED
    BY <1>6, <2>1, <2>2, <2>3, <2>4 DEF ReservationsInv, ReservationsTypeOK
<1>12. RowsComplete'
  BY <1>8 DEF ReservationsInv, RowsComplete
<1>13. \A q \in Properties \ {p} : ActiveOn(booking', q) = ActiveOn(booking, q) /\ holder'[q] = holder[q]
  <2>1. \A q \in Properties \ {p} : ActiveOn(booking', q) = ActiveOn(booking, q)
    BY <1>7, <1>8 DEF ActiveOn
  <2> QED
    BY <1>1, <1>6, <2>1
<1>14. holder'[p] = r
  BY <1>1, <1>3, <1>6
<1>15. ActiveOn(booking', p) = ActiveOn(booking, p) \cup {r}
  BY <1>2, <1>7, <1>8 DEF ActiveOn
<1>16. \A q \in Properties : \A s \in ActiveOn(booking', q) : s \in Reservations /\ Booked(s) /\ booking[s].on = q
  BY <1>2, <1>8 DEF ActiveOn, Booked
<1>17. HolderActive'
  BY <1>13, <1>14, <1>15 DEF ReservationsInv, HolderActive
<1>18. HeldShows'
  <2> SUFFICES ASSUME NEW q \in Properties \ moved, OfOneAgent(q)', ActiveOn(booking', q) # {}
               PROVE  holder'[q] # None
    BY <1>6 DEF HeldShows
  <2>1. OfOneAgent(q)
    BY <1>8, <1>10 DEF OfOneAgent
  <2>2. CASE q = p
    BY <1>2, <1>14, <2>2
  <2>3. CASE q # p
    BY <1>13, <2>1, <2>3 DEF ReservationsInv, HeldShows
  <2> QED
    BY <2>2, <2>3
<1>19. OnceEach'
  <2> SUFFICES ASSUME NEW q \in Properties \ moved, NEW s \in ActiveOn(booking', q), NEW t \in ActiveOn(booking', q),
                      AgentOf(s)' = AgentOf(t)'
               PROVE  s = t
    BY <1>6 DEF OnceEach, AgentOf
  <2>1. AgentOf(s) = AgentOf(t)
    BY <1>10, <1>16
  <2>2. CASE s \in ActiveOn(booking, q) /\ t \in ActiveOn(booking, q)
    BY <2>1, <2>2 DEF ReservationsInv, OnceEach
  <2>3. CASE q = p /\ (s = r \/ t = r)
    BY <1>4, <1>15, <2>1, <2>3
  <2> QED
    BY <1>13, <1>15, <2>2, <2>3
<1>20. SearchHolds'
  <2> SUFFICES ASSUME NEW b \in Agents, confirming'[b].of # None
               PROVE  /\ booking'[confirming'[b].of].state # "absent"
                      /\ booking'[confirming'[b].of].on \notin moved' =>
                           \A t \in ActiveOn(booking', booking'[confirming'[b].of].on) :
                              lead'[booking'[t].by].agent = lead'[booking'[confirming'[b].of].by].agent
                              => t = confirming'[b].of
    BY DEF SearchHolds, Booked, AgentOf
  <2>1. PICK s \in Reservations : s = confirming[b].of /\ s # None /\ confirming'[b].of = s
    BY <1>1, <1>5, Outlives DEF Confirming
  <2>2. PICK q \in Properties : q = booking[s].on
    BY <2>1 DEF ReservationsInv, RowsComplete, SearchHolds
  <2>3. booking'[s] = booking[s] /\ holder'[q] = holder[q]
    BY <1>5, <2>1, <2>2, Outlives
  <2>4. Booked(s) /\ (q \notin moved => \A t \in ActiveOn(booking, q) : AgentOf(t) = AgentOf(s) => t = s)
    BY <2>1, <2>2 DEF ReservationsInv, SearchHolds
  <2>5. ASSUME q \notin moved, NEW t \in ActiveOn(booking', q), AgentOf(t)' = AgentOf(s)' PROVE t = s
    <3>1. AgentOf(t) = AgentOf(s)
      BY <1>10, <1>16, <2>4, <2>5
    <3>2. t \in ActiveOn(booking, q)
      <4>1. CASE q # p
        BY <1>13, <4>1
      <4>2. CASE q = p
        <5>1. holder[p] = r
          BY <1>14, <2>3, <4>2
        <5>2. r \in ActiveOn(booking, p)
          BY <1>2, <1>3, <5>1 DEF ReservationsInv, HolderActive
        <5> QED
          BY <1>15, <4>2, <5>2
      <4> QED
        BY <4>1, <4>2
    <3> QED
      BY <2>4, <2>5, <3>1, <3>2
  <2>6. booking'[s].on = q /\ booking'[s].state # "absent"
    BY <2>3, <2>4, <2>2 DEF Booked
  <2>7. q \notin moved => \A t \in ActiveOn(booking', q) :
                           lead'[booking'[t].by].agent = lead'[booking'[s].by].agent => t = s
    BY <2>5 DEF AgentOf
  <2>8. confirming'[b].of = s /\ moved' = moved
    BY <1>6, <2>1
  <2>9. /\ booking'[s].state # "absent"
        /\ booking'[s].on \notin moved' =>
             \A t \in ActiveOn(booking', booking'[s].on) :
                lead'[booking'[t].by].agent = lead'[booking'[s].by].agent => t = s
    BY <2>6, <2>7, <2>8
  <2> QED
    BY <2>8, <2>9
<1> QED
  BY <1>11, <1>12, <1>17, <1>18, <1>19, <1>20 DEF ReservationsInv

(* The form moves a reservation.                                           *)
LEMMA MoveKeeps ==
    ASSUME ReservationsInv, NEW r \in Reservations, NEW p \in Properties, MoveReservation(r, p)
    PROVE  ReservationsInv'
<1> DEFINE ps == {booking[r].on, p}
<1>1. booking \in [Reservations -> Booking] /\ confirming \in [Agents -> Confirming]
  BY DEF ReservationsInv, ReservationsTypeOK
<1>2. /\ booking' = [booking EXCEPT ![r].on = p] /\ Booked(r) /\ booking[r].on # p
      /\ holder' \in Recomputed(booking', ps, Reservations)
      /\ moved' = IF booking[r].state = "active" THEN moved \cup {p} ELSE moved
      /\ lead' = lead /\ OthersUndone({}, {})
  BY DEF MoveReservation
<1>3. \A s \in Reservations :
        /\ booking'[s].state = booking[s].state /\ booking'[s].by = booking[s].by
        /\ booking'[s].on = IF s = r THEN p ELSE booking[s].on
  BY <1>1, <1>2 DEF Booking
<1>4. ReservationsTypeOK'
  <2>1. booking' \in [Reservations -> Booking]
    BY <1>1, <1>2 DEF Booking
  <2>2. holder' \in [Properties -> Reservations \cup {None}]
    BY <1>2 DEF Recomputed
  <2>3. confirming' \in [Agents -> Confirming]
    BY <1>1, <1>2, NoActivationOK DEF OthersUndone
  <2>4. moved' \subseteq Properties
    BY <1>2 DEF ReservationsInv, ReservationsTypeOK
  <2> QED
    BY <1>2, <2>1, <2>2, <2>3, <2>4 DEF ReservationsInv, ReservationsTypeOK
<1>5. RowsComplete'
  BY <1>3 DEF ReservationsInv, RowsComplete, Booked
<1>6. \A q \in Properties \ moved' : ActiveOn(booking', q) \subseteq ActiveOn(booking, q)
  BY <1>2, <1>3 DEF ActiveOn
<1>7. \A q \in Properties \ ps : ActiveOn(booking', q) = ActiveOn(booking, q)
  BY <1>3 DEF ActiveOn
<1>8. \A a \in Agents : confirming'[a].of # None =>
        confirming'[a] = confirming[a] /\ booking'[confirming[a].of] = booking[confirming[a].of]
  BY <1>2, Outlives
<1>9. \A s \in Reservations : AgentOf(s)' = AgentOf(s) /\ (Booked(s)' <=> Booked(s))
  BY <1>2, <1>3 DEF AgentOf, Booked
<1>10. \A q \in Properties : NoneJoined(q)
  BY <1>9 DEF NoneJoined
<1>11. \A q \in Properties \ ps : OfOneAgent(q)' => OfOneAgent(q)
  BY <1>3, <1>9 DEF OfOneAgent
<1>12. \A q \in Properties : ActiveOn(booking', q) \cap Reservations = ActiveOn(booking', q)
  BY DEF ActiveOn
<1> HIDE DEF ps
<1>13. HolderActive'
  <2> SUFFICES ASSUME NEW q \in Properties PROVE holder'[q] = None \/ holder'[q] \in ActiveOn(booking', q)
    BY DEF HolderActive
  <2> QED
    BY <1>2, <1>7, RecomputedHolder DEF ReservationsInv, HolderActive
<1>14. HeldShows'
  <2> SUFFICES ASSUME NEW q \in Properties \ moved', OfOneAgent(q)', ActiveOn(booking', q) # {}
               PROVE  holder'[q] # None
    BY DEF HeldShows
  <2>1. None \notin ActiveOn(booking', q)
    BY ReservationsAssumption DEF ActiveOn
  <2>2. q \notin ps => holder[q] # None
    BY <1>2, <1>7, <1>11 DEF ReservationsInv, HeldShows
  <2>3. ActiveOn(booking', q) \cap Reservations # {}
    BY <1>12
  <2>4. \/ q \notin ps /\ holder'[q] = holder[q]
        \/ q \in ps /\ holder'[q] \in ActiveOn(booking', q)
    BY <1>2, <2>3, RecomputedHolder
  <2> QED
    BY <2>1, <2>2, <2>4
<1>15. moved \subseteq moved'
  BY <1>2
<1> QED
  BY <1>4, <1>5, <1>6, <1>8, <1>10, <1>13, <1>14, <1>15, NoMoreActive

(* A step that leaves the reservations alone.                              *)
LEMMA OthersKeep ==
    ASSUME ReservationsInv, booking' = booking, holder' = holder, moved \subseteq moved', moved' \subseteq Properties,
           lead' \in [Leads -> Lead], \A p \in Properties \ moved' : NoneJoined(p),
           NEW leads, confirming' = confirming \/ OthersUndone({}, leads)
    PROVE  ReservationsInv'
<1>1. confirming \in [Agents -> Confirming]
  BY DEF ReservationsInv, ReservationsTypeOK
<1>2. confirming' \in [Agents -> Confirming]
  BY <1>1, NoActivationOK DEF OthersUndone
<1>3. ReservationsTypeOK'
  BY <1>2 DEF ReservationsInv, ReservationsTypeOK
<1>4. RowsComplete' /\ HolderActive'
  BY DEF ReservationsInv, RowsComplete, Booked, HolderActive
<1>5. \A a \in Agents : confirming'[a].of # None =>
        confirming'[a] = confirming[a] /\ booking'[confirming[a].of] = booking[confirming[a].of]
  BY Outlives
<1>6. ASSUME NEW p \in Properties \ moved', OfOneAgent(p)' PROVE OfOneAgent(p)
  <2> SUFFICES ASSUME NEW r \in Reservations, NEW s \in Reservations,
                      Booked(r), Booked(s), booking[r].on = p, booking[s].on = p
               PROVE  AgentOf(r) = AgentOf(s)
    BY DEF OfOneAgent
  <2>1. AgentOf(r)' = AgentOf(s)'
    BY <1>6 DEF OfOneAgent, Booked
  <2> QED
    BY <2>1 DEF NoneJoined
<1>7. HeldShows'
  <2> SUFFICES ASSUME NEW p \in Properties \ moved', OfOneAgent(p)', ActiveOn(booking, p) # {}
               PROVE  holder[p] # None
    BY DEF HeldShows
  <2> QED
    BY <1>6 DEF ReservationsInv, HeldShows
<1> QED
  BY <1>3, <1>4, <1>5, <1>7, NoMoreActive

(* A lead's row is written; its agent stays.                               *)
LEMMA LeadBecomesKeeps ==
    ASSUME ReservationsInv, NEW l \in Leads, NEW new \in Lead, new.agent = lead[l].agent, LeadBecomes(l, new)
    PROVE  ReservationsInv'
<1>1. lead \in [Leads -> Lead] /\ moved \subseteq Properties
  BY DEF ReservationsInv, ReservationsTypeOK
<1>2. lead' = [lead EXCEPT ![l] = new] /\ booking' = booking /\ holder' = holder /\ moved' = moved
      /\ OthersUndone({}, {l})
  BY DEF LeadBecomes
<1>3. \A k \in Leads : lead'[k].agent = lead[k].agent
  BY <1>1, <1>2
<1>4. \A p \in Properties : NoneJoined(p)
  BY <1>2, <1>3 DEF NoneJoined, AgentOf, ReservationsInv, RowsComplete
<1> QED
  BY <1>1, <1>2, <1>4, OthersKeep

(* A lead is handed over: where its reservations have met those of other   *)
(* leads, the property no longer counts.                                   *)
LEMMA AssignKeeps ==
    ASSUME ReservationsInv, NEW l \in Leads, NEW agent \in Agents \cup {None}, Assign(l, agent)
    PROVE  ReservationsInv'
<1>1. lead \in [Leads -> Lead] /\ moved \subseteq Properties
  BY DEF ReservationsInv, ReservationsTypeOK
<1>2. /\ lead' = [lead EXCEPT ![l].agent = agent] /\ booking' = booking /\ holder' = holder
      /\ moved' = moved \cup {p \in Properties :
                                /\ \E r \in Reservations : booking[r].on = p /\ booking[r].by = l
                                /\ \E r \in Reservations : booking[r].on = p /\ booking[r].by # l}
      /\ OthersUndone({}, {l})
  BY DEF Assign
<1>3. lead' \in [Leads -> Lead] /\ \A k \in Leads \ {l} : lead'[k] = lead[k]
  BY <1>1, <1>2 DEF Lead
<1>4. ASSUME NEW p \in Properties \ moved' PROVE NoneJoined(p)
  <2> SUFFICES ASSUME NEW r \in Reservations, NEW s \in Reservations,
                      Booked(r), Booked(s), booking[r].on = p, booking[s].on = p, AgentOf(r)' = AgentOf(s)'
               PROVE  AgentOf(r) = AgentOf(s)
    BY DEF NoneJoined
  <2>1. booking[r].by \in Leads /\ booking[s].by \in Leads
    BY DEF ReservationsInv, RowsComplete
  <2>2. booking[r].by = l <=> booking[s].by = l
    BY <1>2
  <2> QED
    BY <1>2, <1>3, <2>1, <2>2 DEF AgentOf
<1>5. moved' \subseteq Properties /\ moved \subseteq moved'
  BY <1>1, <1>2
<1> QED
  BY <1>2, <1>3, <1>4, <1>5, OthersKeep

-----------------------------------------------------------------------------
LEMMA ReservationsContinues ==
    ASSUME ReservationsInv, [NextReservations]_reservationVars
    PROVE  ReservationsInv'
<1>1. /\ booking \in [Reservations -> Booking] /\ lead \in [Leads -> Lead]
      /\ moved \subseteq Properties
  BY DEF ReservationsInv, ReservationsTypeOK
<1>2. ASSUME NEW a \in Agents, NEW r \in Reservations, CancelReservation(a, r) PROVE ReservationsInv'
  <2> DEFINE over == {r}
  <2>1. {booking[s].on : s \in over} = {booking[r].on}
    OBVIOUS
  <2>2. booking' \in [Reservations -> Booking]
    BY <1>1, <1>2 DEF CancelReservation, Booking
  <2>3. \A s \in Reservations : booking'[s] = IF s \in over THEN [booking[s] EXCEPT !.state = "cancelled"] ELSE booking[s]
    BY <1>1, <1>2 DEF CancelReservation
  <2>4. /\ \A s \in over : Booked(s)
        /\ holder' \in Recomputed(booking', {booking[s].on : s \in over}, Seen(a))
        /\ moved' = moved /\ OthersUndone({}, {})
    BY <1>2, <2>1 DEF CancelReservation, Seen
  <2>5. lead' \in [Leads -> Lead] /\ \A l \in Leads : lead'[l].agent = lead[l].agent
    BY <1>1, <1>2 DEF CancelReservation
  <2>6. over \in SUBSET Reservations
    OBVIOUS
  <2>7. \A q \in over, s \in Reservations :
          OfOneAgent(booking[q].on) /\ Booked(s) /\ booking[s].on = booking[q].on => s \in Seen(a)
    BY <1>2, SeesAll DEF CancelReservation
  <2> HIDE DEF over
  <2> QED
    BY <2>2, <2>3, <2>4, <2>5, <2>6, <2>7, EndsKeep
<1>3. ASSUME NEW a \in Agents, NEW r \in Reservations, ConvertToDeal(a, r) PROVE ReservationsInv'
  <2> DEFINE over == {r}
             l == booking[r].by
  <2>1. {booking[s].on : s \in over} = {booking[r].on}
    OBVIOUS
  <2>2. booking' \in [Reservations -> Booking]
    BY <1>1, <1>3 DEF ConvertToDeal, Booking
  <2>3. \A s \in Reservations : booking'[s] = IF s \in over THEN [booking[s] EXCEPT !.state = "converted"] ELSE booking[s]
    BY <1>1, <1>3 DEF ConvertToDeal
  <2>4. /\ \A s \in over : Booked(s)
        /\ holder' \in Recomputed(booking', {booking[s].on : s \in over}, Seen(a))
        /\ moved' = moved /\ OthersUndone({}, {l})
    BY <1>3, <2>1 DEF ConvertToDeal, Seen
  <2>5. lead' \in [Leads -> Lead] /\ \A k \in Leads : lead'[k].agent = lead[k].agent
    <3>1. l \in Leads
      BY <2>4 DEF ReservationsInv, RowsComplete
    <3>2. lead' = [lead EXCEPT ![l] = WonBy(l)]
      BY <1>3 DEF ConvertToDeal
    <3>3. WonBy(l) \in Lead /\ WonBy(l).agent = lead[l].agent
      BY <1>1, <3>1 DEF WonBy, Lead
    <3> QED
      BY <1>1, <3>1, <3>2, <3>3
  <2>6. over \in SUBSET Reservations
    OBVIOUS
  <2>7. \A q \in over, s \in Reservations :
          OfOneAgent(booking[q].on) /\ Booked(s) /\ booking[s].on = booking[q].on => s \in Seen(a)
    BY <1>3, SeesAll DEF ConvertToDeal
  <2> HIDE DEF over, l
  <2> QED
    BY <2>2, <2>3, <2>4, <2>5, <2>6, <2>7, EndsKeep
<1>4. ASSUME NEW overdue \in SUBSET Reservations, ExpireReservations(overdue) PROVE ReservationsInv'
  <2>1. booking' \in [Reservations -> Booking]
    BY <1>1, <1>4 DEF ExpireReservations, Booking
  <2>2. \A r \in overdue : Booked(r)
    BY <1>4 DEF ExpireReservations, Booked
  <2>3. \A s \in Reservations : booking'[s] = IF s \in overdue THEN [booking[s] EXCEPT !.state = "expired"] ELSE booking[s]
    BY <1>4 DEF ExpireReservations
  <2>4. /\ holder' \in Recomputed(booking', {booking[r].on : r \in overdue}, Reservations)
        /\ moved' = moved /\ lead' = lead /\ OthersUndone({}, {})
    BY <1>4 DEF ExpireReservations
  <2> QED
    BY <1>1, <2>1, <2>2, <2>3, <2>4, EndsKeep
<1>5. ASSUME NEW l \in Leads, LeadAction(l) PROVE ReservationsInv'
  <2>1. lead[l] \in Lead
    BY <1>1
  <2>2. CASE \E agent \in Agents \cup {None} : Assign(l, agent)
    BY <2>2, AssignKeeps
  <2>3. CASE Qualify(l) \/ MarkWon(l) \/ MarkLost(l) \/ Reopen(l)
    <3>1. PICK new \in Lead : LeadBecomes(l, new) /\ new.agent = lead[l].agent
      BY <2>1, <2>3 DEF Qualify, MarkWon, MarkLost, Reopen, WonBy, Lead
    <3> QED
      BY <3>1, LeadBecomesKeeps
  <2> QED
    BY <1>5, <2>2, <2>3 DEF LeadAction
<1>6. CASE UNCHANGED reservationVars
  <2>1. booking' = booking /\ holder' = holder /\ lead' = lead /\ moved' = moved /\ confirming' = confirming
    BY <1>6 DEF reservationVars
  <2>2. \A p \in Properties : NoneJoined(p)
    BY <2>1 DEF NoneJoined, AgentOf
  <2> QED
    BY <1>1, <2>1, <2>2, OthersKeep
<1> QED
  BY <1>2, <1>3, <1>4, <1>5, <1>6, ReserveKeeps, ActivateReadsKeeps, ActivateCommitsKeeps, MoveKeeps
     DEF NextReservations, ReservationAction

LEMMA ReservationsStarts == InitReservations => ReservationsInv
<1> SUFFICES ASSUME InitReservations PROVE ReservationsInv
  OBVIOUS
<1>1. ReservationsTypeOK
  BY NoActivationOK DEF InitReservations, ReservationsTypeOK, NoBooking, Booking, NewLeads, Lead
<1>2. RowsComplete /\ SearchHolds
  BY NoActivationOK DEF InitReservations, RowsComplete, SearchHolds, Booked, NoBooking
<1>3. HolderActive /\ \A p \in Properties : ActiveOn(booking, p) = {}
  BY DEF InitReservations, HolderActive, ActiveOn, NoBooking
<1>4. OnceEach /\ HeldShows
  BY <1>3 DEF OnceEach, HeldShows
<1> QED
  BY <1>1, <1>2, <1>3, <1>4 DEF ReservationsInv

LEMMA ReservedByInvariant == ReservationsInv => ReservedOnceByAgent
<1> SUFFICES ASSUME ReservationsInv, NEW p \in Properties \ moved
             PROVE  /\ \A r, s \in ActiveOn(booking, p) : AgentOf(r) = AgentOf(s) => r = s
                    /\ OfOneAgent(p) => ActiveOn(booking, p) = IF holder[p] = None THEN {} ELSE {holder[p]}
  BY DEF ReservedOnceByAgent
<1>1. \A r, s \in ActiveOn(booking, p) : AgentOf(r) = AgentOf(s) => r = s
  BY DEF ReservationsInv, OnceEach
<1>2. OfOneAgent(p) => \A r, s \in ActiveOn(booking, p) : AgentOf(r) = AgentOf(s)
  BY DEF OfOneAgent, ActiveOn, Booked
<1>3. holder[p] = None \/ holder[p] \in ActiveOn(booking, p)
  BY DEF ReservationsInv, HolderActive
<1>4. OfOneAgent(p) /\ ActiveOn(booking, p) # {} => holder[p] # None
  BY DEF ReservationsInv, HeldShows
<1> QED
  BY <1>1, <1>2, <1>3, <1>4

(* For any reservations, properties, leads, agents and managers: the leads *)
(* of one agent hold a property at most once, and one that no other leads  *)
(* reserve shows as reserved exactly while it is (action_activate under    *)
(* the record rules, _compute_is_reserved).                                *)
THEOREM PropertyReservedOnce == ReservationsSpec => [](ReservationsTypeOK /\ ReservedOnceByAgent)
<1>1. InitReservations => ReservationsInv
  BY ReservationsStarts
<1>2. ReservationsInv /\ [NextReservations]_reservationVars => ReservationsInv'
  BY ReservationsContinues
<1>3. ReservationsInv => ReservationsTypeOK /\ ReservedOnceByAgent
  BY ReservedByInvariant DEF ReservationsInv
<1> QED
  BY <1>1, <1>2, <1>3, PTL DEF ReservationsSpec

-----------------------------------------------------------------------------
(* Commissions: the state of a commission contract follows its lines, for  *)
(* any lines, clerks and numbers of instalments.                           *)

(* What a request under way has read.  One that is going to write the      *)
(* contract's row has read the row as it is; one that is not may have read *)
(* an old state, but changes nothing the state is derived from.            *)
RequestOK(r) ==
    /\ r.of \in Listed
    /\ r.of \in Paid <=> r.of \in r.paid
    /\ WritesContract(r) => r.paid = Paid /\ r.state = commission
    /\ commission = "draft" /\ r.of \in Paid => r.state = "draft"
    /\ unsettled /\ r.state \notin {"draft", "cancelled"} => WritesContract(r)

RequestsOK == \A c \in Clerks : request[c].of # NoLine => RequestOK(request[c])

UnsettledIsConfirmed == unsettled => Paid # {} /\ commission = "confirmed"

CommissionsInv == CommissionsTypeOK /\ RequestsOK /\ UnsettledIsConfirmed /\ StateFollowsLines

-----------------------------------------------------------------------------
(* A request that is over is none.                                         *)
LEMMA NoRequestOK == NoRequest.of = NoLine /\ NoRequest \in Request
  BY DEF NoRequest, Request, CommissionStates

(* Types                                                                   *)
LEMMA MeetType ==
    ASSUME CommissionsTypeOK, NEW clerks, NEW ls, NEW contract, Meet(clerks, ls, contract)
    PROVE  request' \in [Clerks -> Request]
  BY NoRequestOK DEF CommissionsTypeOK, Meet

LEMMA CommissionsTypeStep ==
    ASSUME CommissionsTypeOK, [NextCommissions]_commissionVars
    PROVE  CommissionsTypeOK'
<1> USE DEF CommissionsTypeOK
<1>1. ASSUME NEW l \in Lines, NEW c \in Clerks, NEW to \in {"billed", "paid", "cancelled"}, Asks(c, l, to)
      PROVE  CommissionsTypeOK'
  <2>1. [of |-> l, to |-> to, paid |-> Paid, state |-> commission] \in Request
    BY DEF Request, Paid
  <2> QED
    BY <1>1, <2>1 DEF Asks
<1>2. ASSUME NEW c \in Clerks, RequestCommits(c) PROVE CommissionsTypeOK'
  <2>1. request[c] \in Request /\ request[c].of \in Lines
    BY <1>2 DEF RequestCommits, Request
  <2>2. Refreshed(request[c]) \in CommissionStates
    BY <2>1 DEF Refreshed, Derived, CommissionStates, Request
  <2>3. commission' \in CommissionStates /\ unsettled' \in BOOLEAN
    BY <1>2, <2>2 DEF RequestCommits
  <2>4. PICK b \in {"none", "draft", "posted"} :
          line' = [line EXCEPT ![request[c].of] = [state |-> request[c].to, bill |-> b]]
    BY <1>2, <2>1 DEF RequestCommits, Line
  <2>5. line' \in [Lines -> Line]
    BY <2>1, <2>4 DEF Line, Request
  <2>6. request' \in [Clerks -> Request]
    BY <1>2, MeetType DEF RequestCommits
  <2> QED
    BY <2>3, <2>5, <2>6
<1>3. ASSUME NEW l \in Lines, NEW posting \in {"posted", "none"}, BillBecomes(l, posting)
      PROVE  CommissionsTypeOK'
  BY <1>3 DEF BillBecomes, Line
<1>4. CASE ConfirmCommission
  <2>1. PICK new \in SUBSET (Lines \ Paid) :
          line' = [l \in Lines |-> IF l \in Paid THEN line[l]
                                   ELSE IF l \in new THEN [state |-> "pending", bill |-> "none"]
                                   ELSE [state |-> "absent", bill |-> "none"]]
    BY <1>4 DEF ConfirmCommission
  <2>2. line' \in [Lines -> Line]
    BY <2>1 DEF Line
  <2>3. request' \in [Clerks -> Request]
    BY <1>4, MeetType DEF ConfirmCommission
  <2>4. commission' \in CommissionStates /\ unsettled' \in BOOLEAN
    BY <1>4 DEF ConfirmCommission, CommissionStates
  <2> QED
    BY <2>2, <2>3, <2>4
<1>5. ASSUME NEW state \in {"cancelled", "draft"}, ContractBecomes(state) PROVE CommissionsTypeOK'
  BY <1>5, MeetType DEF ContractBecomes, CommissionStates
<1>6. CASE UNCHANGED commissionVars
  BY <1>6 DEF commissionVars
<1> QED
  BY <1>1, <1>2, <1>3, <1>4, <1>5, <1>6
     DEF NextCommissions, LineAction, CreateBill, MarkLinePaid, CancelLine, EditLine,
         PostBill, WithdrawBill, CancelCommission, SetCommissionToDraft

-----------------------------------------------------------------------------
(* A step that leaves the contract and its lines' states as they are, and  *)
(* starts no request that is not in order, leaves the invariant.           *)
LEMMA Undisturbed ==
    ASSUME CommissionsInv, CommissionsTypeOK',
           Listed' = Listed, Paid' = Paid, commission' = commission, unsettled' = unsettled,
           \A c \in Clerks : request'[c] = request[c] \/ request'[c].of = NoLine \/ RequestOK(request'[c])
    PROVE  CommissionsInv'
<1>1. RequestsOK'
  <2> SUFFICES ASSUME NEW c \in Clerks, request'[c].of # NoLine PROVE RequestOK(request[c])'
    BY DEF RequestsOK
  <2>1. RequestOK(request'[c])
    BY DEF CommissionsInv, RequestsOK
  <2> QED
    BY <2>1 DEF RequestOK, WritesContract, Refreshed, Derived, PaidAfter
<1>2. UnsettledIsConfirmed'
  BY DEF CommissionsInv, UnsettledIsConfirmed
<1>3. StateFollowsLines'
  BY DEF CommissionsInv, StateFollowsLines, Derived
<1> QED
  BY <1>1, <1>2, <1>3 DEF CommissionsInv

(* A new request.                                                          *)
LEMMA AsksKeeps ==
    ASSUME CommissionsInv, CommissionsTypeOK',
           NEW c \in Clerks, NEW l \in Lines, NEW to \in {"billed", "paid", "cancelled"}, Asks(c, l, to)
    PROVE  CommissionsInv'
<1> DEFINE r == [of |-> l, to |-> to, paid |-> Paid, state |-> commission]
<1>1. Listed' = Listed /\ Paid' = Paid /\ commission' = commission /\ unsettled' = unsettled
  BY DEF Asks, Listed, Paid
<1>2. \A d \in Clerks : request'[d] = IF d = c THEN r ELSE request[d]
  BY DEF Asks, CommissionsInv, CommissionsTypeOK
<1>3. RequestOK(r)
  <2>1. r.of = l /\ r.to = to /\ r.paid = Paid /\ r.state = commission
    OBVIOUS
  <2> HIDE DEF r
  <2>2. r.of \in Listed
    BY <2>1 DEF Asks
  <2>3. ASSUME unsettled, PaidAfter(r) = r.paid PROVE Refreshed(r) # r.state
    <3>1. commission = "confirmed" /\ Paid # {}
      BY <2>3 DEF CommissionsInv, UnsettledIsConfirmed
    <3> QED
      BY <2>1, <2>3, <3>1 DEF Refreshed, Derived
  <2>4. r.of # NoLine
    BY <2>1, CommissionsAssumption
  <2> QED
    BY <2>1, <2>2, <2>3, <2>4 DEF RequestOK, WritesContract
<1> HIDE DEF r
<1> QED
  BY <1>1, <1>2, <1>3, Undisturbed

(* The end of a request.                                                   *)
LEMMA CommitKeeps ==
    ASSUME CommissionsInv, CommissionsTypeOK', NEW c \in Clerks, RequestCommits(c)
    PROVE  CommissionsInv'
<1> DEFINE r == request[c]
<1>1. r \in Request /\ r.of \in Lines /\ r.of # NoLine /\ RequestOK(r)
  BY DEF CommissionsInv, CommissionsTypeOK, Request, RequestsOK, RequestCommits
<1>2. line \in [Lines -> Line] /\ request \in [Clerks -> Request]
  BY DEF CommissionsInv, CommissionsTypeOK
<1>3. PICK b : line' = [line EXCEPT ![r.of] = [state |-> r.to, bill |-> b]]
  BY DEF RequestCommits
<1>4. /\ commission' = IF Refreshed(r) # r.state THEN Refreshed(r) ELSE commission
      /\ unsettled' = (unsettled /\ r.state \in {"draft", "cancelled"})
      /\ Meet({c}, {r.of}, WritesContract(r))
  BY DEF RequestCommits
<1> HIDE DEF r
<1>5. r.to \in {"billed", "paid", "cancelled"} /\ r.paid \subseteq Lines
  BY <1>1 DEF Request
<1>6. \A l \in Lines : line'[l].state = IF l = r.of THEN r.to ELSE line[l].state
  BY <1>2, <1>3
<1>7. Listed' = Listed
  BY <1>1, <1>5, <1>6 DEF RequestOK, Listed
<1>8. Paid' = IF r.to = "paid" THEN Paid \cup {r.of} ELSE Paid \ {r.of}
  BY <1>1, <1>5, <1>6 DEF Paid
<1>9. ASSUME NEW d \in Clerks, request'[d].of # NoLine
      PROVE  /\ request'[d] = request[d] /\ request[d].of # r.of
             /\ WritesContract(r) => ~WritesContract(request[d])
             /\ RequestOK(request[d])
  <2>1. request'[d] = IF d \in {c} \/ request[d].of \in {r.of} \/ (WritesContract(r) /\ WritesContract(request[d]))
                        THEN NoRequest ELSE request[d]
    BY <1>4 DEF Meet
  <2>2. request'[d] = request[d] /\ request[d].of # r.of /\ (WritesContract(r) => ~WritesContract(request[d]))
    BY <1>9, <2>1, NoRequestOK
  <2>3. RequestOK(request[d])
    BY <1>9, <2>2 DEF CommissionsInv, RequestsOK
  <2> QED
    BY <2>2, <2>3
<1>10. CASE WritesContract(r)
  <2>1. r.paid = Paid /\ r.state = commission
    BY <1>1, <1>10 DEF RequestOK
  <2>2. Paid' = PaidAfter(r)
    BY <1>8, <2>1 DEF PaidAfter
  <2>3. commission' = Refreshed(r)
    BY <1>4, <2>1
  <2>4. ~unsettled'
    BY <1>4, <2>1 DEF CommissionsInv, UnsettledIsConfirmed
  <2>5. commission' = "draft" => commission = "draft"
    BY <2>1, <2>3 DEF Refreshed, Derived
  <2>6. StateFollowsLines'
    <3>1. commission' \in {"confirmed", "partial", "paid"} => commission' = Derived(PaidAfter(r))
      BY <2>3 DEF Refreshed
    <3> QED
      BY <1>7, <2>2, <3>1 DEF StateFollowsLines, Derived
  <2>7. UnsettledIsConfirmed'
    BY <2>4 DEF UnsettledIsConfirmed
  <2>8. RequestsOK'
    <3> SUFFICES ASSUME NEW d \in Clerks, request'[d].of # NoLine PROVE RequestOK(request[d])'
      BY DEF RequestsOK
    <3> DEFINE q == request[d]
    <3>1. request'[d] = q /\ q.of # r.of /\ ~WritesContract(q) /\ RequestOK(q)
      BY <1>9, <1>10
    <3> HIDE DEF q
    <3>2. q.of \in Paid' <=> q.of \in Paid
      BY <1>8, <3>1
    <3>3. /\ q.of \in Listed'
          /\ q.of \in Paid' <=> q.of \in q.paid
          /\ commission' = "draft" /\ q.of \in Paid' => q.state = "draft"
      BY <1>7, <2>5, <3>1, <3>2 DEF RequestOK
    <3>4. ~(q.of # NoLine /\ (Refreshed(q) # q.state \/ PaidAfter(q) # q.paid))
      BY <3>1 DEF WritesContract
    <3> QED
      BY <1>7, <2>4, <3>1, <3>3, <3>4 DEF RequestOK, WritesContract, Refreshed, Derived, PaidAfter
  <2> QED
    BY <2>6, <2>7, <2>8 DEF CommissionsInv
<1>11. CASE ~WritesContract(r)
  <2>1. Refreshed(r) = r.state /\ PaidAfter(r) = r.paid
    BY <1>1, <1>11 DEF WritesContract
  <2>2. Paid' = Paid
    BY <1>1, <1>8, <2>1 DEF RequestOK, PaidAfter
  <2>3. commission' = commission
    BY <1>4, <2>1
  <2>4. unsettled' = unsettled
    BY <1>1, <1>4, <1>11 DEF RequestOK, CommissionsInv, CommissionsTypeOK
  <2>5. \A d \in Clerks : request'[d] = request[d] \/ request'[d].of = NoLine \/ RequestOK(request'[d])
    BY <1>9
  <2> QED
    BY <1>7, <2>2, <2>3, <2>4, <2>5, Undisturbed
<1> QED
  BY <1>10, <1>11

(* A bill is posted or withdrawn: no line is told.                         *)
LEMMA BillKeeps ==
    ASSUME CommissionsInv, CommissionsTypeOK', NEW l \in Lines, NEW posting, BillBecomes(l, posting)
    PROVE  CommissionsInv'
<1>1. \A k \in Lines : line'[k].state = line[k].state
  BY DEF BillBecomes, CommissionsInv, CommissionsTypeOK, Line
<1>2. Listed' = Listed /\ Paid' = Paid
  BY <1>1 DEF Listed, Paid
<1>3. commission' = commission /\ unsettled' = unsettled /\ request' = request
  BY DEF BillBecomes
<1> QED
  BY <1>2, <1>3, Undisturbed

(* The contract is confirmed: the requests that stay are about paid lines, *)
(* and have read a draft.                                                  *)
LEMMA ConfirmKeeps ==
    ASSUME CommissionsInv, CommissionsTypeOK', ConfirmCommission
    PROVE  CommissionsInv'
<1>1. PICK new \in SUBSET (Lines \ Paid) :
        line' = [l \in Lines |-> IF l \in Paid THEN line[l]
                                 ELSE IF l \in new THEN [state |-> "pending", bill |-> "none"]
                                 ELSE [state |-> "absent", bill |-> "none"]]
  BY DEF ConfirmCommission
<1>2. Paid' = Paid /\ Paid \subseteq Listed'
  BY <1>1 DEF Paid, Listed
<1>3. commission = "draft" /\ commission' = "confirmed" /\ unsettled' = (Paid # {})
  BY DEF ConfirmCommission
<1>4. StateFollowsLines'
  BY <1>2, <1>3 DEF StateFollowsLines, Derived
<1>5. UnsettledIsConfirmed'
  BY <1>2, <1>3 DEF UnsettledIsConfirmed
<1>6. RequestsOK'
  <2> SUFFICES ASSUME NEW d \in Clerks, request'[d].of # NoLine PROVE RequestOK(request[d])'
    BY DEF RequestsOK
  <2> DEFINE q == request[d]
  <2>1. request'[d] = q /\ q.of \notin Lines \ Paid /\ ~WritesContract(q)
    BY NoRequestOK DEF ConfirmCommission, Meet
  <2>2. RequestOK(q) /\ q \in Request /\ q.of \in Lines /\ q.of # NoLine
    BY <2>1 DEF CommissionsInv, RequestsOK, CommissionsTypeOK, Request
  <2> HIDE DEF q
  <2>3. q.of \in Paid /\ q.of \in q.paid /\ q.state = "draft"
    BY <1>3, <2>1, <2>2 DEF RequestOK
  <2>4. PaidAfter(q) = q.paid
    BY <2>1, <2>2 DEF WritesContract
  <2> QED
    BY <1>2, <1>3, <2>1, <2>3, <2>4 DEF RequestOK, WritesContract, Refreshed, PaidAfter
<1> QED
  BY <1>4, <1>5, <1>6 DEF CommissionsInv

(* It is cancelled or becomes a draft: none of its lines is paid.          *)
LEMMA ContractBecomesKeeps ==
    ASSUME CommissionsInv, CommissionsTypeOK', NEW state \in {"cancelled", "draft"}, ContractBecomes(state)
    PROVE  CommissionsInv'
<1>1. Paid = {} /\ commission' = state /\ line' = line /\ unsettled' = unsettled
  BY DEF ContractBecomes
<1>2. Paid' = {} /\ Listed' = Listed
  BY <1>1 DEF Paid, Listed
<1>3. ~unsettled'
  BY <1>1 DEF CommissionsInv, UnsettledIsConfirmed
<1>4. StateFollowsLines' /\ UnsettledIsConfirmed'
  BY <1>1, <1>3 DEF StateFollowsLines, UnsettledIsConfirmed
<1>5. RequestsOK'
  <2> SUFFICES ASSUME NEW d \in Clerks, request'[d].of # NoLine PROVE RequestOK(request[d])'
    BY DEF RequestsOK
  <2> DEFINE q == request[d]
  <2>1. request'[d] = q /\ ~WritesContract(q)
    BY NoRequestOK DEF ContractBecomes, Meet
  <2>2. RequestOK(q)
    BY <2>1 DEF CommissionsInv, RequestsOK
  <2> HIDE DEF q
  <2>3. ~(q.of # NoLine /\ (Refreshed(q) # q.state \/ PaidAfter(q) # q.paid))
    BY <2>1 DEF WritesContract
  <2> QED
    BY <1>1, <1>2, <1>3, <2>1, <2>2, <2>3 DEF RequestOK, WritesContract, Refreshed, Derived, PaidAfter
<1> QED
  BY <1>4, <1>5 DEF CommissionsInv

-----------------------------------------------------------------------------
LEMMA CommissionsContinues ==
    ASSUME CommissionsInv, [NextCommissions]_commissionVars
    PROVE  CommissionsInv'
<1>1. CommissionsTypeOK'
  BY CommissionsTypeStep DEF CommissionsInv
<1>2. CASE UNCHANGED commissionVars
  <2>1. Listed' = Listed /\ Paid' = Paid /\ commission' = commission /\ unsettled' = unsettled /\ request' = request
    BY <1>2 DEF commissionVars, Listed, Paid
  <2> QED
    BY <1>1, <2>1, Undisturbed
<1> QED
  BY <1>1, <1>2, AsksKeeps, CommitKeeps, BillKeeps, ConfirmKeeps, ContractBecomesKeeps
     DEF NextCommissions, LineAction, CreateBill, MarkLinePaid, CancelLine, EditLine,
         PostBill, WithdrawBill, CancelCommission, SetCommissionToDraft

LEMMA CommissionsStarts == ASSUME NEW lines \in [Lines -> Copied], InitCommissions(lines) PROVE CommissionsInv
<1>1. CommissionsTypeOK
  <2>1. line \in [Lines -> Line]
    BY DEF InitCommissions, Copied, Line
  <2> QED
    BY <2>1, NoRequestOK DEF InitCommissions, CommissionsTypeOK, CommissionStates
<1>2. RequestsOK
  BY NoRequestOK DEF InitCommissions, RequestsOK
<1> QED
  BY <1>1, <1>2 DEF InitCommissions, CommissionsInv, UnsettledIsConfirmed, StateFollowsLines

(* For any lines, clerks and instalments: a contract that has been         *)
(* confirmed says what its lines say, however the requests about them are  *)
(* interleaved (_refresh_state_from_lines, action_confirm).                *)
THEOREM StateDerived == CommissionsSpec => [](CommissionsTypeOK /\ StateFollowsLines)
<1>1. (\E lines \in [Lines -> Copied] : InitCommissions(lines)) => CommissionsInv
  BY CommissionsStarts
<1>2. CommissionsInv /\ [NextCommissions]_commissionVars => CommissionsInv'
  BY CommissionsContinues
<1>3. CommissionsInv => CommissionsTypeOK /\ StateFollowsLines
  BY DEF CommissionsInv
<1> QED
  BY <1>1, <1>2, <1>3, PTL DEF CommissionsSpec

-----------------------------------------------------------------------------
(* Maintenance: the daily round and the button keep their visits a period  *)
(* apart, for any contracts, properties, period and horizon.               *)

(* What a contract notes of its visits is true: none is later than         *)
(* last_service_date, unless a round has stopped half-way.                 *)
NotedVisits ==
    \A c \in Contracts :
        /\ upkeep[c].last <= day
        /\ c \notin broken => \A s \in 1 .. Sites : \A i \in 1 .. Len(visits[c][s]) :
               visits[c][s][i].day <= upkeep[c].last

(* What a round has found due stays so until it writes it, or is undone.   *)
RoundIsDue ==
    \A c \in round : upkeep[c].last + Period <= day

MaintenanceInv == MaintenanceTypeOK /\ NotedVisits /\ RoundIsDue /\ VisitsAPeriodApart

(* A step that makes no visit and dates no contract disturbs nothing.      *)
LEMMA Undated ==
    ASSUME MaintenanceInv, MaintenanceTypeOK',
           visits' = visits, broken' = broken, day' >= day,
           \A c \in Contracts : upkeep'[c].last = upkeep[c].last,
           \A c \in round' : upkeep[c].last + Period <= day'
    PROVE  MaintenanceInv'
<1> USE MaintenanceAssumption
<1>1. \A c \in Contracts : upkeep[c].last \in Nat
  BY DEF MaintenanceInv, MaintenanceTypeOK, Upkeep
<1>2. day \in Nat /\ day' \in Nat
  BY DEF MaintenanceInv, MaintenanceTypeOK
<1>3. NotedVisits'
  <2> SUFFICES ASSUME NEW c \in Contracts
               PROVE  /\ upkeep'[c].last <= day'
                      /\ c \notin broken' => \A s \in 1 .. Sites : \A i \in 1 .. Len(visits'[c][s]) :
                             visits'[c][s][i].day <= upkeep'[c].last
    BY DEF NotedVisits
  <2>1. upkeep[c].last <= day
    BY DEF MaintenanceInv, NotedVisits
  <2>2. upkeep'[c].last <= day'
    BY <1>1, <1>2, <2>1
  <2>3. c \notin broken => \A s \in 1 .. Sites : \A i \in 1 .. Len(visits[c][s]) :
          visits[c][s][i].day <= upkeep[c].last
    BY DEF MaintenanceInv, NotedVisits
  <2> QED
    BY <2>2, <2>3
<1>4. RoundIsDue'
  BY DEF RoundIsDue, MaintenanceTypeOK
<1>5. VisitsAPeriodApart'
  BY DEF MaintenanceInv, VisitsAPeriodApart
<1> QED
  BY <1>3, <1>4, <1>5 DEF MaintenanceInv

-----------------------------------------------------------------------------
(* A visit of one of a contract's properties goes to the end of its list.  *)
LEMMA VisitedType ==
    ASSUME MaintenanceInv, NEW c \in Contracts, NEW n \in 0 .. Sites, NEW by \in {"job", "button"}
    PROVE  Visited(c, n, by) \in [1 .. Sites -> Seq(Visit)]
<1>1. [day |-> day, by |-> by] \in Visit
  BY DEF MaintenanceInv, MaintenanceTypeOK, Visit
<1>2. \A s \in 1 .. Sites : visits[c][s] \in Seq(Visit)
  BY DEF MaintenanceInv, MaintenanceTypeOK
<1> QED
  BY <1>1, <1>2 DEF Visited

-----------------------------------------------------------------------------
(* What a step does to one contract that is visited, as far as property n: *)
(* the job comes only when the contract is due.                            *)
LEMMA VisitKeepsApart ==
    ASSUME MaintenanceInv, NEW c \in Contracts, NEW n \in 0 .. Sites, NEW by \in {"job", "button"},
           by = "job" => upkeep[c].last + Period <= day,
           visits'[c] = Visited(c, n, by), upkeep'[c] = Served(c, n), day' = day,
           c \notin broken, n \in {0, Sites}
    PROVE  /\ upkeep'[c].last <= day'
           /\ \A s \in 1 .. Sites : \A i \in 1 .. Len(visits'[c][s]) :
                 /\ visits'[c][s][i].day <= upkeep'[c].last
                 /\ visits'[c][s][i].by = "job" =>
                      \A j \in 1 .. i - 1 : visits'[c][s][i].day >= visits'[c][s][j].day + Period
<1> USE MaintenanceAssumption
<1>1. upkeep[c] \in Upkeep /\ upkeep[c].last \in Nat /\ day \in Nat
  BY DEF MaintenanceInv, MaintenanceTypeOK, Upkeep
<1>2. upkeep[c].last <= day
  BY DEF MaintenanceInv, NotedVisits
<1>3. upkeep'[c].last = IF n = Sites THEN day ELSE upkeep[c].last
  BY <1>1 DEF Served, Upkeep
<1>4. upkeep'[c].last <= day' /\ upkeep'[c].last >= upkeep[c].last
  BY <1>1, <1>2, <1>3
<1>5. ASSUME NEW s \in 1 .. Sites, NEW i \in 1 .. Len(visits'[c][s])
      PROVE  /\ visits'[c][s][i].day <= upkeep'[c].last
             /\ visits'[c][s][i].by = "job" =>
                  \A j \in 1 .. i - 1 : visits'[c][s][i].day >= visits'[c][s][j].day + Period
  <2> DEFINE v == visits[c][s]
             w == visits'[c][s]
  <2>1. /\ w \in Seq(Visit) /\ Len(w) \in Nat /\ Len(v) \in Nat
        /\ s <= n => Len(w) = Len(v) + 1 /\ w[Len(w)] = [day |-> day, by |-> by]
        /\ ~(s <= n) => w = v
        /\ \A k \in 1 .. Len(v) : w[k] = v[k] /\ v[k].day \in Nat
    <3>1. v \in Seq(Visit) /\ day \in Nat
      BY DEF MaintenanceInv, MaintenanceTypeOK
    <3>2. w = IF s <= n THEN Append(v, [day |-> day, by |-> by]) ELSE v
      BY DEF Visited
    <3>3. [day |-> day, by |-> by] \in Visit
      BY <3>1 DEF Visit
    <3>4. \A k \in 1 .. Len(v) : v[k] \in Visit
      BY <3>1
    <3>5. \A k \in 1 .. Len(v) : v[k].day \in Nat
      BY <3>4 DEF Visit
    <3> HIDE DEF v, w
    <3> QED
      BY <3>1, <3>2, <3>3, <3>5
  <2>2. \A k \in 1 .. Len(v) : v[k].day <= upkeep[c].last
    BY DEF MaintenanceInv, NotedVisits
  <2>3. CASE i \in 1 .. Len(v)
    <3>1. w[i] = v[i] /\ \A j \in 1 .. i - 1 : j \in 1 .. Len(v) /\ w[j] = v[j]
      BY <2>1, <2>3
    <3>2. v[i].day <= upkeep'[c].last
      <4>1. v[i].day \in Nat /\ v[i].day <= upkeep[c].last
        BY <2>1, <2>2, <2>3
      <4> HIDE DEF v
      <4>2. upkeep[c].last \in Nat /\ upkeep'[c].last \in Nat
        BY <1>1, <1>3
      <4>3. upkeep[c].last <= upkeep'[c].last
        BY <1>4
      <4> QED
        BY <4>1, <4>2, <4>3
    <3>3. v[i].by = "job" => \A j \in 1 .. i - 1 : v[i].day >= v[j].day + Period
      BY <2>3 DEF MaintenanceInv, VisitsAPeriodApart
    <3> QED
      BY <3>1, <3>2, <3>3
  <2>4. CASE i \notin 1 .. Len(v)
    <3>1. s <= n /\ i = Len(v) + 1 /\ n = Sites
      <4>1. i \in Nat /\ 1 <= i /\ i <= Len(w) /\ ~(i <= Len(v))
        BY <2>1, <2>4
      <4>2. s <= n /\ Len(w) = Len(v) + 1
        BY <2>1, <4>1
      <4>3. n = Sites
        BY <4>2
      <4>4. i = Len(v) + 1
        <5> HIDE DEF v, w
        <5> QED
          BY <2>1, <4>1, <4>2
      <4> QED
        BY <4>2, <4>3, <4>4
    <3>2. w[i].day = day /\ w[i].by = by
      BY <2>1, <3>1
    <3>3. ASSUME NEW j \in 1 .. i - 1
          PROVE  w[j].day \in Nat /\ w[j].day <= upkeep[c].last
      <4>1. j \in 1 .. Len(v)
        BY <2>1, <3>1
      <4>2. w[j] = v[j] /\ v[j].day \in Nat /\ v[j].day <= upkeep[c].last
        BY <2>1, <2>2, <4>1
      <4> QED
        BY <4>2
    <3>4. w[i].day <= upkeep'[c].last
      BY <1>1, <1>3, <3>1, <3>2
    <3>5. ASSUME w[i].by = "job", NEW j \in 1 .. i - 1
          PROVE  w[i].day >= w[j].day + Period
      <4>1. upkeep[c].last + Period <= day
        BY <3>2, <3>5
      <4>2. w[j].day \in Nat /\ w[j].day <= upkeep[c].last
        BY <3>3
      <4> HIDE DEF w
      <4> QED
        BY <1>1, <3>2, <4>1, <4>2
    <3> QED
      BY <3>4, <3>5
  <2> QED
    BY <2>3, <2>4
<1> QED
  BY <1>4, <1>5

-----------------------------------------------------------------------------
(* Types                                                                   *)

LEMMA MaintenanceTypeStep ==
    ASSUME MaintenanceInv, [NextMaintenance]_maintenanceVars
    PROVE  MaintenanceTypeOK'
<1> USE MaintenanceAssumption DEF MaintenanceTypeOK, Upkeep
<1>0. MaintenanceTypeOK
  BY DEF MaintenanceInv
<1>1. ASSUME NEW c \in Contracts, NEW n \in 0 .. Sites PROVE Served(c, n) \in Upkeep
  <2>1. upkeep[c] \in Upkeep /\ day \in 0 .. Horizon
    BY <1>0
  <2>2. [upkeep[c] EXCEPT !.last = day] \in Upkeep
    BY <2>1
  <2> QED
    BY <2>1, <2>2 DEF Served
<1>2. CASE RoundReads
  BY <1>0, <1>2 DEF RoundReads
<1>3. CASE RoundCommits
  <2>1. PICK n \in [round -> 0 .. Sites] :
          /\ visits' = [c \in Contracts |-> IF c \in round THEN Visited(c, n[c], "job") ELSE visits[c]]
          /\ upkeep' = [c \in Contracts |-> IF c \in round THEN Served(c, n[c]) ELSE upkeep[c]]
          /\ broken' = broken \cup {c \in round : n[c] \notin {0, Sites}}
    BY <1>3 DEF RoundCommits
  <2>2. \A c \in round : n[c] \in 0 .. Sites /\ Served(c, n[c]) \in Upkeep
    BY <1>0, <1>1, <2>1
  <2>3. \A c \in round : Visited(c, n[c], "job") \in [1 .. Sites -> Seq(Visit)]
    BY <1>0, <2>2, VisitedType
  <2>4. visits' \in [Contracts -> [1 .. Sites -> Seq(Visit)]]
    BY <1>0, <2>1, <2>3
  <2>5. upkeep' \in [Contracts -> Upkeep]
    BY <1>0, <2>1, <2>2
  <2> QED
    BY <1>0, <1>3, <2>1, <2>4, <2>5 DEF RoundCommits
<1>4. CASE NextDay
  <2>1. day \in 0 .. Horizon /\ day < Horizon /\ day' = day + 1 /\ ran' = FALSE
    BY <1>0, <1>4 DEF NextDay
  <2>2. day' \in 0 .. Horizon
    BY <2>1
  <2>3. upkeep' = upkeep /\ visits' = visits /\ round' = round /\ broken' = broken
    BY <1>4 DEF NextDay
  <2>4. ran' \in BOOLEAN
    BY <2>1
  <2> QED
    BY <1>0, <2>2, <2>3, <2>4
<1>5. ASSUME NEW c \in Contracts, NEW state \in {"active", "suspended", "expired"}, UpkeepBecomes(c, state)
      PROVE  MaintenanceTypeOK'
  BY <1>0, <1>5 DEF UpkeepBecomes, Disturbs
<1>6. ASSUME NEW c \in Contracts, GenerateRequestNow(c) PROVE MaintenanceTypeOK'
  <2>1. Sites \in 0 .. Sites
    OBVIOUS
  <2>2. Visited(c, Sites, "button") \in [1 .. Sites -> Seq(Visit)] /\ Served(c, Sites) \in Upkeep
    BY <1>1, <2>1, VisitedType
  <2> QED
    BY <1>0, <1>6, <2>2 DEF GenerateRequestNow, Disturbs
<1>7. CASE UNCHANGED maintenanceVars
  BY <1>0, <1>7 DEF maintenanceVars
<1> QED
  BY <1>2, <1>3, <1>4, <1>5, <1>6, <1>7
     DEF NextMaintenance, ContractAction, ActivateUpkeep, SuspendUpkeep, ExpireUpkeep

-----------------------------------------------------------------------------
(* The invariant                                                           *)

LEMMA MaintenanceStarts == InitMaintenance => MaintenanceInv
<1> SUFFICES ASSUME InitMaintenance PROVE MaintenanceInv
  OBVIOUS
<1> USE MaintenanceAssumption DEF InitMaintenance
<1>1. MaintenanceTypeOK
  <2>1. upkeep \in [Contracts -> Upkeep]
    BY DEF Upkeep
  <2>2. <<>> \in Seq(Visit)
    OBVIOUS
  <2>3. [s \in 1 .. Sites |-> <<>>] \in [1 .. Sites -> Seq(Visit)]
    BY <2>2
  <2>4. visits \in [Contracts -> [1 .. Sites -> Seq(Visit)]]
    BY <2>3
  <2>5. day \in 0 .. Horizon
    OBVIOUS
  <2> QED
    BY <2>1, <2>4, <2>5 DEF MaintenanceTypeOK
<1>2. NotedVisits /\ VisitsAPeriodApart
  BY DEF NotedVisits, VisitsAPeriodApart
<1>3. RoundIsDue
  BY DEF RoundIsDue
<1> QED
  BY <1>1, <1>2, <1>3 DEF MaintenanceInv

(* What has been shown of each contract makes the invariant.               *)
LEMMA Assembled ==
    ASSUME MaintenanceTypeOK',
           \A c \in round' : upkeep'[c].last + Period <= day',
           \A c \in Contracts : upkeep'[c].last <= day',
           \A c \in Contracts : c \notin broken' => \A s \in 1 .. Sites : \A i \in 1 .. Len(visits'[c][s]) :
               /\ visits'[c][s][i].day <= upkeep'[c].last
               /\ visits'[c][s][i].by = "job" =>
                    \A j \in 1 .. i - 1 : visits'[c][s][i].day >= visits'[c][s][j].day + Period
    PROVE  MaintenanceInv'
<1>1. NotedVisits'
  BY DEF NotedVisits
<1>2. RoundIsDue'
  BY DEF RoundIsDue
<1>3. VisitsAPeriodApart'
  BY DEF VisitsAPeriodApart
<1> QED
  BY <1>1, <1>2, <1>3 DEF MaintenanceInv

LEMMA MaintenanceContinues ==
    ASSUME MaintenanceInv, [NextMaintenance]_maintenanceVars
    PROVE  MaintenanceInv'
<1> USE MaintenanceAssumption
<1>1. MaintenanceTypeOK /\ MaintenanceTypeOK'
  BY MaintenanceTypeStep DEF MaintenanceInv
<1>2. \A c \in Contracts : upkeep[c] \in Upkeep /\ upkeep[c].last \in Nat
  BY <1>1 DEF MaintenanceTypeOK, Upkeep
<1>3. day \in Nat /\ round \subseteq Contracts
  BY <1>1 DEF MaintenanceTypeOK
<1>4. \A c \in round : upkeep[c].last + Period <= day
  BY DEF MaintenanceInv, RoundIsDue
<1>5. \A c \in Contracts :
        /\ upkeep[c].last <= day
        /\ c \notin broken => \A s \in 1 .. Sites : \A i \in 1 .. Len(visits[c][s]) :
             /\ visits[c][s][i].day <= upkeep[c].last
             /\ visits[c][s][i].by = "job" =>
                  \A j \in 1 .. i - 1 : visits[c][s][i].day >= visits[c][s][j].day + Period
  BY DEF MaintenanceInv, NotedVisits, VisitsAPeriodApart
<1>6. CASE RoundReads
  <2>1. \A c \in round' : upkeep[c].last + Period <= day'
    BY <1>6 DEF RoundReads, DueForService
  <2> QED
    BY <1>1, <1>3, <1>6, <2>1, Undated DEF RoundReads
<1>7. CASE RoundCommits
  <2>1. PICK n \in [round -> 0 .. Sites] :
          /\ visits' = [c \in Contracts |-> IF c \in round THEN Visited(c, n[c], "job") ELSE visits[c]]
          /\ upkeep' = [c \in Contracts |-> IF c \in round THEN Served(c, n[c]) ELSE upkeep[c]]
          /\ broken' = broken \cup {c \in round : n[c] \notin {0, Sites}}
    BY <1>7 DEF RoundCommits
  <2>2. round' = {} /\ day' = day
    BY <1>7 DEF RoundCommits
  <2>3. ASSUME NEW c \in Contracts
        PROVE  /\ upkeep'[c].last <= day'
               /\ c \notin broken' => \A s \in 1 .. Sites : \A i \in 1 .. Len(visits'[c][s]) :
                    /\ visits'[c][s][i].day <= upkeep'[c].last
                    /\ visits'[c][s][i].by = "job" =>
                         \A j \in 1 .. i - 1 : visits'[c][s][i].day >= visits'[c][s][j].day + Period
    <3>1. CASE c \notin round
      BY <1>5, <2>1, <2>2, <3>1
    <3>2. CASE c \in round
      <4>1. n[c] \in 0 .. Sites /\ visits'[c] = Visited(c, n[c], "job") /\ upkeep'[c] = Served(c, n[c])
        BY <2>1, <3>2
      <4>2. upkeep'[c].last <= day'
        BY <1>2, <1>3, <1>5, <2>2, <4>1 DEF Served, Upkeep
      <4>3. c \notin broken' => c \notin broken /\ n[c] \in {0, Sites}
        BY <2>1, <3>2
      <4>4. upkeep[c].last + Period <= day
        BY <1>4, <3>2
      <4> QED
        BY <2>2, <4>1, <4>2, <4>3, <4>4, VisitKeepsApart
    <3> QED
      BY <3>1, <3>2
  <2> QED
    BY <1>1, <2>2, <2>3, Assembled
<1>8. CASE NextDay
  <2>1. visits' = visits /\ upkeep' = upkeep /\ broken' = broken /\ round' = {} /\ day' = day + 1
    BY <1>8 DEF NextDay
  <2>2. day' >= day
    BY <1>3, <2>1
  <2> QED
    BY <1>1, <2>1, <2>2, Undated
<1>9. ASSUME NEW c \in Contracts, NEW state, UpkeepBecomes(c, state) PROVE MaintenanceInv'
  <2>1. \A d \in Contracts : upkeep'[d].last = upkeep[d].last
    BY <1>1, <1>9 DEF UpkeepBecomes, MaintenanceTypeOK, Upkeep
  <2>2. visits' = visits /\ broken' = broken /\ day' = day /\ day' >= day /\ round' \subseteq round
    BY <1>3, <1>9 DEF UpkeepBecomes, Disturbs
  <2>3. \A d \in round' : upkeep[d].last + Period <= day'
    BY <1>4, <2>2
  <2> QED
    BY <1>1, <2>1, <2>2, <2>3, Undated
<1>10. ASSUME NEW c \in Contracts, GenerateRequestNow(c) PROVE MaintenanceInv'
  <2>1. /\ visits' = [visits EXCEPT ![c] = Visited(c, Sites, "button")]
        /\ upkeep' = [upkeep EXCEPT ![c] = Served(c, Sites)]
        /\ broken' = broken /\ day' = day
        /\ round' = IF c \in round THEN {} ELSE round
    BY <1>10 DEF GenerateRequestNow, Disturbs
  <2>2. \A d \in Contracts \ {c} : visits'[d] = visits[d] /\ upkeep'[d] = upkeep[d]
    BY <1>1, <2>1 DEF MaintenanceTypeOK
  <2>3. visits'[c] = Visited(c, Sites, "button") /\ upkeep'[c] = Served(c, Sites)
    BY <1>1, <2>1 DEF MaintenanceTypeOK
  <2>4. upkeep'[c].last = day
    BY <1>2, <2>3 DEF Served, Upkeep
  <2>5. \A d \in round' : upkeep'[d].last + Period <= day'
    BY <1>3, <1>4, <2>1, <2>2
  <2>6. \A d \in Contracts : upkeep'[d].last <= day'
    BY <1>3, <1>5, <2>1, <2>2, <2>4
  <2>7. Sites \in 0 .. Sites /\ Sites \in {0, Sites}
    OBVIOUS
  <2>8. c \notin broken' => \A s \in 1 .. Sites : \A i \in 1 .. Len(visits'[c][s]) :
             /\ visits'[c][s][i].day <= upkeep'[c].last
             /\ visits'[c][s][i].by = "job" =>
                  \A j \in 1 .. i - 1 : visits'[c][s][i].day >= visits'[c][s][j].day + Period
    BY <2>1, <2>3, <2>7, VisitKeepsApart
  <2>9. \A d \in Contracts : d \notin broken' => \A s \in 1 .. Sites : \A i \in 1 .. Len(visits'[d][s]) :
             /\ visits'[d][s][i].day <= upkeep'[d].last
             /\ visits'[d][s][i].by = "job" =>
                  \A j \in 1 .. i - 1 : visits'[d][s][i].day >= visits'[d][s][j].day + Period
    <3> SUFFICES ASSUME NEW d \in Contracts, d \notin broken'
                 PROVE  \A s \in 1 .. Sites : \A i \in 1 .. Len(visits'[d][s]) :
             /\ visits'[d][s][i].day <= upkeep'[d].last
             /\ visits'[d][s][i].by = "job" =>
                  \A j \in 1 .. i - 1 : visits'[d][s][i].day >= visits'[d][s][j].day + Period
      OBVIOUS
    <3>1. CASE d = c
      BY <2>8, <3>1
    <3>2. CASE d # c
      <4>1. visits'[d] = visits[d] /\ upkeep'[d] = upkeep[d] /\ d \notin broken
        BY <2>1, <2>2, <3>2
      <4> QED
        BY <1>5, <4>1
    <3> QED
      BY <3>1, <3>2
  <2> QED
    BY <1>1, <2>5, <2>6, <2>9, Assembled
<1>11. CASE UNCHANGED maintenanceVars
  <2>1. day' >= day
    BY <1>3, <1>11 DEF maintenanceVars
  <2> QED
    BY <1>1, <1>4, <1>11, <2>1, Undated DEF maintenanceVars
<1> QED
  BY <1>6, <1>7, <1>8, <1>9, <1>10, <1>11
     DEF NextMaintenance, ContractAction, ActivateUpkeep, SuspendUpkeep, ExpireUpkeep

-----------------------------------------------------------------------------
(* For any contracts, number of properties, period and horizon: a visit the*)
(* daily job asks for is a period after every earlier one of the property  *)
(* (cron_generate_due_services, action_generate_request_now).              *)
THEOREM VisitsKeepApart == MaintenanceSpec => [](MaintenanceTypeOK /\ VisitsAPeriodApart)
<1>1. InitMaintenance => MaintenanceInv
  BY MaintenanceStarts
<1>2. MaintenanceInv /\ [NextMaintenance]_maintenanceVars => MaintenanceInv'
  BY MaintenanceContinues
<1>3. MaintenanceInv => MaintenanceTypeOK /\ VisitsAPeriodApart
  BY DEF MaintenanceInv
<1> QED
  BY <1>1, <1>2, <1>3, PTL DEF MaintenanceSpec

-----------------------------------------------------------------------------
(* The back office                                                         *)

(* The parts do not disturb one another: a behaviour of the back office is *)
(* one of each of them, so that what is proved of a part holds of the      *)
(* whole.                                                                  *)
LEMMA BackOfficeComposes ==
    SpecBackOffice =>
        Spec /\ ReservationsSpec /\ TenanciesSpec /\ CommissionsSpec /\ MaintenanceSpec
<1>1. InitBackOffice =>
        /\ Init /\ InitReservations /\ InitTenancies /\ InitMaintenance
        /\ \E lines \in [Lines -> Copied] : InitCommissions(lines)
  <2>1. NoLines \in [Lines -> Copied]
    BY DEF NoLines, Copied
  <2>2. QED
    BY <2>1 DEF InitBackOffice
<1>2. ASSUME [NextBackOffice]_backOfficeVars
      PROVE  /\ [Next]_vars /\ [NextReservations]_reservationVars
             /\ [NextTenancies]_tenancyVars /\ [NextCommissions]_commissionVars
             /\ [NextMaintenance]_maintenanceVars
  BY <1>2 DEF NextBackOffice, RentStep, ReservationsStep, TenanciesStep, CommissionsStep,
              MaintenanceStep, backOfficeVars
<1> QED
  BY <1>1, <1>2, PTL DEF SpecBackOffice, Spec, ReservationsSpec, TenanciesSpec, CommissionsSpec,
                         MaintenanceSpec

(* The rows of every part are well formed whatever people, jobs and        *)
(* buttons do, for any instance.                                           *)
THEOREM BackOfficeTyped == SpecBackOffice => []BackOfficeTypeOK
<1>1. part \in {"rent", "reservations", "tenancies", "commissions", "maintenance"}
      /\ TypeOK /\ ReservationsTypeOK /\ TenanciesTypeOK /\ CommissionsTypeOK /\ MaintenanceTypeOK
      => BackOfficeTypeOK
  BY DEF BackOfficeTypeOK
<1>2. InitBackOffice => part \in {"rent", "reservations", "tenancies", "commissions", "maintenance"}
  BY DEF InitBackOffice
<1>3. part \in {"rent", "reservations", "tenancies", "commissions", "maintenance"}
      /\ [NextBackOffice]_backOfficeVars
      => (part \in {"rent", "reservations", "tenancies", "commissions", "maintenance"})'
  BY DEF NextBackOffice, RentStep, ReservationsStep, TenanciesStep, CommissionsStep,
         MaintenanceStep, backOfficeVars
<1> QED
  BY <1>1, <1>2, <1>3, BackOfficeComposes, TypeCorrect, PropertyReservedOnce, RenewedAtMostOnce,
     StateDerived, VisitsKeepApart, PTL DEF SpecBackOffice

(* What the run of the back office checks on a small instance, for any     *)
(* (sa_rent_payment.py:32-549, sa_crm_reservation.py:17-193,               *)
(* sa_tenancy_renewal.py:32-221, sa_broker_commission.py:108-238,          *)
(* maintenance_contract.py:53-187).                                        *)
THEOREM BackOfficeKeeps ==
    SpecBackOffice =>
        /\ [](StateMatchesBalance /\ InvoicedOnce /\ ReservedOnceByAgent /\ RenewedOnce)
        /\ [](StateFollowsLines /\ VisitsAPeriodApart)
        /\ PaidStaysPaid
<1>1. Spec => []StateMatchesBalance /\ []InvoicedOnce /\ PaidStaysPaid
  BY BalanceTold, NeverInvoicedTwice, PaidIsPaid, PTL
<1>2. ReservationsSpec => []ReservedOnceByAgent
  BY PropertyReservedOnce, PTL
<1>3. TenanciesSpec => []RenewedOnce
  BY RenewedAtMostOnce, PTL
<1>4. CommissionsSpec => []StateFollowsLines
  BY StateDerived, PTL
<1>5. MaintenanceSpec => []VisitsAPeriodApart
  BY VisitsKeepApart, PTL
<1> QED
  BY <1>1, <1>2, <1>3, <1>4, <1>5, BackOfficeComposes, PTL
=============================================================================
