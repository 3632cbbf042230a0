------------------------------ MODULE JobGraph ------------------------------
(***************************************************************************)
(* How a program describes a graph of jobs to queue_job (delay.py): it     *)
(* makes delayables, chains and groups of them, says with on_done what     *)
(* follows what, and calls delay() on one of them.  What it has said       *)
(* becomes the depends_on of the rows QueueJob executes or, where jobs are *)
(* not to be delayed, the order in which they run at once.                 *)
(*                                                                         *)
(* The delayables, chains and groups are numbered as they are made.  A     *)
(* thing is put into one chain or group at most.                           *)
(***************************************************************************)
EXTENDS Naturals, Sequences, FiniteSets

CONSTANTS
    MaxJobs,       \* bound: delayables in one program
    MaxCompounds,  \* bound: chains and groups
    MaxParts,      \* bound: the parts of one
    MaxPromises    \* bound: calls of on_done

ASSUME GraphBounds == {MaxJobs, MaxCompounds, MaxParts, MaxPromises} \subseteq Nat

VARIABLES
    things,     \* kind and parts of each thing
    links,      \* the edges of each thing's own graph
    promised,   \* <<v, w>>: on_done(w) has been called on v
    split,      \* delayables that split() has replaced by smaller ones
    outcome,    \* what came of delay()
    top,        \* the thing it was called on,
    rows,       \* the jobs it stored or executes,
    depends,    \*   and <<parent, child>> for each edge between them
    performed,  \* direct execution: the jobs executed, in order,
    ready,      \*   those that may be next
    unmet       \*   and the parents each job still waits for

graphVars == <<things, links, promised, split>>
runVars   == <<performed, ready, unmet>>
jobGraphVars == <<graphVars, outcome, top, rows, depends, runVars>>

Things == DOMAIN things
IsJob(i) == things[i].kind = "job"
Parts(i) == {things[i].parts[k] : k \in DOMAIN things[i].parts}

GraphTypeOK ==
    /\ \A i \in Things : /\ things[i].kind \in {"job", "chain", "group"}
                         /\ Parts(i) \subseteq 1 .. i - 1
                         /\ IsJob(i) => Parts(i) = {}
    /\ DOMAIN links = Things
    /\ \A i \in Things : links[i] \subseteq Things \X Things
    /\ promised \subseteq Things \X Things
    /\ split \subseteq Things
    /\ outcome \in {"open", "refused", "found", "stored", "running", "aborted", "run"}
    /\ rows \subseteq Things /\ depends \subseteq rows \X rows
    /\ top \in Things \cup {0}
    /\ performed \in Seq(Things)
    /\ ready \subseteq Things

GraphInit ==
    /\ things = <<>> /\ links = <<>>
    /\ promised = {} /\ split = {}
    /\ outcome = "open" /\ rows = {} /\ depends = {} /\ top = 0
    /\ performed = <<>> /\ ready = {} /\ unmet = <<>>

-----------------------------------------------------------------------------
(* What follows what                                                       *)

First(s) == s[1]
Final(s) == s[Len(s)]

(* The delayables at the start and at the end of a thing, and those it is  *)
(* made of.  A chain takes the tail of its first part for its head and the *)
(* head of its last part for its tail.                                     *)
Ends ==
    LET ends[i \in Things] ==
          LET parts == things[i].parts
              All(side) == UNION {ends[parts[k]][side] : k \in DOMAIN parts}
          IN CASE things[i].kind = "job"   -> [head |-> {i}, tail |-> {i}, inside |-> {i}]
               [] things[i].kind = "group" -> [head |-> All("head"), tail |-> All("tail"),
                                               inside |-> All("inside")]
               [] things[i].kind = "chain" -> [head |-> ends[First(parts)].tail,
                                               tail |-> ends[Final(parts)].head,
                                               inside |-> All("inside")]
    IN ends

(* The vertices of a thing's own graph.                                    *)
Vertices(i) ==
    (IF IsJob(i) THEN {i} ELSE Parts(i)) \cup UNION {{e[1], e[2]} : e \in links[i]}

(* The things whose graphs are met from i on.                              *)
Met(i) ==
    LET met[n \in 0 .. Len(things)] ==
          IF n = 0 THEN {i}
          ELSE LET before == met[n - 1] IN before \cup UNION {Vertices(j) : j \in before}
    IN met[Len(things)]

(* Faulty: to the head of what follows, from the head of what comes first. *)
EdgesFromHeads(i) ==
    LET ends == Ends
    IN UNION {UNION {ends[e[1]].head \X ends[e[2]].head : e \in links[j]} : j \in Met(i)}

(* The edges between delayables in the whole graph.                        *)
Edges(i) ==
    LET ends == Ends
    IN UNION {UNION {ends[e[1]].tail \X ends[e[2]].head : e \in links[j]} : j \in Met(i)}

JobsOf(i) == {j \in Met(i) : IsJob(j)}

-----------------------------------------------------------------------------
(* The program                                                             *)

Make(new, edges) ==
    /\ things' = Append(things, new)
    /\ links' = Append(links, edges)
    /\ UNCHANGED <<promised, split, outcome, top, rows, depends, runVars>>

Jobs0 == {i \in Things : IsJob(i)}

(* The order in which delayables are made says nothing: they come first.   *)
MakeDelayable ==
    /\ outcome = "open"
    /\ Len(things) < MaxJobs /\ Things = Jobs0
    /\ Make([kind |-> "job", parts |-> <<>>], {})

Loose == {i \in Things \ split : \A j \in Things : i \notin Parts(j)}

Arrangements == UNION {{s \in [1 .. n -> Loose] : \A k, l \in 1 .. n : s[k] = s[l] => k = l}
                       : n \in 0 .. MaxParts}

Compounds == {i \in Things : ~IsJob(i)}

(* Each part of a chain is linked to the next.                             *)
MakeChain(s) ==
    /\ outcome = "open"
    /\ Cardinality(Compounds) < MaxCompounds
    /\ s # <<>>
    /\ Make([kind |-> "chain", parts |-> s], {<<s[k], s[k + 1]>> : k \in 1 .. Len(s) - 1})

(* A group may be empty; its parts have no order.                          *)
MakeGroup(s) ==
    /\ outcome = "open"
    /\ Cardinality(Compounds) < MaxCompounds
    /\ \A k \in 1 .. Len(s) - 1 : s[k] < s[k + 1]
    /\ Make([kind |-> "group", parts |-> s], {})

(* Faulty: a group is followed by way of one of its parts.                 *)
FollowedByOne(v) ==
    CASE things[v].kind = "job"   -> {v}
      [] things[v].kind = "chain" -> {Final(things[v].parts)}
      [] things[v].kind = "group" -> IF things[v].parts = <<>> THEN {} ELSE {First(things[v].parts)}

(* The vertices of v's graph that on_done links to what follows v.         *)
Followed(v) ==
    CASE things[v].kind = "job"   -> {v}
      [] things[v].kind = "chain" -> {Final(things[v].parts)}
      [] things[v].kind = "group" -> Parts(v)

OnDone(v, w) ==
    /\ outcome = "open"
    /\ Cardinality(promised) < MaxPromises
    /\ links' = [links EXCEPT ![v] = @ \cup (Followed(v) \X {w})]
    /\ promised' = promised \cup {<<v, w>>}
    /\ UNCHANGED <<things, split, outcome, top, rows, depends, runVars>>

(* split(): two batches, in a group or a chain; what was said of the       *)
(* delayable itself stays with it, and it can no longer be delayed.        *)
Split(j, kind) ==
    /\ outcome = "open"
    /\ j \in Jobs0 \cap Loose
    /\ Cardinality(Jobs0) + 2 <= MaxJobs /\ Cardinality(Compounds) < MaxCompounds
    /\ LET n == Len(things)
           batch == [kind |-> "job", parts |-> <<>>]
       IN /\ things' = things \o <<batch, batch, [kind |-> kind, parts |-> <<n + 1, n + 2>>]>>
          /\ links' = links \o <<{}, {}, IF kind = "chain" THEN {<<n + 1, n + 2>>} ELSE {}>>
    /\ split' = split \cup {j}
    /\ UNCHANGED <<promised, outcome, top, rows, depends, runVars>>

-----------------------------------------------------------------------------
(* delay()                                                                 *)

(* No job at all, or one that has been split: an exception.                *)
Built(i) == outcome = "open" /\ JobsOf(i) # {} /\ JobsOf(i) \cap split = {}

Circular(edges) == \E j \in Things : <<j, j>> \in edges

(* A job that waits for itself is one, too.                                *)
DelayRefused(i) ==
    /\ outcome = "open"
    /\ ~Built(i) \/ Circular(Edges(i))
    /\ outcome' = "refused" /\ top' = i
    /\ UNCHANGED <<graphVars, rows, depends, runVars>>

(* Every job with an identity key has a live one of the same identity in   *)
(* the table: nothing is stored, not even the jobs without a key.          *)
DelayFound(i) ==
    /\ Built(i) /\ ~Circular(Edges(i))
    /\ outcome' = "found" /\ top' = i
    /\ UNCHANGED <<graphVars, rows, depends, runVars>>

DelayStored(i) ==
    /\ Built(i)
    /\ outcome' = "stored" /\ top' = i
    /\ rows' = JobsOf(i) /\ depends' = Edges(i)
    /\ ~Circular(depends')
    /\ UNCHANGED <<graphVars, runVars>>

(* queue_job__no_delay: the jobs are executed in a topological order.      *)
DelayDirectly(i) ==
    /\ Built(i)
    /\ outcome' = "running" /\ top' = i
    /\ rows' = JobsOf(i) /\ depends' = Edges(i)
    /\ unmet' = [j \in rows' |-> Cardinality({e \in depends' : e[2] = j})]
    /\ ready' = {j \in rows' : \A e \in depends' : e[2] # j}
    /\ UNCHANGED <<graphVars, performed>>

(* Faulty: one parent is enough.                                           *)
FreedByOne(j) == {k \in rows : <<j, k>> \in depends}

(* The jobs for which j was the last parent.                               *)
Freed(j) == {k \in rows : <<j, k>> \in depends /\ unmet[k] = 1}

Execute(j) ==
    /\ outcome = "running"
    /\ j \in ready
    /\ performed' = Append(performed, j)
    /\ ready' = (ready \ {j}) \cup Freed(j)
    /\ unmet' = [k \in rows |-> IF <<j, k>> \in depends /\ unmet[k] > 0 THEN unmet[k] - 1 ELSE unmet[k]]
    /\ UNCHANGED <<graphVars, outcome, top, rows, depends>>

(* An exception of the job is one of delay().                              *)
ExecuteRaises ==
    /\ outcome = "running" /\ ready # {}
    /\ outcome' = "aborted"
    /\ UNCHANGED <<graphVars, top, rows, depends, runVars>>

AllExecuted ==
    /\ outcome = "running" /\ ready = {}
    /\ outcome' = "run"
    /\ UNCHANGED <<graphVars, top, rows, depends, runVars>>

Delay(i) == DelayRefused(i) \/ DelayFound(i) \/ DelayStored(i) \/ DelayDirectly(i)

GraphNext ==
    \/ MakeDelayable
    \/ \E s \in Arrangements : MakeChain(s) \/ MakeGroup(s)
    \/ \E v, w \in Things : v # w /\ OnDone(v, w)
    \/ \E j \in Things, kind \in {"chain", "group"} : Split(j, kind)
    \/ \E i \in Things : Delay(i) \/ Execute(i)
    \/ ExecuteRaises \/ AllExecuted

GraphSpec == GraphInit /\ [][GraphNext]_jobGraphVars

-----------------------------------------------------------------------------
(* What the program has said of the things delay() met: v before w, for    *)
(* every on_done and for any two parts of a chain.                         *)
Said ==
    {p \in promised : p[1] \in Met(top)} \cup
    {p \in Things \X Things : \E c \in Met(top) :
        /\ things[c].kind = "chain"
        /\ \E l \in DOMAIN things[c].parts : \E k \in 1 .. l - 1 :
             p = <<things[c].parts[k], things[c].parts[l]>>}

JobOrder ==
    LET ends == Ends IN UNION {ends[p[1]].inside \X ends[p[2]].inside : p \in Said}

(* No empty group, and no chain starts or ends with a thing that has a     *)
(* chain in it.                                                            *)
Plain ==
    LET chained[i \in Things] == things[i].kind = "chain" \/ \E j \in Parts(i) : chained[j]
    IN \A i \in Things :
         /\ things[i].kind = "group" => Parts(i) # {}
         /\ things[i].kind = "chain" => /\ ~chained[First(things[i].parts)]
                                        /\ ~chained[Final(things[i].parts)]

(* The pairs of jobs one of which comes, by the given edges, after the     *)
(* other.                                                                  *)
Closure(edges) ==
    LET paths[n \in Nat] ==
          IF n = 0 THEN edges
          ELSE LET shorter == paths[n - 1]
               IN shorter \cup {p \in Things \X Things : \E i \in Things :
                                  <<p[1], i>> \in shorter /\ <<i, p[2]>> \in edges}
    IN paths[Len(things)]

InOrder(before) == JobOrder \subseteq Closure(before)

(* The rows delay() stores wait for each other as the program has said,    *)
(* through groups, chains, parts of parts and on_done in any order         *)
(* (delay.py:166-210, 326-341, 381-402), when it keeps to plain chains.    *)
OrderKept == outcome = "stored" /\ Plain => InOrder(depends)

Position(j) == CHOOSE k \in DOMAIN performed : performed[k] = j
Performed == {performed[k] : k \in DOMAIN performed}

(* Executed directly, no job runs twice and none before all it follows,    *)
(* and in the end all have run unless they wait for each other in a circle *)
(* (delay.py:125-150, 290-292).                                            *)
DirectRunKeepsOrder ==
    /\ \A k, l \in DOMAIN performed : performed[k] = performed[l] => k = l
    /\ outcome \in {"running", "run"} /\ Plain => \A p \in JobOrder : p[2] \in Performed =>
                  p[1] \in Performed /\ Position(p[1]) < Position(p[2])
    /\ outcome = "run" => \/ Performed = rows
                          \/ Circular(Closure(depends))

(* README.rst:252 of queue_job: "A chain represents a sequence of jobs to  *)
(* execute in order".  That of a program that makes no empty group and     *)
(* does not contradict itself.                                             *)
ChainsInOrder ==
    /\ outcome = "stored"
    /\ \A i \in Things : things[i].kind = "group" => Parts(i) # {}
    /\ ~Circular(Closure(JobOrder))
    => InOrder(depends)
=============================================================================
