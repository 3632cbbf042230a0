----------------------------- MODULE ChannelTree -----------------------------
(***************************************************************************)
(* The channels of the job runner: how the configuration makes them, and   *)
(* how the channel of a job whose own is not configured is found.          *)
(*                                                                         *)
(* A channel is named by the path that leads to it from the root, which is *)
(* the empty path.                                                         *)
(***************************************************************************)
EXTENDS Naturals, Sequences, FiniteSets

CONSTANTS
    Segments,     \* the segments of channel names
    MaxDepth,     \* bound: segments in a name that is configured or asked for
    MaxEntries,   \* bound: entries of the configuration
    MaxLookups    \* bound: channel names the jobs carry

ASSUME TreeBounds == {MaxDepth, MaxEntries, MaxLookups} \subseteq Nat

VARIABLES
    tree,     \* the channels there are
    limits,   \* the configuration of those that have one
    stage,    \* "configuring", "running", or "refused"
    entries,  \* entries read so far
    found     \* for each name a job has carried, the channel it went to

treeVars == <<tree, limits, stage, entries, found>>

RootChannel == <<>>
Names == UNION {[1 .. n -> Segments] : n \in 0 .. MaxDepth}
Prefixes(n) == {SubSeq(n, 1, k) : k \in 0 .. Len(n)}
Limits == [capacity : {1, 2}, sequential : BOOLEAN]

TreeTypeOK ==
    /\ \A c \in tree : Prefixes(c) \subseteq tree
    /\ DOMAIN limits \subseteq tree
    /\ \A c \in DOMAIN limits : limits[c] \in Limits
    /\ stage \in {"configuring", "running", "refused"}
    /\ entries \in 0 .. MaxEntries
    /\ DOMAIN found \subseteq Names
    /\ \A n \in DOMAIN found : found[n] \in tree

(* A new manager has a root of capacity 1.                                 *)
TreeInit ==
    /\ tree = {RootChannel}
    /\ limits = [c \in {RootChannel} |-> [capacity |-> 1, sequential |-> FALSE]]
    /\ stage = "configuring"
    /\ entries = 0
    /\ found = [n \in {} |-> RootChannel]

Updated(f, x, y) == [z \in DOMAIN f \cup {x} |-> IF z = x THEN y ELSE f[z]]

(* One entry of the configuration: its channel, and those above it, are    *)
(* made if need be; an earlier entry for it is replaced.                   *)
ConfigureChannel(n, limit) ==
    /\ stage = "configuring" /\ entries < MaxEntries
    /\ entries' = entries + 1
    /\ tree' = tree \cup Prefixes(n)
    /\ limits' = Updated(limits, n, limit)
    /\ stage' = IF limit.sequential /\ limit.capacity # 1 THEN "refused" ELSE stage
    /\ UNCHANGED found

StartRunner ==
    /\ stage = "configuring"
    /\ stage' = "running"
    /\ UNCHANGED <<tree, limits, entries, found>>

(* Faulty: the search begins next to the root.                             *)
TopmostParent(n) ==
    LET known == tree \cap (Prefixes(n) \ {n, RootChannel})
    IN IF known = {} THEN RootChannel ELSE CHOOSE p \in known : \A q \in known : Len(p) <= Len(q)

(* The channel that is nearest above a name.                               *)
NearestParent(n) ==
    LET known == tree \cap (Prefixes(n) \ {n})
    IN CHOOSE p \in known : \A q \in known : Len(q) <= Len(p)

(* The whole name is repeated below the parent.                            *)
ChannelFor(n) == IF n \in tree THEN n ELSE NearestParent(n) \o n

(* Faulty: a new channel is entered under the name it was asked for by.    *)
EnteredAsAsked(n) == Prefixes(n)

(* The channels that are there, once n has been found.                     *)
Entered(n) == Prefixes(ChannelFor(n))

(* The runner meets a job that carries this name.                          *)
NotifyJob(n) ==
    /\ stage = "running"
    /\ n \in DOMAIN found \/ Cardinality(DOMAIN found) < MaxLookups
    /\ found' = Updated(found, n, ChannelFor(n))
    /\ tree' = tree \cup Entered(n)
    /\ UNCHANGED <<limits, stage, entries>>

TreeNext ==
    \/ \E n \in Names, limit \in Limits : ConfigureChannel(n, limit)
    \/ StartRunner
    \/ \E n \in Names : NotifyJob(n)

TreeSpec == TreeInit /\ [][TreeNext]_treeVars

-----------------------------------------------------------------------------
(* No name comes back to its first segment, as "a.a" and "a.b.a" do: such  *)
(* a name may be taken for one that has been repeated below a parent.      *)
NoneRepeated(names) == \A n \in names : \A k \in 2 .. Len(n) : n[k] # n[1]

(* A job is bounded by the configured channels its name goes through, by   *)
(* all of them and by no other, however the names the runner has met       *)
(* before have made the tree grow (channels.py:948-1024).                  *)
LimitsOfItsName ==
    NoneRepeated(DOMAIN limits) => \A n \in DOMAIN found :
        Prefixes(found[n]) \cap DOMAIN limits = Prefixes(n) \cap DOMAIN limits

(* A name leads to the same channel for as long as the runner lives: its   *)
(* running and its waiting jobs are counted in one place                   *)
(* (channels.py:948-1024, 1026-1045).                                      *)
ChannelStays ==
    [][NoneRepeated(DOMAIN limits \cup DOMAIN found') =>
         \A n \in DOMAIN found : found'[n] = found[n]]_treeVars
=============================================================================
