----------------------------- MODULE OwnerChain -----------------------------
(***************************************************************************)
(* af_resolve_owner (internal/tools/af_resolve_owner.go): the walk along   *)
(* the owner references of a resource, one request per hop.  Resources are *)
(* named by kind and name together.                                        *)
(***************************************************************************)
EXTENDS Integers, Sequences, Functions

CONSTANTS
  Resources,
  Known,          \* resources of a kind that kindToGVR knows
  RefLists,       \* lists of owner references
  maxOwnerDepth

\* No owner reference, or one without a kind or a name.
NoOwner == "none"

OwnerRefs == [to : Resources \cup {NoOwner}, controller : BOOLEAN]

ASSUME OwnerAssumption ==
  /\ Known \subseteq Resources /\ NoOwner \notin Resources
  /\ RefLists \subseteq Seq(OwnerRefs)
  /\ maxOwnerDepth \in Nat \ {0}

VARIABLES
  refs,      \* refs[o]: the owner references of o, or missing when there is no such o
  start,     \* the resource asked for
  current,   \* the resource to read next
  chain,     \* what has been read
  walk,      \* "idle", "on", "done" or "error"
  failed     \* a request has failed though the object exists

ownerVars == <<refs, start, current, chain, walk, failed>>

missing == <<[to |-> "missing", controller |-> FALSE]>>

OwnerInit ==
  /\ refs \in [Known -> RefLists \cup {missing}]
  /\ start = NoOwner /\ current = NoOwner
  /\ chain = <<>>
  /\ walk = "idle"
  /\ failed = FALSE

HandleResolveOwner ==
  /\ walk # "on"
  /\ \E o \in Resources : start' = o /\ current' = o
  /\ chain' = <<>>
  /\ walk' = "on"
  /\ failed' = FALSE
  /\ UNCHANGED refs

\* The controller, or else the first.
pickOwnerRef(list) ==
  LET controllers == {j \in DOMAIN list : list[j].controller}
      chosen == IF controllers = {} THEN 1
                ELSE CHOOSE j \in controllers : \A k \in controllers : j <= k
  IN  IF list = <<>> THEN NoOwner ELSE list[chosen].to

\* MUTANT of Over: cycles are left to the depth limit.
OverDepth == Len(chain) >= maxOwnerDepth \/ (current \notin Known /\ chain # <<>>)

\* The loop ends before a request: at the depth limit, in a cycle, or at a kind
\* that is not known.
Over ==
  \/ Len(chain) >= maxOwnerDepth
  \/ current \in Range(chain)
  \/ current \notin Known /\ chain # <<>>

EndWalk ==
  /\ walk = "on" /\ Over
  /\ walk' = "done"
  /\ UNCHANGED <<refs, start, current, chain, failed>>

Reads == walk = "on" /\ ~Over /\ current \in Known

Hop ==
  /\ Reads /\ refs[current] # missing
  /\ chain' = Append(chain, current)
  /\ LET owner == pickOwnerRef(refs[current])
     IN  IF owner = NoOwner THEN walk' = "done" /\ UNCHANGED current
         ELSE current' = owner /\ UNCHANGED walk
  /\ UNCHANGED <<refs, start, failed>>

\* The request fails, or the kind that is asked for is not known: an error for
\* the first resource only.
HopFails ==
  /\ Reads \/ (walk = "on" /\ chain = <<>> /\ current \notin Known)
  /\ walk' = IF chain = <<>> THEN "error" ELSE "done"
  /\ failed' = (current \in Known /\ refs[current] # missing)
  /\ UNCHANGED <<refs, start, current, chain>>

OwnerNext == HandleResolveOwner \/ EndWalk \/ Hop \/ HopFails

-----------------------------------------------------------------------------
\* Reference j of the list is its first controller, or the first of a list that
\* has none.
IsOwner(list, j) ==
  \/ list[j].controller /\ \A k \in 1 .. j - 1 : ~list[k].controller
  \/ j = 1 /\ \A k \in DOMAIN list : ~list[k].controller

\* Reference definition, by the set of all paths: the longest one that starts
\* at the resource, goes from owned to owner, stays among objects that can be
\* read, and repeats none.
IsPath(p) ==
  /\ p # <<>> => p[1] = start
  /\ \A i \in DOMAIN p : p[i] \in Known /\ refs[p[i]] # missing
  /\ \A i \in 1 .. Len(p) - 1 :
       \E j \in DOMAIN refs[p[i]] :
         refs[p[i]][j].to = p[i + 1] /\ IsOwner(refs[p[i]], j)
  /\ IsInjective(p)

Paths == UNION {{p \in [1 .. n -> Resources] : IsPath(p)} : n \in 0 .. maxOwnerDepth}

\* The chain is a path, and unless a request failed the longest one; no error
\* is returned when the resource itself could be read.
ChainIsLongestPath ==
  /\ walk = "done" => chain \in Paths
  /\ walk = "done" /\ ~failed => \A p \in Paths : Len(p) <= Len(chain)
  /\ walk = "error" /\ ~failed => Paths = {<<>>}
=============================================================================
