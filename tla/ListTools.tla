------------------------------ MODULE ListTools ------------------------------
(***************************************************************************)
(* The tools that list objects of a namespace (internal/tools: pods,       *)
(* workloads, events, remediations) while objects come and go.  Workloads  *)
(* take two requests; events are listed as pods are.  An object has a     *)
(* kind, a size as JSON, and matches the filter of the call or not.        *)
(***************************************************************************)
EXTENDS Integers, Sequences, FiniteSetsExt

CONSTANTS
  Objects,
  Kind, Size, Matches,
  maxToolOutputBytes

ASSUME ListAssumption ==
  /\ IsFiniteSet(Objects) /\ Kind \in [Objects -> STRING]
  /\ Size \in [Objects -> Nat] /\ Matches \in [Objects -> BOOLEAN]
  /\ maxToolOutputBytes \in Nat \ {0}

VARIABLES
  there,    \* the objects there are
  query,    \* the tool call: [pc, tool, filter, todo, all, result, truncated]
  always,   \* history: the objects there since the call began
  ever      \* history: the objects there at some time of the call

listVars == <<there, query, always, ever>>

\* The kinds that a tool lists, one request each.
Requests(tool) == IF tool = "workloads" THEN <<"Deployment", "StatefulSet">> ELSE <<tool>>

NoQuery == [pc |-> "idle", tool |-> "none", filter |-> FALSE, todo |-> <<>>,
            all |-> <<>>, result |-> <<>>, truncated |-> FALSE]

ListInit ==
  /\ there \in SUBSET Objects
  /\ query = NoQuery
  /\ always = {} /\ ever = {}

HandleList ==
  /\ query.pc = "idle"
  /\ \E tool \in {"workloads", "Pod", "RemediationRequest"}, filter \in BOOLEAN :
       query' = [NoQuery EXCEPT !.pc = "list", !.tool = tool, !.filter = filter,
                                !.todo = Requests(tool)]
  /\ always' = there /\ ever' = there
  /\ UNCHANGED there

Selected(S, kind) == {o \in S : Kind[o] = kind /\ (query.filter => Matches[o])}

\* The API server returns the objects of S in an order of its own.
Listings(S) == Bijection(1 .. Cardinality(S), S)

\* MUTANT of Collected: the second list replaces the first.
CollectedAnew(items) == items

Collected(items) == query.all \o items

List ==
  /\ query.pc = "list" /\ query.todo # <<>>
  /\ \E items \in Listings(Selected(there, Head(query.todo))) :
       query' = [query EXCEPT !.all = Collected(items), !.todo = Tail(query.todo)]
  /\ UNCHANGED <<there, always, ever>>

ListFails ==
  /\ query.pc = "list" /\ query.todo # <<>>
  /\ query' = NoQuery
  /\ always' = {} /\ ever' = {}
  /\ UNCHANGED there

\* The bytes of the first n items as a JSON array.
Bytes(items, n) == MapThenSumSet(LAMBDA i : Size[items[i]], 1 .. n) + n + 1

Fits(items, n) == Bytes(items, n) <= maxToolOutputBytes

\* Items are removed from the end until they fit or one is left, which is kept
\* however large it is.
TrimSliceToFit(items) ==
  LET left[n \in 0 .. Len(items)] == IF n <= 1 \/ Fits(items, n) THEN n ELSE left[n - 1]
  IN  SubSeq(items, 1, left[Len(items)])

\* kubernaut_list_remediations does not trim.
Trims == query.tool # "RemediationRequest"

ListAnswer ==
  /\ query.pc = "list" /\ query.todo = <<>>
  /\ LET items == query.all
     IN  query' = [query EXCEPT
           !.pc = "answered",
           !.result = IF Trims THEN TrimSliceToFit(items) ELSE items,
           !.truncated = Trims /\ ~Fits(items, Len(items))]
  /\ UNCHANGED <<there, always, ever>>

ListEnds ==
  /\ query.pc = "answered"
  /\ query' = NoQuery
  /\ always' = {} /\ ever' = {}
  /\ UNCHANGED there

Appear(o) ==
  /\ o \notin there
  /\ there' = there \cup {o}
  /\ ever' = IF query.pc = "idle" THEN ever ELSE ever \cup {o}
  /\ UNCHANGED <<query, always>>

Vanish(o) ==
  /\ o \in there
  /\ there' = there \ {o}
  /\ always' = always \ {o}
  /\ UNCHANGED <<query, ever>>

ListNext ==
  \/ HandleList \/ List \/ ListFails \/ ListAnswer \/ ListEnds
  \/ \E o \in Objects : Appear(o) \/ Vanish(o)

-----------------------------------------------------------------------------
Asked(S) ==
  {o \in S : Kind[o] \in Range(Requests(query.tool)) /\ (query.filter => Matches[o])}

\* An answer names only objects that were there during the call, each once, and
\* every one that was there throughout, unless it says that it is truncated.  A
\* trimmed answer is the longest beginning of the list that fits.  When not even
\* one object fits it is the first one alone, over the limit: an answer over the
\* limit, like one that leaves something out, says that it is truncated.
AnswerIsComplete ==
  query.pc = "answered" =>
    /\ IsInjective(query.result) /\ Range(query.result) \subseteq Asked(ever)
    /\ query.truncated \/ Asked(always) \subseteq Range(query.result)
    /\ Trims =>
         LET n == Len(query.result)
         IN  /\ n <= Len(query.all) /\ query.result = SubSeq(query.all, 1, n)
             /\ n > 1 => Fits(query.all, n)
             /\ \A k \in n + 1 .. Len(query.all) : ~Fits(query.all, k)
             /\ n = 0 => query.all = <<>>
             /\ query.result # query.all \/ ~Fits(query.all, n) => query.truncated

=============================================================================
