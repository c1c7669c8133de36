------------------------- MODULE CapabilityChoice -------------------------
(***************************************************************************)
(* The remote tools an agent is told of: the index of the capabilities of     *)
(* every MCP connection, frozen before the first request, and the selection   *)
(* of the few that match a request (src/src/paperclaw/mcp/selection.py,       *)
(* selection_runtime.py).                                                      *)
(*                                                                          *)
(* A capability is a record of its names and of the words of each of its      *)
(* parts; names are numbers, in the order of the qualified names.              *)
(***************************************************************************)
EXTENDS Integers, Sequences, FiniteSets

CONSTANTS
    Offers,         \* connection -> the capabilities of its descriptors, in their order
    BoundTools,          \* registry name -> qualified name of the MCP tool that is registered under it
    Allowlisted,       \* qualified names the selection policy allows
    Requests        \* words, scopes and top_k of a request

VARIABLES
    index,      \* _items
    frozen,     \* _frozen
    snapshot,   \* the capabilities the selector was given
    isolated,   \* registry names whose description names no server data any more
    chosen,     \* last_selection with its request
    setupFailed

chVars == <<index, frozen, snapshot, isolated, chosen, setupFailed>>

NoRequest == [words |-> {}, scopes |-> {}, top |-> 0]
KeywordsOf(c) == c.tool \cup c.title \cup c.fields \cup c.about
Qualified(S) == {c.qualified : c \in S}
Registered(S) == {c.registry : c \in S}
Items(batch) == {batch[k] : k \in DOMAIN batch}

-----------------------------------------------------------------------------
(* configure_mcp_capability_selection *)

\* A batch whose names collide, with the index or within itself.
Collides(batch) ==
    \/ Qualified(Items(batch)) \cap Qualified(index) # {} \/ Cardinality(Qualified(Items(batch))) # Len(batch)
    \/ Registered(Items(batch)) \cap Registered(index) # {} \/ Cardinality(Registered(Items(batch))) # Len(batch)

AddConnection(n) ==
    /\ ~setupFailed
    /\ IF frozen \/ Collides(Offers[n])
       THEN setupFailed' = ~frozen /\ UNCHANGED index
       ELSE index' = index \cup Items(Offers[n]) /\ UNCHANGED setupFailed
    /\ UNCHANGED <<frozen, snapshot, isolated, chosen>>

Freeze ==
    /\ ~frozen /\ ~setupFailed
    /\ frozen' = TRUE /\ snapshot' = index
    /\ UNCHANGED <<index, isolated, chosen, setupFailed>>

\* _isolate_remote_descriptions, tool by tool; one that is not the registered one ends the set-up.
Isolate(c) ==
    /\ frozen /\ ~setupFailed /\ c \in snapshot /\ c.registry \notin isolated
    /\ \A d \in snapshot : d.qualified < c.qualified => d.registry \in isolated
    /\ IF c.registry \in DOMAIN BoundTools /\ BoundTools[c.registry] = c.qualified
       THEN isolated' = isolated \cup {c.registry} /\ UNCHANGED setupFailed
       ELSE setupFailed' = TRUE /\ UNCHANGED isolated
    /\ UNCHANGED <<index, frozen, snapshot, chosen>>

-----------------------------------------------------------------------------
(* MCPCapabilitySelector.select *)

ScopeMatches(c, r) == "*" \in c.scopes \/ c.scopes \cap r.scopes # {}
Matched(c, r) == r.words \cap KeywordsOf(c)

\* _score
Score(c, r) ==
    10 * Cardinality(r.words \cap c.tool) + 6 * Cardinality(r.words \cap c.title)
    + 3 * Cardinality(r.words \cap c.fields) + Cardinality(r.words \cap c.about) + 2 * Cardinality(Matched(c, r))

\* Mutant of Candidates: the policy of the selection is not asked.
AnyCandidate(r) == {c \in snapshot : ScopeMatches(c, r) /\ Matched(c, r) # {}}

Candidates(r) == {c \in snapshot : ScopeMatches(c, r) /\ c.qualified \in Allowlisted /\ Matched(c, r) # {}}

\* The rank of a candidate: those with a higher score, or the same and an earlier name, come first.
RankOf(c, r) ==
    1 + Cardinality({d \in Candidates(r) : \/ Score(d, r) > Score(c, r)
                                           \/ Score(d, r) = Score(c, r) /\ d.qualified < c.qualified})

\* MCPCapabilityContextSource.collect; its candidates are data, and grant nothing.
CollectTools(r) ==
    /\ frozen /\ ~setupFailed /\ isolated = Registered(snapshot)
    /\ chosen' = [request |-> r, ranked |-> {[c |-> c, rank |-> RankOf(c, r)] : c \in {d \in Candidates(r) : RankOf(d, r) <= r.top}}]
    /\ UNCHANGED <<index, frozen, snapshot, isolated, setupFailed>>

-----------------------------------------------------------------------------
ChInit ==
    /\ index = {} /\ frozen = FALSE /\ snapshot = {} /\ isolated = {}
    /\ chosen = [request |-> NoRequest, ranked |-> {}] /\ setupFailed = FALSE

ChNext ==
    \/ \E n \in DOMAIN Offers : AddConnection(n)
    \/ Freeze
    \/ \E c \in snapshot : Isolate(c)
    \/ \E r \in Requests : CollectTools(r)

ChSpec == ChInit /\ [][ChNext]_chVars

-----------------------------------------------------------------------------
(***************************************************************************)
(* A selection has the ranks 1, 2, ... each once and no more than asked for;   *)
(* it is of the connected capabilities the policy allows, and everything left  *)
(* out that matches is behind every one selected.  Only isolated descriptions  *)
(* are ever selected, and the capabilities to select from are whole            *)
(* connections: of a batch that collides nothing came into the index, and the  *)
(* index of a running selection has not changed.                               *)
(***************************************************************************)
Picked == {x.c : x \in chosen.ranked}
RanksInOrder ==
    /\ {x.rank : x \in chosen.ranked} = 1..Cardinality(Picked)
    /\ Cardinality(Picked) <= chosen.request.top
    /\ \A x, y \in chosen.ranked : x.rank < y.rank => Score(x.c, chosen.request) >= Score(y.c, chosen.request)
BestPicked ==
    \A c \in snapshot \ Picked :
        c.qualified \in Allowlisted /\ ScopeMatches(c, chosen.request) /\ Matched(c, chosen.request) # {} =>
            /\ Cardinality(Picked) = chosen.request.top
            /\ \A p \in Picked : Score(p, chosen.request) >= Score(c, chosen.request)
PickedAllowed == Picked \subseteq snapshot /\ Qualified(Picked) \subseteq Allowlisted /\ Registered(Picked) \subseteq isolated
WholeBatches == \A n \in DOMAIN Offers : Items(Offers[n]) \subseteq index \/ Items(Offers[n]) \cap index = {}
SelectionSound ==
    /\ RanksInOrder /\ PickedAllowed /\ WholeBatches
    /\ chosen.request # NoRequest => BestPicked
    /\ frozen => snapshot = index
    /\ Cardinality(Registered(index)) = Cardinality(index)
=============================================================================
