---------------------------- MODULE ToolSchema ----------------------------
(***************************************************************************)
(* The input schema of a remote tool: what discovery accepts of it            *)
(* (src/src/paperclaw/mcp/schema.py), and what the validation before every    *)
(* call makes of the arguments (validation.py).                               *)
(*                                                                          *)
(* A JSON value is a record: its type, a number (of a string its length), and  *)
(* the values in it with their names.  A schema node is a record of keywords;  *)
(* <<>> is a keyword that is not there.  `low` and `high` stand for minimum,   *)
(* minLength, minItems, minProperties and their opposites, by the value.       *)
(***************************************************************************)
EXTENDS Integers, Sequences, FiniteSets

CONSTANTS
    InputSchemas,   \* schemas a server may offer
    Arguments       \* arguments a model may pass

VARIABLES
    offered,    \* the schema of the tool
    found,      \* what discovery made of it
    passed,     \* the arguments of the latest call, <<>> before there is one
    verdict     \* what validate_tool_arguments made of them

tsVars == <<offered, found, passed, verdict>>

JsonTypes == {"object", "array", "string", "number", "integer", "boolean", "null"}
IsNumber(v) == v.type \in {"int", "float"}

-----------------------------------------------------------------------------
(* Discovery *)

\* The first complaint of a sequence of checks, "ok" when none complains.
FirstOf(checks) ==
    LET bad == {k \in DOMAIN checks : checks[k] # "ok"}
    IN  IF bad = {} THEN "ok" ELSE checks[CHOOSE k \in bad : \A j \in bad : k <= j]
Require(holds, complaint) == IF holds THEN "ok" ELSE complaint

\* A complaint about any of the nodes below: one of them is raised.
AnyOf(complaints) == IF complaints \ {"ok"} = {} THEN "ok" ELSE CHOOSE c \in complaints \ {"ok"} : TRUE

NormalType(node) ==
    IF node.types \subseteq JsonTypes THEN "ok" ELSE IF node.union THEN "invalid" ELSE "unsupported"

NormalRequired(node) == Require(node.required \subseteq DOMAIN node.props, "invalid")

\* Below the type, keywords whose value only has to be JSON are not looked into.
RECURSIVE NormalizeNode(_)
NormalizeNode(node) ==
    FirstOf(<<Require(~node.odd, "unsupported"), NormalType(node),
              AnyOf({NormalizeNode(node.props[p]) : p \in DOMAIN node.props}),
              AnyOf({NormalizeNode(node.items[k]) : k \in DOMAIN node.items}),
              Require(node.additional # "schema", "unsupported"), NormalRequired(node)>>)

NormalizeJsonSchema(schema) ==
    FirstOf(<<Require(schema.dialect, "unsupported"), NormalizeNode(schema),
              Require(schema.types = {"object"} /\ ~schema.union, "unsupported")>>)

-----------------------------------------------------------------------------
(* Validation.  Python's == holds of true and 1, which shows inside lists and objects. *)

PyTruth(v) == IF v.type = "bool" \/ IsNumber(v) THEN "number" ELSE v.type

RECURSIVE PyEqual(_, _)
PyEqual(v, w) ==
    /\ PyTruth(v) = PyTruth(w) /\ v.n = w.n /\ DOMAIN v.kids = DOMAIN w.kids
    /\ \A k \in DOMAIN v.kids : PyEqual(v.kids[k], w.kids[k])

JsonEqual(v, w) == (v.type = w.type \/ (IsNumber(v) /\ IsNumber(w))) /\ PyEqual(v, w)

\* Mutant of MatchesSingleType: isinstance(True, int), without the check for bool.
BoolIsAnInteger(v, type) ==
    CASE type = "integer" -> v.type \in {"int", "bool"}
      [] type = "number" -> IsNumber(v)
      [] type = "boolean" -> v.type = "bool"
      [] OTHER -> v.type = type

MatchesSingleType(v, type) ==
    CASE type = "integer" -> v.type = "int"
      [] type = "number" -> IsNumber(v)
      [] type = "boolean" -> v.type = "bool"
      [] OTHER -> v.type = type

MatchesType(v, node) == node.types = {} \/ \E type \in node.types : MatchesSingleType(v, type)

\* A size in bounds; a bound below zero is found out here, and not by discovery.
SizeOf(v) == IF v.type = "string" THEN v.n ELSE Cardinality(DOMAIN v.kids)
ValidateSize(v, node) ==
    FirstOf(<<Require(\A k \in DOMAIN node.low : node.low[k] >= 0, "schema"),
              Require(\A k \in DOMAIN node.low : SizeOf(v) >= node.low[k], "arguments"),
              Require(\A k \in DOMAIN node.high : node.high[k] >= 0, "schema"),
              Require(\A k \in DOMAIN node.high : SizeOf(v) <= node.high[k], "arguments")>>)

ValidateNumber(v, node) ==
    FirstOf(<<Require(\A k \in DOMAIN node.low : v.n >= node.low[k], "arguments"),
              Require(\A k \in DOMAIN node.high : v.n <= node.high[k], "arguments"),
              Require(\A k \in DOMAIN node.multiple : node.multiple[k] > 0, "schema"),
              Require(\A k \in DOMAIN node.multiple : node.multiple[k] > 0 => v.n % node.multiple[k] = 0, "arguments")>>)

Duplicates(v) == \E j, k \in DOMAIN v.kids : j # k /\ JsonEqual(v.kids[j], v.kids[k])

RECURSIVE ValidateNode(_, _)
ValidateObject(v, node) ==
    FirstOf(<<Require(node.required \subseteq DOMAIN v.kids, "arguments"),
              Require(node.additional # "schema", "schema"),
              AnyOf({IF p \in DOMAIN node.props THEN ValidateNode(v.kids[p], node.props[p])
                     ELSE Require(node.additional = "yes", "arguments") : p \in DOMAIN v.kids}),
              ValidateSize(v, node)>>)
ValidateArray(v, node) ==
    FirstOf(<<ValidateSize(v, node), Require(~(node.unique /\ Duplicates(v)), "arguments"),
              AnyOf({ValidateNode(v.kids[j], node.items[k]) : j \in DOMAIN v.kids, k \in DOMAIN node.items})>>)
ValidateNode(v, node) ==
    FirstOf(<<Require(MatchesType(v, node), "arguments"),
              Require(\A k \in DOMAIN node.enum : \E c \in node.enum[k] : JsonEqual(v, c), "arguments"),
              CASE v.type = "object" -> ValidateObject(v, node)
                [] v.type = "array" -> ValidateArray(v, node)
                [] v.type = "string" -> ValidateSize(v, node)
                [] IsNumber(v) -> ValidateNumber(v, node)
                [] OTHER -> "ok">>)

-----------------------------------------------------------------------------
NotYet == [type |-> "none", n |-> 0, kids |-> <<>>]

\* tools/list
Discover ==
    /\ found = "unknown"
    /\ found' = NormalizeJsonSchema(offered)
    /\ UNCHANGED <<offered, passed, verdict>>

\* MCPRuntimeTool.execute
Validate(v) ==
    /\ found = "ok" /\ passed = NotYet
    /\ passed' = v /\ verdict' = ValidateNode(v, offered)
    /\ UNCHANGED <<offered, found>>

TsInit == offered \in InputSchemas /\ found = "unknown" /\ passed = NotYet /\ verdict = "none"
TsNext == Discover \/ \E v \in Arguments : Validate(v)
TsSpec == TsInit /\ [][TsNext]_tsVars

-----------------------------------------------------------------------------
(***************************************************************************)
(* What the keywords mean, said of a value at once and of its parts by their  *)
(* paths: the nodes of a schema that apply to a value are the pairs below.    *)
(* Arguments reach the server exactly when every pair agrees; a call fails     *)
(* for its schema only when a keyword has no meaning, which discovery did not  *)
(* look into; discovery accepts no keyword the validation does not enforce.    *)
(***************************************************************************)
Under(pair) ==
    IF pair.v.type = "array"
    THEN {[v |-> pair.v.kids[j], s |-> pair.s.items[k]] : j \in DOMAIN pair.v.kids, k \in DOMAIN pair.s.items}
    ELSE IF pair.v.type = "object"
         THEN {[v |-> pair.v.kids[p], s |-> pair.s.props[p]] : p \in DOMAIN pair.v.kids \cap DOMAIN pair.s.props}
         ELSE {}
Pairs(v, s) ==
    LET top == [v |-> v, s |-> s] IN
    LET second == Under(top) IN {top} \cup second \cup UNION {Under(q) : q \in second}

TypesOf(v) == CASE v.type = "int" -> {"integer", "number"}
              [] v.type = "float" -> {"number"}
              [] v.type = "bool" -> {"boolean"}
              [] OTHER -> {v.type}
Magnitude(v) == IF IsNumber(v) THEN v.n ELSE SizeOf(v)
Bounded(v) == IsNumber(v) \/ v.type \in {"string", "array", "object"}
HasNoMeaning(v, s) ==
    \/ ~IsNumber(v) /\ Bounded(v) /\ <<-1>> \in {s.low, s.high}
    \/ IsNumber(v) /\ s.multiple = <<0>>
Agrees(v, s) ==
    /\ s.types = {} \/ TypesOf(v) \cap s.types # {}
    /\ \A k \in DOMAIN s.enum : \E c \in s.enum[k] : JsonEqual(v, c)
    /\ Bounded(v) => /\ \A k \in DOMAIN s.low : Magnitude(v) >= s.low[k]
                     /\ \A k \in DOMAIN s.high : Magnitude(v) <= s.high[k]
    /\ IsNumber(v) /\ s.multiple # <<>> /\ s.multiple # <<0>> => \E q \in 0..v.n : q * s.multiple[1] = v.n
    /\ v.type = "array" /\ s.unique => \A j, k \in DOMAIN v.kids : JsonEqual(v.kids[j], v.kids[k]) => j = k
    /\ v.type = "object" => /\ s.required \subseteq DOMAIN v.kids
                            /\ s.additional = "yes" \/ DOMAIN v.kids \subseteq DOMAIN s.props
Enforced == \A q \in Pairs(passed, offered) : ~q.s.odd /\ q.s.types \subseteq JsonTypes /\ q.s.additional # "schema"
SchemaSound ==
    passed # NotYet =>
        /\ verdict = "ok" <=> \A q \in Pairs(passed, offered) : Agrees(q.v, q.s) /\ ~HasNoMeaning(q.v, q.s)
        /\ verdict = "schema" => \E q \in Pairs(passed, offered) : HasNoMeaning(q.v, q.s)
        /\ Enforced
=============================================================================
