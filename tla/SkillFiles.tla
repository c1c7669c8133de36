---------------------------- MODULE SkillFiles ----------------------------
(***************************************************************************)
(* Skills: SKILL.md files of the user and of the workspace, which may change  *)
(* at any time, remote skills that were registered, and the discovery that    *)
(* every listing and every loading goes through                               *)
(* (src/src/paperclaw/skills/runtime.py, tools.py).                           *)
(*                                                                          *)
(* A place is a directory of a root, [root, dir]; discovery reads the places  *)
(* of the user before those of the workspace, and each in the order of names. *)
(***************************************************************************)
EXTENDS Integers, FiniteSets

CONSTANTS
    Dirs,           \* directories under a root, as numbers: their order
    SkillNames,          \* names of skills
    ReadOnly,       \* _READ_ONLY_TOOLS
    Control,        \* tools a reviewed skill may not name
    Other,          \* every other tool
    MaxSkillEdits, MaxLoads

VARIABLES
    skillFile,      \* place -> what the file says
    remote,         \* _remote
    definitions,    \* _definitions, of the latest discovery that ended
    scan,           \* the discovery under way: places read, found so far, what changed meanwhile
    loaded,         \* what skill_load returned last
    skillEdits, loads

skVars == <<skillFile, remote, definitions, scan, loaded, skillEdits, loads>>

Places == [root : {"user", "workspace"}, dir : Dirs]
ToolSets == {ReadOnly, ReadOnly \cup Control \cup Other}
NoSkill == [as |-> "absent", name |-> "none", tools |-> {}]
Broken == [NoSkill EXCEPT !.as = "broken"]
Outside == [NoSkill EXCEPT !.as = "link"]
SkillTexts == {NoSkill, Broken, Outside} \cup [as : {"skill"}, name : SkillNames, tools : ToolSets]
Unknown == [trust |-> "none", tools |-> {}]
NoScan == [on |-> FALSE, read |-> {}, found |-> [n \in SkillNames |-> Unknown], changed |-> FALSE]

Earlier(p, q) ==
    \/ p.root = "user" /\ q.root = "workspace"
    \/ p.root = q.root /\ p.dir < q.dir

-----------------------------------------------------------------------------
\* The tools a skill may name, by where it comes from.
Inherited(root, tools) == IF root = "workspace" THEN tools \ Control ELSE tools
Trust(root) == IF root = "user" THEN "local_trusted" ELSE "workspace_reviewed"

\* _parse_file
Parsed(p) == [trust |-> Trust(p.root), tools |-> Inherited(p.root, skillFile[p].tools)]

\* register_remote keeps the read-only tools only.
RegisterRemote(n, tools) ==
    /\ ~scan.on /\ skillEdits < MaxSkillEdits
    /\ skillEdits' = skillEdits + 1
    /\ remote' = [remote EXCEPT ![n] = [trust |-> "remote_untrusted", tools |-> tools \cap ReadOnly]]
    /\ definitions' = [definitions EXCEPT ![n] = Unknown]
    /\ UNCHANGED <<skillFile, scan, loaded, loads>>

EditSkill(p, text) ==
    /\ skillEdits < MaxSkillEdits /\ text # skillFile[p]
    /\ skillEdits' = skillEdits + 1
    /\ skillFile' = [skillFile EXCEPT ![p] = text]
    /\ scan' = [scan EXCEPT !.changed = scan.on]
    /\ UNCHANGED <<remote, definitions, loaded, loads>>

\* discover, of a listing or a loading
StartScan ==
    /\ ~scan.on /\ loads < MaxLoads
    /\ loads' = loads + 1
    /\ scan' = [NoScan EXCEPT !.on = TRUE]
    /\ UNCHANGED <<skillFile, remote, definitions, loaded, skillEdits>>

\* Mutant of KeptSkill: the later of two skills of a name replaces the earlier.
LaterWins(found, n, definition) == [found EXCEPT ![n] = definition]

\* The earlier of two skills of a name stays.
KeptSkill(found, n, definition) == IF found[n] # Unknown THEN found ELSE [found EXCEPT ![n] = definition]

\* One file that is not a skill ends the discovery of all.
ReadPlace(p) ==
    /\ scan.on /\ p \notin scan.read /\ \A q \in Places : Earlier(q, p) => q \in scan.read
    /\ scan' = CASE skillFile[p].as = "broken" -> NoScan
                 [] skillFile[p].as = "skill" ->
                        [scan EXCEPT !.read = @ \cup {p}, !.found = KeptSkill(scan.found, skillFile[p].name, Parsed(p))]
                 [] OTHER -> [scan EXCEPT !.read = @ \cup {p}]
    /\ UNCHANGED <<skillFile, remote, definitions, loaded, skillEdits, loads>>

WithRemote == [n \in SkillNames |-> IF scan.found[n] = Unknown THEN remote[n] ELSE scan.found[n]]

\* Remote skills come last; then a listing is done, and a loading finds its skill or not.
EndScan ==
    /\ scan.on /\ scan.read = Places
    /\ definitions' = WithRemote
    /\ \/ loaded' = [n |-> "none", definition |-> Unknown]
       \/ \E n \in SkillNames : loaded' = [n |-> n, definition |-> WithRemote[n]]
    /\ scan' = NoScan
    /\ UNCHANGED <<skillFile, remote, skillEdits, loads>>

-----------------------------------------------------------------------------
SkInit ==
    /\ skillFile = [p \in Places |-> NoSkill]
    /\ remote = [n \in SkillNames |-> Unknown] /\ definitions = [n \in SkillNames |-> Unknown]
    /\ scan = NoScan /\ loaded = [n |-> "none", definition |-> Unknown]
    /\ skillEdits = 0 /\ loads = 0

SkNext ==
    \/ StartScan \/ EndScan
    \/ \E p \in Places : ReadPlace(p) \/ \E text \in SkillTexts : EditSkill(p, text)
    \/ \E n \in SkillNames, tools \in ToolSets : RegisterRemote(n, tools)

SkSpec == SkInit /\ [][SkNext]_skVars

-----------------------------------------------------------------------------
(***************************************************************************)
(* What a skill may name follows from whom it comes, whatever was edited and   *)
(* registered in which order: a remote skill names read-only tools and a       *)
(* reviewed one no control tool.  The discovery that read files nobody         *)
(* changed meanwhile has, of every name, the skill of the first place, and a   *)
(* remote one only where no file has it; a discovery under way has kept the    *)
(* first of what it has read.                                                  *)
(***************************************************************************)
TrustBounds(d) ==
    /\ d.trust = "remote_untrusted" => d.tools \subseteq ReadOnly
    /\ d.trust = "workspace_reviewed" => d.tools \cap Control = {}
First(n, read) ==
    LET having == {p \in read : skillFile[p].as = "skill" /\ skillFile[p].name = n}
    IN  IF having = {} THEN Unknown
        ELSE Parsed(CHOOSE p \in having : \A q \in having : q = p \/ Earlier(p, q))
SkillsSound ==
    /\ \A n \in SkillNames : TrustBounds(definitions[n]) /\ TrustBounds(scan.found[n])
    /\ TrustBounds(loaded.definition)
    /\ scan.on /\ ~scan.changed => \A n \in SkillNames : scan.found[n] = First(n, scan.read)
    /\ loaded.n # "none" => loaded.definition.trust # "remote_untrusted" \/ remote[loaded.n] # Unknown
=============================================================================
