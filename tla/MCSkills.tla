------------------------------ MODULE MCSkills ------------------------------
(***************************************************************************)
(* The skills scanner and audit, and the audit ledger, on small instances. *)
(* Each behaviour picks one: the scan of one machine; several scanners     *)
(* over one store while files change; one run of the evaluator; one answer *)
(* of it; or an export of the ledger while it grows and is pruned.         *)
(***************************************************************************)
EXTENDS SkillScan, SkillInventory, Evaluator, SkillVerdict, AuditLedger

CONSTANTS s1, s2, s3

VARIABLE subject

skillVars == <<scanVars, inventoryVars, evaluatorVars, ledgerVars, raw, subject>>

\* Scanners differ in nothing but their names.
MCSymmetry == Permutations({s1, s2, s3})

MCPaths == 1 .. 2

\* A machine with nothing on it.
MCBare ==
    [disk |-> <<>>, cwd |-> "sub", trust |-> "trusted",
     roots |-> [r \in {"user", "project", "plugin", "registry", "system", "codex", "cursor"} |-> "open"],
     registry |-> [installs |-> {}],
     enabled |-> [l \in {"user", "project", "local"} |-> "unset"],
     limits |-> [file |-> 5, aggregate |-> 8, artifacts |-> 3, entries |-> 3, depth |-> 1]]

MCFilePlaces ==
    {<<"user", f>> : f \in {"CLAUDE", "settings", "settings.local"}}
    \cup {<<"project", f>> : f \in {"CLAUDE", ".claude/CLAUDE", "CLAUDE.local", "settings", "settings.local",
                                    ".cursorrules", "AGENTS", "AGENTS.override", ".codex/config"}}
    \cup {<<"sub", f>> : f \in {"AGENTS", "AGENTS.override", ".codex/config"}}
    \cup {<<"system", "config">>, <<"codex", "config">>, <<"codex", "AGENTS">>, <<"cursor", "rule">>}

MCDirPlaces ==
    {<<d, f>> : d \in {"user", "project"}, f \in {"skills", "agents", "rules"}}
    \cup {<<"codex", "prompts">>, <<"project", ".cursor/rules">>, <<"sub", ".cursor/rules">>}

MCPluginPlaces == {<<"plugin", f>> : f \in {"manifest", "hooks", "skills", "agents", "rules", "instructions"}}

MCOdd == {[type |-> t] : t \in {"link", "special", "unreadable", "moved"}}

MCTexts == {"plain", "hooks", "paths", "always", "described", "names", "unsafe", "broken", "binary", "unfit"}

MCTrees ==
    LET f == File(1, "plain")
        g == File(5, "plain")
    IN  {Dir(<<>>), Dir(<<f, g>>), Dir(<<g, File(1, "unmatched"), [type |-> "link"]>>), Dir(<<f, f, f, f>>),
         Dir(<<Dir(<<f>>), f>>), Dir(<<Dir(<<Dir(<<f>>)>>)>>), Dir(<<[type |-> "special"], f>>)}
        \cup {Dir(<<File(2, t)>>) : t \in MCTexts}

MCNodes(place) ==
    MCOdd \cup {File(n, "plain") : n \in {0, 1, 5, 6}} \cup
    IF place \in MCFilePlaces \cup {<<"plugin", "manifest">>, <<"plugin", "hooks">>}
    THEN {File(2, t) : t \in MCTexts} ELSE MCTrees

MCFew(place) ==
    IF place \in MCDirPlaces \cup (MCPluginPlaces \ {<<"plugin", "manifest">>, <<"plugin", "hooks">>})
    THEN {Dir(<<File(1, "plain"), File(2, "paths")>>), Dir(<<File(5, "always")>>)}
    ELSE {File(1, "hooks"), File(3, "plain"), File(5, "names")}

MCOn == [MCBare EXCEPT !.disk = <<"user", "settings">> :> File(1, "plain"),
                       !.enabled["user"] = "on",
                       !.registry.installs = {[scope |-> "user", here |-> FALSE, path |-> "a"]}]

MCScanInit ==
    \/ \E p \in MCFilePlaces \cup MCDirPlaces, c \in {"outside", "project", "sub"},
          t \in {"trusted", "untrusted", "unspecified", "error"} :
          \E n \in MCNodes(p) : machine = [MCBare EXCEPT !.disk = p :> n, !.trust = t, !.cwd = c]
    \/ \E p \in MCPluginPlaces : \E n \in MCNodes(p) : machine = [MCOn EXCEPT !.disk = @ @@ (p :> n)]
    \/ \E p, q \in MCFilePlaces \cup MCDirPlaces : \E m \in MCFew(p), n \in MCFew(q) :
          machine = [MCBare EXCEPT !.disk = (p :> m) @@ (q :> n)]
    \/ \E p, q \in MCPluginPlaces : \E m \in MCFew(p), n \in MCFew(q) :
          machine = [MCOn EXCEPT !.disk = @ @@ (p :> m) @@ (q :> n)]
    \/ \E d \in {"codex", "project", "sub"}, c \in {"system", "codex"}, t \in {"plain", "names"},
          o, a, n \in {Missing, File(0, "plain"), File(1, "plain"), [type |-> "link"]} :
          machine = [MCBare EXCEPT !.disk = (<<d, "AGENTS.override">> :> o) @@ (<<d, "AGENTS">> :> a)
                                            @@ (<<d, "NOTES">> :> n) @@ (<<c, "config">> :> File(1, t))]
    \/ \E e \in [{"user", "project", "local"} -> {"unset", "on", "off"}], s \in {Missing, File(1, "plain")},
          i \in SUBSET {[scope |-> "user", here |-> FALSE, path |-> "a"], [scope |-> "project", here |-> TRUE, path |-> "b"],
                        [scope |-> "project", here |-> FALSE, path |-> "a"], [scope |-> "managed", here |-> TRUE, path |-> "b"]} :
          machine = [MCOn EXCEPT !.enabled = e, !.registry.installs = i, !.limits.artifacts = 4,
                                 !.disk = @ @@ (<<"project", "settings">> :> File(1, "plain"))
                                            @@ (<<"project", "settings.local">> :> s) @@ (<<"plugin", "manifest">> :> File(1, "plain"))]
    \/ \E r \in DOMAIN MCBare.roots, x \in {"none", "unavailable"} :
          machine = [MCOn EXCEPT !.disk = @ @@ (<<"project", "AGENTS">> :> File(1, "plain")), !.roots[r] = x]

\* Up to two overlaps with ids 1 and 2 of the corpus and 3 outside of it, and
\* up to two stale candidates.
MCIdLists == {<<1>>, <<1, 2>>, <<2, 1>>, <<1, 1>>, <<1, 2, 1>>, <<1, 3>>, <<4, 2, 1>>, <<1, 4>>, <<4, 1, 2, 4>>}

MCOverlaps == {[ids |-> i, text |-> t] : i \in MCIdLists, t \in {"fine", "bad", "echo"}}

MCStale == {[id |-> i, text |-> t] : i \in {1, 2, 3}, t \in {"fine", "echo"}}

MCLists(S, n) == UNION {[1 .. k -> S] : k \in 0 .. n}

MCSkillsInit ==
    /\ subject \in {"scan", "inventory", "evaluator", "verdict", "ledger"}
    /\ IF subject = "scan" THEN MCScanInit ELSE machine = MCBare
    /\ report = NoReport
    /\ InventoryInit
    /\ EvaluatorInit
    /\ LedgerInit
    /\ IF subject = "verdict"
       THEN \E o \in MCLists(MCOverlaps, 2), t \in MCLists(MCStale, 1) \cup MCLists({[id |-> i, text |-> "fine"] : i \in {1, 2}}, 3) :
               raw = [overlaps |-> o, stale |-> t]
       ELSE raw = [overlaps |-> <<>>, stale |-> <<>>]

MCSkillsNext ==
    /\ UNCHANGED <<subject, raw>>
    /\ \/ subject = "scan" /\ Scan /\ UNCHANGED <<inventoryVars, evaluatorVars, ledgerVars>>
       \/ subject = "inventory" /\ InventoryNext /\ UNCHANGED <<scanVars, evaluatorVars, ledgerVars>>
       \/ subject = "evaluator" /\ EvaluatorNext /\ UNCHANGED <<scanVars, inventoryVars, ledgerVars>>
       \/ subject = "ledger" /\ LedgerNext /\ UNCHANGED <<scanVars, inventoryVars, evaluatorVars>>

MCSkillsSpec == MCSkillsInit /\ [][MCSkillsNext]_skillVars
=============================================================================
