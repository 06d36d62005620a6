----------------------------- MODULE SkillScan -----------------------------
(***************************************************************************)
(* The scan of a machine's agent files (crates/pam_skills): which skills,  *)
(* rules, instructions and settings Claude Code, Codex and Cursor would    *)
(* load, within limits, and the footprint report built from a scan, as the *)
(* CLI writes it and the desktop reads it back.                            *)
(*                                                                         *)
(* A place is <<directory, name>>; what is there is a node: a file [type,  *)
(* size, text], a directory [type, kids], or one of the things a scan      *)
(* refuses.  A file's text is what the scan reads out of it.               *)
(***************************************************************************)
EXTENDS Integers, Sequences, SequencesExt, FiniteSets, FiniteSetsExt, Functions

VARIABLES machine,      \* [disk, roots, cwd, trust, registry, enabled, limits]
          report        \* [ok, scan]: what the scan of it came to

scanVars == <<machine, report>>

Missing == [type |-> "absent"]
File(size, text) == [type |-> "file", size |-> size, text |-> text]
Dir(kids) == [type |-> "dir", kids |-> kids]

Node(place) == IF place \in DOMAIN machine.disk THEN machine.disk[place] ELSE Missing

NoReport == [ok |-> FALSE]

-----------------------------------------------------------------------------
\* ScanSession, with the roots it has opened and the names that a Codex
\* configuration gave it.  Diagnostics are a set of kinds: their paths only
\* sort them.
NewSession ==
    [opened |-> {}, names |-> <<>>, bytes |-> 0, exhausted |-> FALSE, visited |-> 0, stopped |-> FALSE,
     artifacts |-> {}, sources |-> {}, diagnostics |-> {}]

Diagnostic(s, kind) == [s EXCEPT !.diagnostics = @ \cup {kind}]

\* blocks_inventory: a skipped symbolic link leaves the report complete.
Complete(s) == s.diagnostics \subseteq {"unsafe_symlink"}

\* What the metadata of a node that is not of the expected type is refused as.
Refusal(node) ==
    CASE node.type = "link" -> "unsafe_symlink"
      [] node.type = "unreadable" -> "read_file"
      [] node.type = "moved" -> "path_changed_during_read"
      [] OTHER -> "unsafe_file_type"

\* read_optional_file with open_bounded_file and resolve: absence is no
\* diagnostic, and neither is anything once the aggregate is exhausted.
ReadOptionalFile(s, node) ==
    LET no(session) == [session |-> session, found |-> FALSE]
        total == s.bytes + node.size
    IN  IF s.exhausted \/ node.type = "absent" THEN no(s)
        ELSE IF node.type # "file" THEN no(Diagnostic(s, Refusal(node)))
        ELSE IF node.size > machine.limits.file THEN no(Diagnostic(s, "file_too_large"))
        ELSE IF total > machine.limits.aggregate
             THEN no([Diagnostic(s, "aggregate_bytes_exceeded") EXCEPT !.exhausted = TRUE])
        ELSE [session |-> [s EXCEPT !.bytes = total], found |-> TRUE]

InspectOptionalFile(s, node) ==
    CASE node.type = "absent" -> [session |-> s, found |-> FALSE]
      [] node.type = "file" -> [session |-> s, found |-> TRUE]
      [] OTHER -> [session |-> Diagnostic(s, Refusal(node)), found |-> FALSE]

\* As a bug would have it: a directory over the entry limit is cut, and not
\* reported.
CollectSilently(s, kids) ==
    IF s.stopped THEN [session |-> s, kids |-> <<>>]
    ELSE IF s.visited + Len(kids) > machine.limits.entries
    THEN [session |-> [s EXCEPT !.stopped = TRUE, !.visited = machine.limits.entries], kids |-> <<>>]
    ELSE [session |-> [s EXCEPT !.visited = @ + Len(kids)], kids |-> kids]

\* collect_directory_entries: the limit holds for the whole session.
CollectDirectoryEntries(s, kids) ==
    IF s.stopped THEN [session |-> s, kids |-> <<>>]
    ELSE IF s.visited + Len(kids) > machine.limits.entries
    THEN [session |-> [Diagnostic(s, "directory_entry_limit_exceeded")
                       EXCEPT !.stopped = TRUE, !.visited = machine.limits.entries], kids |-> <<>>]
    ELSE [session |-> [s EXCEPT !.visited = @ + Len(kids)], kids |-> kids]

\* A directory that is opened: its entries, or none and why.
OpenDirectory(s, node) ==
    CASE node.type = "absent" -> [session |-> s, kids |-> <<>>]
      [] node.type = "unreadable" -> [session |-> Diagnostic(s, "read_directory"), kids |-> <<>>]
      [] node.type = "dir" -> CollectDirectoryEntries(s, node.kids)
      [] OTHER -> [session |-> Diagnostic(s, Refusal(node)), kids |-> <<>>]

\* walk_files: the matching files of a tree, depth first.
RECURSIVE WalkFiles(_, _, _, _)
WalkFiles(s, path, node, depth) ==
    LET opened == OpenDirectory(s, node)
        visit(acc, n) ==
            LET kid == opened.kids[n]
                there == Append(path, n)
            IN  IF kid.type = "dir"
                THEN IF depth >= machine.limits.depth
                     THEN [acc EXCEPT !.session = Diagnostic(@, "traversal_depth_exceeded")]
                     ELSE LET below == WalkFiles(acc.session, there, kid, depth + 1)
                          IN  [session |-> below.session, files |-> acc.files \o below.files]
                ELSE IF kid.type # "file" THEN [acc EXCEPT !.session = Diagnostic(@, Refusal(kid))]
                ELSE IF kid.text = "unmatched" THEN acc
                ELSE [acc EXCEPT !.files = Append(@, [path |-> there, node |-> kid])]
    IN  FoldLeft(visit, [session |-> opened.session, files |-> <<>>], [n \in DOMAIN opened.kids |-> n])

\* list_files: one directory; an entry that does not match is not looked at.
ListFiles(s, path, node) ==
    LET opened == OpenDirectory(s, node)
        visit(acc, n) ==
            LET kid == opened.kids[n]
            IN  IF kid.type = "file" /\ kid.text = "unmatched" THEN acc
                ELSE IF kid.type # "file" THEN [acc EXCEPT !.session = Diagnostic(@, Refusal(kid))]
                ELSE [acc EXCEPT !.files = Append(@, [path |-> Append(path, n), node |-> kid])]
    IN  FoldLeft(visit, [session |-> opened.session, files |-> <<>>], [n \in DOMAIN opened.kids |-> n])

-----------------------------------------------------------------------------
\* Artifacts: what identifies one, and its content.

Artifact(origin, kind, scope, path, semantics, node) ==
    [origin |-> origin, kind |-> kind, scope |-> scope, path |-> path,
     semantics |-> semantics, size |-> node.size, text |-> node.text]

ArtifactKey(a) == <<a.origin, a.kind, a.scope, a.path>>

\* charge_retained_source: a merged source counts against the aggregate.
ChargeRetainedSource(s, size) ==
    IF s.exhausted THEN [session |-> s, kept |-> FALSE]
    ELSE IF s.bytes + size > machine.limits.aggregate
    THEN [session |-> [Diagnostic(s, "aggregate_bytes_exceeded") EXCEPT !.exhausted = TRUE], kept |-> FALSE]
    ELSE [session |-> [s EXCEPT !.bytes = @ + size], kept |-> TRUE]

\* push_artifact_inner.  The first artifact over the limit is reported, none
\* of them is kept.
PushArtifact(s, a, source, charge) ==
    LET same == {e \in s.artifacts : ArtifactKey(e) = ArtifactKey(a)}
        charged == IF source /\ charge THEN ChargeRetainedSource(s, a.size)
                   ELSE [session |-> s, kept |-> source]
        retained == [charged.session EXCEPT !.sources = IF charged.kept THEN @ \cup {a} ELSE @]
    IN  IF same # {} /\ a \notin same THEN Diagnostic(s, "duplicate_artifact_identity")
        ELSE IF same # {} THEN (IF a \in s.sources THEN s ELSE retained)
        ELSE IF Cardinality(s.artifacts) >= machine.limits.artifacts
             THEN Diagnostic(s, "artifact_limit_exceeded")
        ELSE [retained EXCEPT !.artifacts = @ \cup {a}]

\* add_file_artifact of the three adapters.
AddFileArtifact(s, a) ==
    IF a.text = "unfit" THEN Diagnostic(s, "invalid_artifact") ELSE PushArtifact(s, a, TRUE, FALSE)

-----------------------------------------------------------------------------
\* What an adapter does, one item of its agenda after the other.  An item is
\* [how, dir, name, origin, kind, scope, semantics].

Item(how, dir, name, origin, kind, scope, semantics) ==
    [how |-> how, dir |-> dir, name |-> name, origin |-> origin, kind |-> kind, scope |-> scope, semantics |-> semantics]

Place(item) == <<item.dir, item.name>>

\* The root that a directory is below.
RootOf(dir) == IF dir = "sub" THEN "project" ELSE dir

\* rule_semantics: the paths of the frontmatter decide.
RuleSemantics(node) ==
    CASE node.text = "paths" -> "path_conditional"
      [] node.text = "binary" -> "unavailable"
      [] OTHER -> "always"

\* mdc_semantics and parse_frontmatter.
MdcSemantics(node) ==
    CASE node.text = "always" -> "always"
      [] node.text = "paths" -> "path_conditional"
      [] node.text = "described" -> "model_selected"
      [] node.text \in {"broken", "binary"} -> "unavailable"
      [] OTHER -> "explicit"

Semantics(item, node) ==
    CASE item.semantics = "rule" -> RuleSemantics(node)
      [] item.semantics = "mdc" -> MdcSemantics(node)
      [] OTHER -> item.semantics

\* The complaint about a file that was read; its artifact is kept all the same.
Complaint(item, node) ==
    CASE item.semantics \in {"rule", "mdc"} /\ node.text = "binary" -> {"non_utf8_content"}
      [] item.semantics = "mdc" /\ node.text = "broken" -> {"invalid_frontmatter"}
      [] item.kind \in {"config", "plugin", "hook"} /\ item.origin = "claude" /\ node.text = "broken" -> {"invalid_json"}
      [] item.origin = "codex" /\ item.kind = "config" /\ node.text \in {"broken", "binary"} -> {"invalid_toml"}
      [] item.origin = "codex" /\ item.kind = "config" /\ node.text = "unsafe" -> {"unsafe_fallback_filename"}
      [] OTHER -> {}

\* One file: the settings of Claude Code with hooks in them are two artifacts
\* of one source, and a configuration of Codex may give names to look for
\* after AGENTS.md.
ScanFile(s, item, path, node) ==
    LET read == ReadOptionalFile(s, node)
        told == [read.session EXCEPT !.diagnostics = @ \cup Complaint(item, node)]
        hooked == IF item.how = "settings" /\ node.text = "hooks"
                  THEN AddFileArtifact(told, Artifact(item.origin, "hook", item.scope, path, "event_triggered", node))
                  ELSE told
        added == AddFileArtifact(hooked, Artifact(item.origin, item.kind, item.scope, path, Semantics(item, node), node))
    IN  IF ~read.found THEN read.session
        ELSE [added EXCEPT !.names = IF item.how = "config" /\ node.text = "names" THEN <<"NOTES">> ELSE @]

\* Every file of a walk or a listing.
ScanFiles(s, item) ==
    LET found == IF item.how = "list" THEN ListFiles(s, Place(item), Node(Place(item)))
                 ELSE WalkFiles(s, Place(item), Node(Place(item)), 0)
    IN  FoldLeft(LAMBDA t, f : ScanFile(t, item, f.path, f.node), found.session, found.files)

DiagnoseUntrustedConfig(s, node) ==
    LET seen == InspectOptionalFile(s, node)
    IN  IF seen.found THEN Diagnostic(seen.session, "untrusted_project_config") ELSE seen.session

\* scan_first_nonempty_agents: the first candidate with a byte in it.
ScanFirstNonemptyAgents(s, item, names) ==
    LET try(acc, name) ==
            LET node == Node(<<item.dir, name>>)
                read == ReadOptionalFile(acc.session, node)
            IN  IF acc.done THEN acc
                ELSE IF ~read.found \/ node.size = 0 THEN [acc EXCEPT !.session = read.session]
                ELSE [session |-> ScanFile(acc.session, item, <<item.dir, name>>, node), done |-> TRUE]
    IN  FoldLeft(try, [session |-> s, done |-> FALSE], names).session

OpenRoot(s, root) ==
    CASE machine.roots[root] = "unavailable" -> Diagnostic(s, "root_unavailable")
      [] machine.roots[root] = "open" -> [s EXCEPT !.opened = @ \cup {root}]
      [] OTHER -> s

\* project_directories of Codex and Cursor: from the root of the project down
\* to the working directory, which has to lie in it.
OpenProject(s) ==
    LET opened == OpenRoot(s, "project")
    IN  IF "project" \in opened.opened /\ machine.cwd = "outside"
        THEN Diagnostic(s, "invalid_project_root_relation") ELSE opened

ScanItem(s, item) ==
    CASE item.how = "open" -> OpenRoot(s, item.dir)
      [] item.how = "open project" -> OpenProject(s)
      [] item.how \notin {"open", "open project"} /\ (RootOf(item.dir) \notin s.opened \/ (item.dir = "sub" /\ machine.cwd # "sub")) -> s
      [] OTHER ->
            CASE item.how \in {"file", "settings", "config"} -> ScanFile(s, item, Place(item), Node(Place(item)))
              [] item.how \in {"walk", "list"} -> ScanFiles(s, item)
              [] item.how = "untrusted" -> DiagnoseUntrustedConfig(s, Node(Place(item)))
              [] item.how = "agents" -> ScanFirstNonemptyAgents(s, item, <<"AGENTS.override", "AGENTS">>
                                                                         \o (IF item.dir = "codex" THEN <<>> ELSE s.names))

ScanAgenda(agenda) ==
    LET after[n \in 0 .. Len(agenda)] == IF n = 0 THEN NewSession ELSE ScanItem(after[n - 1], agenda[n])
    IN  after[Len(agenda)]

Open(dir) == Item("open", dir, "", "", "", "", "")

-----------------------------------------------------------------------------
\* Claude Code.

ScanInstruction(dir, name, scope) == Item("file", dir, name, "claude", "instruction", scope, "always")

ScanSettings(dir, name, scope) == Item("settings", dir, name, "claude", "config", scope, "configuration_layer")

ScanStandardDirectories(dir, scope) ==
    <<Item("walk", dir, "skills", "claude", "skill", scope, "model_selected"),
      Item("walk", dir, "agents", "claude", "agent", scope, "model_selected"),
      Item("walk", dir, "rules", "claude", "rule", scope, "rule")>>

ScanUser ==
    <<ScanInstruction("user", "CLAUDE", "user")>> \o ScanStandardDirectories("user", "user")
    \o <<ScanSettings("user", "settings", "user"), ScanSettings("user", "settings.local", "user")>>

ScanProject ==
    <<ScanInstruction("project", "CLAUDE", "project"), ScanInstruction("project", ".claude/CLAUDE", "project"),
      ScanInstruction("project", "CLAUDE.local", "local")>>
    \o ScanStandardDirectories("project", "project")
    \o <<ScanSettings("project", "settings", "project"), ScanSettings("project", "settings.local", "local")>>

ScanPlugin ==
    <<Item("file", "plugin", "manifest", "claude", "plugin", "plugin", "plugin_enabled"),
      Item("walk", "plugin", "skills", "claude", "skill", "plugin", "model_selected"),
      Item("walk", "plugin", "agents", "claude", "agent", "plugin", "model_selected"),
      Item("file", "plugin", "hooks", "claude", "hook", "plugin", "event_triggered"),
      Item("walk", "plugin", "rules", "claude", "rule", "plugin", "rule"),
      Item("walk", "plugin", "instructions", "claude", "instruction", "plugin", "always")>>

ScanClaudeCode(plugins) ==
    <<Open("user")>> \o ScanUser \o <<Open("project")>> \o ScanProject
    \o (IF plugins = {} THEN <<>> ELSE <<Open("plugin")>> \o ScanPlugin)

-----------------------------------------------------------------------------
\* Codex and Cursor.

ScanConfig(dir, name, scope) == Item("config", dir, name, "codex", "config", scope, "configuration_layer")

ScanAgentsOf(dir, scope) == Item("agents", dir, "AGENTS", "codex", "instruction", scope, "always")

\* Configuration first, all layers of it: it names files to look for.
ScanCodex(trusted) ==
    LET layer(dir) == [ScanConfig(dir, ".codex/config", "project") EXCEPT !.how = IF trusted THEN @ ELSE "untrusted"]
    IN  <<Open("system"), ScanConfig("system", "config", "system"), Open("codex"), ScanConfig("codex", "config", "user"),
          [Open("project") EXCEPT !.how = "open project"], layer("project"), layer("sub"), ScanAgentsOf("codex", "user"),
          Item("list", "codex", "prompts", "codex", "prompt", "user", "explicit"),
          ScanAgentsOf("project", "project"), ScanAgentsOf("sub", "project")>>

ScanRules(dir) == Item("walk", dir, ".cursor/rules", "cursor", "rule", "project", "mdc")

ScanAgents(dir) == Item("file", dir, "AGENTS", "cursor", "instruction", "project", "always")

ScanLegacyRule == Item("file", "project", ".cursorrules", "cursor", "rule", "project", "always")

ScanGlobalRule == <<Open("cursor"), Item("file", "cursor", "rule", "cursor", "rule", "user", "always")>>

ScanCursor ==
    ScanGlobalRule \o <<[Open("project") EXCEPT !.how = "open project"], ScanLegacyRule,
                        ScanRules("project"), ScanAgents("project"), ScanRules("sub"), ScanAgents("sub")>>

-----------------------------------------------------------------------------
\* The inventory: plugins, trust, the three scans and their merge.

\* parse_settings of the three layers, the later ones over the earlier.
EnabledPlugins ==
    LET states(layer, place) == IF Node(place).type = "file" THEN machine.enabled[layer] ELSE "unset"
        over(low, high) == IF high = "unset" THEN low ELSE high
    IN  over(over(states("user", <<"user", "settings">>), states("project", <<"project", "settings">>)),
             states("local", <<"project", "settings.local">>))

\* installation_applies
InstallationApplies(i) == i.scope = "user" \/ (i.scope = "project" /\ i.here /\ machine.roots["project"] = "open")

\* select_plugin_roots for one plugin: what its applicable installations and
\* its effective state come to.
SelectPluginRoots ==
    LET applicable == {i \in machine.registry.installs : InstallationApplies(i)}
        paths == {i.path : i \in applicable}
        error == [ok |-> FALSE, plugins |-> {}]
    IN  IF applicable = {} THEN (IF EnabledPlugins = "on" THEN error ELSE [ok |-> TRUE, plugins |-> {}])
        ELSE IF EnabledPlugins = "unset" THEN error
        ELSE IF EnabledPlugins = "off" THEN [ok |-> TRUE, plugins |-> {}]
        ELSE IF "missing" \in paths \/ Cardinality(paths) > 1 THEN error
        ELSE [ok |-> TRUE, plugins |-> paths]

\* plugin_roots: one session over the registry and the settings; any
\* diagnostic at all is an error here.
PluginRoots ==
    LET read(s, root, place) ==
            IF machine.roots[root] = "open" THEN ReadOptionalFile(s, Node(place)).session ELSE OpenRoot(s, root)
        registry == read(NewSession, "registry", <<"registry", "plugins">>)
        user == read(registry, "user", <<"user", "settings">>)
        project == read(read(user, "project", <<"project", "settings">>), "project", <<"project", "settings.local">>)
        malformed(root, place) ==
            machine.roots[root] = "open" /\ Node(place).type = "file" /\ Node(place).text = "broken"
    IN  IF \/ project.diagnostics # {}
           \/ malformed("registry", <<"registry", "plugins">>)
           \/ malformed("user", <<"user", "settings">>)
           \/ malformed("project", <<"project", "settings">>)
           \/ malformed("project", <<"project", "settings.local">>)
        THEN [ok |-> FALSE, plugins |-> {}] ELSE SelectPluginRoots

\* resolve_codex_project_trust: only the user's configuration can grant it.
ResolveCodexProjectTrust ==
    LET place == <<"codex", "config">>
        read == IF machine.roots["codex"] = "open" THEN ReadOptionalFile(NewSession, Node(place))
                ELSE [session |-> OpenRoot(NewSession, "codex"), found |-> FALSE]
    IN  IF machine.roots["project"] = "none" THEN "unspecified"
        ELSE IF machine.roots["project"] = "unavailable" \/ read.session.diagnostics # {} THEN "error"
        ELSE IF ~read.found THEN "unspecified"
        ELSE IF Node(place).text \in {"broken", "binary"} THEN "error" ELSE machine.trust

\* merge_scan_reports: under the limits of one scan, every retained source
\* charged again.
MergeScanReports(reports) ==
    LET merge(s, r) ==
            FoldLeft(LAMBDA t, a : PushArtifact(t, a, a \in r.sources, TRUE),
                     [s EXCEPT !.diagnostics = @ \cup r.diagnostics], SetToSeq(r.artifacts))
    IN  FoldLeft(merge, NewSession, reports)

ScanLocalInventory ==
    LET plugins == PluginRoots
        trust == ResolveCodexProjectTrust
    IN  IF ~plugins.ok \/ trust = "error" THEN [ok |-> FALSE, scan |-> NewSession]
        ELSE [ok |-> TRUE,
              scan |-> MergeScanReports(<<ScanAgenda(ScanClaudeCode(plugins.plugins)),
                                          ScanAgenda(ScanCodex(trust = "trusted")), ScanAgenda(ScanCursor)>>)]

\* The scan is a function of the machine: nothing moves while it reads, but
\* for the file of type "moved".
Scan ==
    /\ report = NoReport
    /\ report' = ScanLocalInventory
    /\ UNCHANGED machine

-----------------------------------------------------------------------------
\* The static footprint, and the desktop's check of a stored one.

\* TokenEstimator::estimate: ceil(bytes / 4).
Estimate(bytes) == (bytes + 3) \div 4

FootprintTotals(rows) ==
    [count |-> Cardinality(rows), bytes |-> MapThenSumSet(LAMBDA r : r.size, rows),
     tokens |-> MapThenSumSet(LAMBDA r : r.tokens, rows)]

\* As a bug would have it: artifacts of as many tokens are left in id order.
RanksByTokens(l, r) == l.tokens > r.tokens \/ (l.tokens = r.tokens /\ l.id < r.id)

RanksBefore(l, r) ==
    \/ l.tokens > r.tokens
    \/ (l.tokens = r.tokens /\ l.size > r.size)
    \/ (l.tokens = r.tokens /\ l.size = r.size /\ l.id < r.id)

\* build_static_footprint; ok is FALSE when a source is missing.  Ids are
\* digests: any total order of the artifacts serves.
BuildStaticFootprint(s) ==
    LET order == SetToSeq(s.artifacts)
        always == {n \in DOMAIN order : order[n].semantics = "always"}
        rows == {[id |-> n, origin |-> order[n].origin, scope |-> order[n].scope, semantics |-> order[n].semantics,
                  size |-> order[n].size, tokens |-> Estimate(order[n].size)] : n \in always}
    IN  [ok |-> \A n \in always : order[n] \in s.sources,
         artifacts |-> SetToSortSeq(rows, RanksBefore),
         all |-> FootprintTotals(rows),
         origins |-> [o \in {r.origin : r \in rows} |-> FootprintTotals({r \in rows : r.origin = o})],
         scopes |-> [c \in {r.scope : r \in rows} |-> FootprintTotals({r \in rows : r.scope = c})]]

\* validate_ranked_artifact: the order is checked pair by pair.
ValidRankedArtifact(rows, n) ==
    /\ rows[n].semantics = "always"
    /\ rows[n].tokens = rows[n].size \div 4 + (IF rows[n].size % 4 = 0 THEN 0 ELSE 1)
    /\ n > 1 => ~(\/ rows[n - 1].tokens < rows[n].tokens
                   \/ (rows[n - 1].tokens = rows[n].tokens /\ rows[n - 1].size < rows[n].size)
                   \/ (/\ rows[n - 1].tokens = rows[n].tokens /\ rows[n - 1].size = rows[n].size
                       /\ rows[n - 1].id > rows[n].id))

\* footprint_dto: limits, ranks, and every total counted again.
FootprintDto(f) ==
    LET rows == Range(f.artifacts)
    IN  /\ Len(f.artifacts) <= machine.limits.artifacts /\ f.all.count = Len(f.artifacts)
        /\ \A n \in DOMAIN f.artifacts : f.artifacts[n].size <= machine.limits.file /\ ValidRankedArtifact(f.artifacts, n)
        /\ \A m, n \in DOMAIN f.artifacts : f.artifacts[m].id = f.artifacts[n].id => m = n
        /\ f.all = FootprintTotals(rows) /\ f.all.bytes <= machine.limits.aggregate
        /\ f.origins = [o \in {r.origin : r \in rows} |-> FootprintTotals({r \in rows : r.origin = o})]
        /\ f.scopes = [c \in {r.scope : r \in rows} |-> FootprintTotals({r \in rows : r.scope = c})]

-----------------------------------------------------------------------------
\* What a scan is for: the artifacts the agents would load from this disk.

\* The directories that belong to the scan.
Scanned(dir) ==
    CASE dir = "sub" -> machine.roots["project"] = "open" /\ machine.cwd = "sub"
      [] OTHER -> machine.roots[dir] = "open"

\* The matching files of a tree.
RECURSIVE FilesBelow(_, _)
FilesBelow(path, node) ==
    IF node.type = "file" THEN {[path |-> path, node |-> node]}
    ELSE IF node.type = "dir"
    THEN UNION {FilesBelow(Append(path, n), node.kids[n]) :
                n \in {k \in DOMAIN node.kids : node.kids[k].type # "file" \/ node.kids[k].text # "unmatched"}}
    ELSE {}

\* Every file that an item of an agenda names, settings with hooks in them a
\* second time, and the first AGENTS file of a directory that says anything.
Loaded(plugins, trusted) ==
    LET items == {i \in Range(ScanClaudeCode(plugins) \o ScanCodex(trusted) \o ScanCursor) :
                     i.how \notin {"open", "open project", "untrusted"} /\ Scanned(i.dir)}
        files(i) == FilesBelow(Place(i), Node(Place(i)))
        named == \E i \in items : i.how = "config" /\ \E f \in files(i) : f.node.text = "names"
        names(d) == <<"AGENTS.override", "AGENTS">> \o (IF named /\ d # "codex" THEN <<"NOTES">> ELSE <<>>)
        says(d) == {n \in DOMAIN names(d) : LET x == Node(<<d, names(d)[n]>>) IN x.type = "file" /\ x.size > 0}
        first(d) == <<d, names(d)[Min(says(d))]>>
    IN  UNION {{Artifact(i.origin, i.kind, i.scope, f.path, Semantics(i, f.node), f.node) : f \in files(i)} :
               i \in {i \in items : i.how # "agents"}}
        \cup {Artifact("claude", "hook", i.scope, Place(i), "event_triggered", Node(Place(i))) :
              i \in {i \in items : i.how = "settings" /\ \E f \in files(i) : f.node.text = "hooks"}}
        \cup {Artifact("codex", "instruction", i.scope, first(i.dir), "always", Node(first(i.dir))) :
              i \in {i \in items : i.how = "agents" /\ says(i.dir) # {}}}

\* A complete report has all that the agents load and nothing else, with the
\* source of each: no limit, failure or merge drops an artifact without a
\* blocking diagnostic.  The store tombstones whatever a complete report does
\* not have.
CompleteScanIsWhole ==
    LET loaded == Loaded(PluginRoots.plugins, ResolveCodexProjectTrust = "trusted")
    IN  report.ok /\ Complete(report.scan) => report.scan.artifacts = loaded /\ report.scan.sources = loaded

\* What run_skills_audit writes after a complete scan is what the desktop's
\* decode_stored_report accepts: same order, totals and limits on both sides.
StoredReportReadsBack ==
    LET footprint == BuildStaticFootprint(report.scan)
    IN  report.ok /\ Complete(report.scan) => footprint.ok /\ FootprintDto(footprint)

\* A scan that calls itself complete left nothing out, and its report survives
\* being stored and read back (scan, build_static_footprint, footprint_dto).
ScanIsWhole == CompleteScanIsWhole /\ StoredReportReadsBack
=============================================================================
