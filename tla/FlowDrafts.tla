----------------------------- MODULE FlowDrafts -----------------------------
(***************************************************************************)
(* What the flow editor computes from a draft without running it           *)
(* (crates/pam_gui/src/flow_editor.rs), beside what the daemon computes    *)
(* from the same definition when it is submitted                           *)
(* (crates/pam_daemon/src/flow.rs): the dry-run verdict on each step and   *)
(* the line diff shown before a save.                                      *)
(*                                                                         *)
(* A shape is [kind, dir, program, args, effect, approval, role, schema]:  *)
(* one step and the schema version of its definition.  An argument is      *)
(* itself, or stands for the arguments the two sides treat alike.          *)
(***************************************************************************)
EXTENDS Integers, Sequences, SequencesExt

CONSTANTS MaxArgs, MaxLines, MaxVersionDiffLines

VARIABLES shape,      \* one declared step
          texts       \* two normalized versions, as sequences of lines

draftVars == <<shape, texts>>

ASSUME MaxArgs \in Nat /\ MaxLines \in Nat /\ MaxVersionDiffLines \in Nat

-----------------------------------------------------------------------------
\* The editor's copy of the rules.

StatusFlags == {"--short", "--porcelain=", "--find-renames"}

RevisionFlags == {"HEAD", "--quiet", "--short", "--show-toplevel", "--short=4"}

Tail1(args) == {args[n] : n \in 2 .. Len(args)}

SafeGitArguments(args) ==
    /\ args # <<>>
    /\ \/ args[1] = "status" /\ Tail1(args) \subseteq StatusFlags
       \/ args[1] = "rev-parse" /\ Len(args) > 1 /\ Tail1(args) \subseteq RevisionFlags
       \/ args[1] = "diff" /\ Tail1(args) = {"--quiet"}

SemanticSupported(s) ==
    \/ s.args[1] = "diff" /\ s.role = "verify"
    \/ s.args[1] \in {"status", "rev-parse"} /\ s.role = "observe"
    \/ s.args[1] = "diff" /\ s.role = "observe" /\ s.schema = 1

\* As a bug would have it: the working directory is left to the daemon.
DaemonAuthorityAnywhere(s) ==
    CASE s.kind = "connector" -> "connector"
      [] s.program # "git" -> "program"
      [] s.effect # "read_only" -> "stateful effect"
      [] s.approval # "none" -> "approval"
      [] ~SafeGitArguments(s.args) -> "git arguments"
      [] OTHER -> IF SemanticSupported(s) THEN "eligible" ELSE "semantic role"

\* daemon_authority, in the order it tests.
DaemonAuthority(s) ==
    IF s.kind = "connector" THEN "connector"
    ELSE IF s.dir # "." THEN "working directory"
    ELSE IF s.program # "git" THEN "program"
    ELSE IF s.effect # "read_only" THEN "stateful effect"
    ELSE IF s.approval # "none" THEN "approval"
    ELSE IF ~SafeGitArguments(s.args) THEN "git arguments"
    ELSE IF SemanticSupported(s) THEN "eligible" ELSE "semantic role"

-----------------------------------------------------------------------------
\* The daemon's rules.

SafeStatusArgument(a) == a \in {"--short", "--find-renames", "--porcelain="}

SafeRevisionArgument(a) == a \in {"HEAD", "--quiet", "--short", "--show-toplevel", "--short=4"}

SafeDiffArgument(a) == a = "--quiet"

ValidatedGitArgs(args) ==
    /\ args # <<>>
    /\ CASE args[1] = "status" -> \A a \in Tail1(args) : SafeStatusArgument(a)
         [] args[1] = "rev-parse" -> Len(args) > 1 /\ \A a \in Tail1(args) : SafeRevisionArgument(a)
         [] args[1] = "diff" -> /\ \E n \in DOMAIN args : args[n] = "--quiet"
                                /\ \A a \in Tail1(args) : SafeDiffArgument(a)
         [] OTHER -> FALSE

ValidateGitSemanticRole(args, role, schema) ==
    \/ args[1] = "diff" /\ (role = "verify" \/ (role = "observe" /\ schema = 1))
    \/ args[1] \in {"status", "rev-parse"} /\ role = "observe"

\* The workspace authority binds the project root and nothing below it.
CanonicalWorkingDirectory(dir) == dir \in {"", "."}

\* validate_supported_definition for one step: only a read-only connector step
\* is waved through to the connector registry.
ValidateSupported(s) ==
    IF s.kind = "connector" THEN s.effect = "read_only"
    ELSE /\ CanonicalWorkingDirectory(s.dir)
         /\ s.program = "git" /\ ValidatedGitArgs(s.args)
         /\ s.effect = "read_only" /\ s.approval = "none"
         /\ ValidateGitSemanticRole(s.args, s.role, s.schema)

-----------------------------------------------------------------------------
\* The diff of two versions.

CommonPrefix(a, b) ==
    CHOOSE n \in 0 .. Len(a) :
        /\ n <= Len(b) /\ \A i \in 1 .. n : a[i] = b[i]
        /\ n < Len(a) /\ n < Len(b) => a[n + 1] # b[n + 1]

CommonSuffix(a, b) == CommonPrefix(Reverse(a), Reverse(b))

Marked(kind, lines) == [n \in DOMAIN lines |-> [kind |-> kind, text |-> lines[n]]]

\* As a bug would have it: the suffix is looked for in the whole texts.
DiffOverlapping(previous, edited) ==
    LET p == CommonPrefix(previous, edited)
        s == CommonSuffix(previous, edited)
    IN  Marked("context", SubSeq(previous, 1, p))
        \o Marked("removed", SubSeq(previous, p + 1, Len(previous) - s))
        \o Marked("added", SubSeq(edited, p + 1, Len(edited) - s))
        \o Marked("context", SubSeq(previous, Len(previous) - s + 1, Len(previous)))

\* Prefix, what is gone, what is new, suffix; the suffix is looked for in what
\* the prefix leaves.
Diff(previous, edited) ==
    LET p == CommonPrefix(previous, edited)
        s == CommonSuffix(SubSeq(previous, p + 1, Len(previous)), SubSeq(edited, p + 1, Len(edited)))
    IN  Marked("context", SubSeq(previous, 1, p))
        \o Marked("removed", SubSeq(previous, p + 1, Len(previous) - s))
        \o Marked("added", SubSeq(edited, p + 1, Len(edited) - s))
        \o Marked("context", SubSeq(previous, Len(previous) - s + 1, Len(previous)))

\* deterministic_diff: the diff up to the cap, and whether the cap cut it.
DeterministicDiff(previous, edited) ==
    LET all == Diff(previous, edited)
    IN  [lines |-> SubSeq(all, 1, IF Len(all) < MaxVersionDiffLines THEN Len(all) ELSE MaxVersionDiffLines),
         truncated |-> Len(all) > MaxVersionDiffLines]

-----------------------------------------------------------------------------
\* What FlowStep::validate lets through: a change needs approval, no other role
\* is stateful, and schema version 1 derives the role from the effect.
ValidStep(s) ==
    /\ s.effect = "stateful" <=> s.role = "change"
    /\ s.effect = "stateful" => s.approval = "required"
    /\ s.schema = 1 => s.role # "verify"

DeclaredSteps ==
    [kind : {"command", "connector"}, dir : {".", "sub"}, program : {"git", "make"},
     args : SeqOf({"status", "rev-parse", "diff", "push", "--short", "--quiet", "HEAD"}, MaxArgs),
     effect : {"read_only", "stateful"}, approval : {"none", "required"},
     role : {"observe", "verify", "change"}, schema : {1, 2}]

Shapes == {s \in DeclaredSteps : ValidStep(s)}

\* A step and a pair of versions; each is computed on, never changed.
DraftInit ==
    \/ shape \in Shapes /\ texts = <<<<>>, <<>>>>
    \/ /\ shape = CHOOSE s \in Shapes : TRUE
       /\ texts \in SeqOf({"x", "y"}, MaxLines) \X SeqOf({"x", "y"}, MaxLines)

-----------------------------------------------------------------------------
Kept(lines, kinds) ==
    LET kept == SelectSeq(lines, LAMBDA l : l.kind \in kinds) IN [n \in DOMAIN kept |-> kept[n].text]

\* The dry run promises no step the daemon would refuse: a step it calls
\* eligible passes the daemon's own validation, with its own copy of every
\* rule, at submission.
EligibleIsAccepted == DaemonAuthority(shape) = "eligible" => ValidateSupported(shape)

\* The diff shown before a save is the change that is saved: its context and
\* removed lines are the previous version, its context and added lines the
\* edited one, unless it says it was cut, and it is cut only past the cap.
DiffExplainsTheSave ==
    LET d == DeterministicDiff(texts[1], texts[2])
    IN  /\ Len(d.lines) <= MaxVersionDiffLines
        /\ d.truncated \/ (/\ Kept(d.lines, {"context", "removed"}) = texts[1]
                           /\ Kept(d.lines, {"context", "added"}) = texts[2])
        /\ d.truncated => Len(d.lines) = MaxVersionDiffLines

\* What the editor shows before a save or a run is what the save and the daemon
\* make of it (deterministic_diff, validate_supported_definition).
DraftIsShownTruly == EligibleIsAccepted /\ DiffExplainsTheSave
=============================================================================
