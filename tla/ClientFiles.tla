----------------------------- MODULE ClientFiles -----------------------------
(***************************************************************************)
(* `memlayer install` and `memlayer uninstall` (memlayer-cli: cmd_skill.rs,   *)
(* mcp_install.rs, git_hooks.rs, cmd_uninstall.rs, and ensure_config_toml):   *)
(* memlayer puts itself into files that belong to the user and to the coding  *)
(* agents. Each file is read, changed in memory and written back with         *)
(* fs::write, without a lock: the owner may save it in between, and a crash   *)
(* may cut the write.                                                        *)
(*                                                                          *)
(* A settings file (JSON or TOML) is the version of the user's settings in it  *)
(* together with memlayer's own entries; a text file is a sequence of user     *)
(* lines and of the marker-delimited block. The layouts of the MCP schemas     *)
(* (where in the file the entry lies) are left out, and so are owners who move *)
(* or copy the markers.                                                     *)
(*                                                                          *)
(* An operator whose comment starts with "Mutant" is a slip the properties    *)
(* must catch; no action uses it.                                           *)
(***************************************************************************)
EXTENDS Naturals, Sequences, FiniteSets, SequencesExt, Lists

CONSTANTS
    Files,      \* what memlayer installs into
    Selections, \* the files of the agents that resolve_selection may select
    Kind,       \* config, settings, project, mcp, block, hook, own, loose or side
    Dedicated,  \* the MCP files that are removed once nothing is left in them
    Tomls,      \* the settings files in TOML; the others are JSON
    Nothing,    \* no such file, no command
    Torn,       \* a file of memlayer's own cut short by a crash
    MaxRuns, MaxEdits, MaxKills \* bounds; also the versions of memlayer and of the settings

Kinds == {"config", "settings", "project", "mcp", "block", "hook", "own", "loose", "side"}

VARIABLES
    files,
    selected, \* the files of this user's agents
    backup,   \* <path>.json.bak of each project file
    job,      \* the running command with the files it answers for, or Nothing
    todo,     \* the files it has yet to visit
    at, snap, \* the file it is writing and the content it read, or Nothing
    saved,    \* whether the backup of that file is written
    wanted,   \* what the user has put into each file and no command is known to lose
    runs, edits, kills

command == <<selected, job, todo, at, snap, saved>>
bounds == <<runs, edits, kills>>
clientVars == <<files, backup, command, wanted, bounds>>

Structured == {f \in Files : Kind[f] \in {"config", "settings", "project", "mcp"}}
TextFiles == {f \in Files : Kind[f] \in {"block", "hook"}}

------------------------------------------------------------------------------
\* Settings files.

Parts(f) == CASE Kind[f] = "settings" -> {"rule", "socket", "auto", "hooks"}
              [] Kind[f] = "project" -> {"hooks"}
              [] Kind[f] = "mcp" -> {"entry"}
              [] OTHER -> {"defaults"}

\* The files that hold something of the user's which no command that writes them keeps:
\* the user's own autoMemoryEnabled, and the comments of a TOML file.
Fragile == Tomls \cup {f \in Files : Kind[f] = "settings"}

\* "broken" text does not parse (a comment in JSON, or a torn write), "other" has
\* something that is no object, or no array, where memlayer wants to add to one, and
\* the root of a "scalar" is no object. `own` is what a Fragile file has of that kind.
Forms == {"object", "broken", "other", "scalar"}
SettingsOf(f) == [form : Forms, user : Nat, own : Nat, ours : [Parts(f) -> Nat]]

Settings(f, form, user, version) ==
    [form |-> form, user |-> user, own |-> 0, ours |-> [x \in Parts(f) |-> version]]

Usable(c) == c # Nothing /\ c.form = "object"

\* A file that does not parse; what is in it is lost to the next write.
Unreadable(f, c) == f \in Structured /\ c # Nothing /\ c.form = "broken"

\* What is unreadable counts as an empty object.
Parsed(f, c) == IF c # Nothing /\ c.form # "broken" THEN c ELSE Settings(f, "object", 0, 0)

\* The file is written anew from what was parsed, without comments, and without the
\* user's autoMemoryEnabled, whose key memlayer takes for its own.
Rewritten(f, c, ours) ==
    [c EXCEPT !.ours = ours, !.own = IF f \in Fragile THEN 0 ELSE @]

\* Mutant: an entry that is there is left alone, also one of an older memlayer.
PatchedIfMissing(f, c, v) ==
    LET old == Parsed(f, c)
    IN Rewritten(f, old, [x \in Parts(f) |-> IF old.ours[x] = 0 THEN v ELSE old.ours[x]])

\* The MCP entry is replaced; a hook that starts with "memlayer " counts as present,
\* whichever version wrote it; the rest does not depend on the version.
Patched(f, c, v) ==
    LET old == Parsed(f, c)
        New(x) == CASE x = "entry" -> v
                    [] x = "hooks" -> IF old.ours[x] = 0 THEN v ELSE old.ours[x]
                    [] OTHER -> 1
    IN Rewritten(f, old, [x \in Parts(f) |-> New(x)])

\* The hooks stay, and what is unreadable is left alone.
Unpatched(f, c) ==
    IF c = Nothing THEN c
    ELSE IF c.form = "broken" THEN c
    ELSE IF f \in Dedicated /\ Usable(c) /\ c.ours["entry"] # 0 /\ c.user = 0 THEN Nothing
    ELSE Rewritten(f, c, [x \in Parts(f) |-> IF x = "hooks" THEN c.ours[x] ELSE 0])

------------------------------------------------------------------------------
\* Text files. A user line is its number and takes its newline along; "nl" is a
\* newline of its own, "sh" the first line of a hook, "scrap" what is left of a token
\* that was cut in its middle, and the body of the block is the version that wrote it.

Token == {"line", "start", "body", "end", "nl", "sh", "scrap"} \X Nat
Line(n) == <<"line", n>>
Body(v) == <<"body", v>>
Word(w) == <<w, 0>>

Block(v) == <<Word("start"), Body(v), Word("end"), Word("nl")>>
Places(c, w) == {i \in DOMAIN c : c[i][1] = w}

\* Without the newlines at its end.
Trimmed(c) ==
    SubSeq(c, 1, Min({n \in 0..Len(c) : \A i \in DOMAIN c : i > n => c[i][1] = "nl"}))
IsBlank(c) == Places(c, "nl") = DOMAIN c

HasBlock(c) == Places(c, "start") # {}
BlockStart(c) == Min(Places(c, "start"))

\* The index of the last token of the block, to the end of the file if the end
\* marker is missing; git_hooks.rs takes the newline after it along.
BlockEnd(f, c) ==
    IF Places(c, "end") = {} THEN Len(c)
    ELSE LET end == Min(Places(c, "end"))
         IN IF Kind[f] = "hook" /\ end + 1 \in Places(c, "nl") THEN end + 1 ELSE end

Before(c) == SubSeq(c, 1, BlockStart(c) - 1)
After(f, c) == SubSeq(c, BlockEnd(f, c) + 1, Len(c))

\* What a file says that may not be there.
Said(c) == IF c = Nothing THEN <<>> ELSE c

\* A hook file is created with its first line.
Existing(f, c) == IF c # Nothing THEN c ELSE IF Kind[f] = "hook" THEN <<Word("sh")>> ELSE <<>>

Opening(f, c) ==
    IF ~IsBlank(c) THEN Trimmed(c) \o <<Word("nl")>>
    ELSE IF Kind[f] = "hook" THEN <<Word("sh")>>
    ELSE IF c = <<>> THEN <<>> ELSE <<Word("nl"), Word("nl")>>

WithBlock(f, c, v) ==
    LET old == Existing(f, c)
    IN IF HasBlock(old) THEN Before(old) \o Block(v) \o After(f, old)
       ELSE Opening(f, old) \o Block(v)

\* A block whose end marker was cut off: what follows counts as its text.
Unended(c) == HasBlock(c) /\ Places(c, "end") = {}

\* Mutant: a block whose end marker was cut off is not recognised.
WithoutWholeBlock(f, c) ==
    IF c = Nothing THEN c
    ELSE IF ~HasBlock(c) \/ Unended(c) THEN c
    ELSE Trimmed(Before(c)) \o After(f, c)

WithoutBlock(f, c) ==
    IF c = Nothing THEN c
    ELSE IF ~HasBlock(c) THEN c
    ELSE LET prefix == Trimmed(Before(c))
             rest == IF IsBlank(After(f, c)) THEN <<>> ELSE After(f, c)
             joined == IF prefix = <<>> /\ (Kind[f] = "block" \/ rest # <<>>)
                       THEN <<Word("nl")>> \o rest ELSE prefix \o rest
         IN IF Kind[f] = "hook" /\ (IsBlank(joined) \/ Trimmed(joined) = <<Word("sh")>>)
            THEN Nothing ELSE joined

------------------------------------------------------------------------------
\* The commands.

Commanded == [name : {"install", "uninstall"}, version : 1..MaxRuns, listed : SUBSET Files]

\* No file is not a file, nor a content of one, and no command is not a command.
ASSUME ClientFilesAssumption ==
    /\ Kind \in [Files -> Kinds] /\ Selections \subseteq SUBSET Files /\ Dedicated \subseteq Files
    /\ \A f \in Dedicated : Kind[f] = "mcp" /\ f \notin Tomls
    /\ Tomls \subseteq Files /\ \A f \in Tomls : Kind[f] \in {"config", "mcp"}
    /\ {MaxRuns, MaxEdits, MaxKills} \subseteq Nat /\ Torn \notin Nat \cup {Nothing}
    /\ Nothing \notin Files \cup Commanded \cup Nat \cup Seq(Token)
    /\ \A f \in Structured : Nothing \notin SettingsOf(f)

Version == job.version
Installing == job # Nothing /\ job.name = "install"
Uninstalling == job # Nothing /\ job.name = "uninstall"

\* What the command makes of the content it has read.
Result(f, c) ==
    CASE f \in Structured -> IF Installing THEN Patched(f, c, Version) ELSE Unpatched(f, c)
      [] f \in TextFiles -> IF Installing THEN WithBlock(f, c, Version) ELSE WithoutBlock(f, c)
      [] OTHER -> IF Installing THEN Version ELSE Nothing

\* Mutant: the references are written in place.
CutInPlace(f, new) ==
    CASE f \in Structured -> {Settings(f, "broken", 0, 0)}
      [] f \in TextFiles -> {SubSeq(new, 1, n) : n \in 0..(Len(new) - 1)}
      [] OTHER -> {Torn}

\* What a crash can leave behind when the file is being written: fs::write truncates
\* it first, an empty MCP file or TOML file is an empty object, and what is left of a
\* TOML file that is cut between two lines counts as one. A text may be cut within a
\* token. The references are written to a temporary file that is renamed.
Cut(f, new) ==
    CASE Kind[f] \in {"config", "mcp"} -> {Settings(f, form, 0, 0) : form \in {"broken", "object"}}
      [] Kind[f] \in {"settings", "project"} -> {Settings(f, "broken", 0, 0)}
      [] f \in TextFiles ->
             {SubSeq(new, 1, n) : n \in 0..(Len(new) - 1)}
             \cup {Append(SubSeq(new, 1, n), Word("scrap")) : n \in 0..(Len(new) - 1)}
      [] Kind[f] \in {"own", "loose"} -> {Torn}
      [] OTHER -> {files[f]}

Blank(f) == IF f \in TextFiles THEN <<>> ELSE <<0, 0>>

\* The user's part of a content: the lines, or the settings and what is Fragile in them.
Content(f, c) ==
    CASE f \in Structured -> IF c = Nothing THEN <<0, 0>> ELSE <<c.user, c.own>>
      [] f \in TextFiles -> Sift(Said(c), {"line"} \X Nat)
      [] OTHER -> Blank(f)

\* What a command that read c is bound to leave to the user. It loses what the owner
\* has edited since, and it knowingly loses what does not parse, unless it has copied
\* it to a backup, what is Fragile, and the lines behind a block without an end.
Spared(f, c) ==
    CASE f \in TextFiles -> Content(f, IF Unended(Said(c)) THEN Before(c) ELSE c)
      [] Unreadable(f, c) /\ Kind[f] # "project" -> <<0, 0>>
      [] OTHER -> IF f \in Fragile THEN <<Content(f, c)[1], 0>> ELSE Content(f, c)

ClientInit ==
    /\ selected \in Selections
    /\ \E mine \in SUBSET (Structured \cap selected) :
         files = [f \in Files |-> IF f \in mine THEN Settings(f, "object", 0, 0) ELSE Nothing]
    /\ backup = [f \in Files |-> Nothing] /\ wanted = [f \in Files |-> Blank(f)]
    /\ job = Nothing /\ todo = {} /\ at = Nothing /\ snap = Nothing /\ saved = FALSE
    /\ runs = 0 /\ edits = 0 /\ kills = 0

\* install visits the project's settings only if they exist, uninstall the files it
\* has listed before it asks for confirmation, among them no skill file under .agents;
\* the order does not matter, since no file depends on another.
Targets(name) ==
    IF name = "install" THEN {f \in selected : Kind[f] = "project" => files[f] # Nothing}
    ELSE {f \in Files : files[f] # Nothing /\ Kind[f] \notin {"config", "project", "loose", "side"}}

Begin(name) ==
    /\ job = Nothing /\ runs < MaxRuns
    /\ runs' = runs + 1
    /\ job' = [name |-> name, version |-> runs + 1, listed |-> Targets(name)]
    /\ todo' = Targets(name)
    /\ UNCHANGED <<selected, files, backup, at, snap, saved, wanted, edits, kills>>

\* An MCP file with an unexpected type and a config.toml that does not parse are
\* reported, a project file whose root is no object is silently left as it is.
Refused(f, c) ==
    /\ f \in Structured /\ c # Nothing
    /\ \/ Kind[f] = "mcp" /\ c.form \in {"other", "scalar"}
       \/ Kind[f] = "config" /\ c.form = "broken"
       \/ Kind[f] = "project" /\ c.form = "scalar"

\* The settings of Claude Code are patched with unwrap and expect.
Panics(f, c) ==
    /\ Installing /\ c # Nothing
    /\ \/ Kind[f] = "settings" /\ c.form \in {"other", "scalar"}
       \/ Kind[f] = "project" /\ c.form = "other"

\* Nothing to write: what was parsed has not changed, comments apart. A config.toml is
\* written even then.
Untouched(f, c) ==
    \/ Refused(f, c)
    \/ Kind[f] # "config" /\ Result(f, c) = c
    \/ /\ Kind[f] = "mcp" /\ f \in Tomls /\ c # Nothing
       /\ Result(f, c) = [c EXCEPT !.own = 0]

\* A file of another form is reported and not answered for.
Pass(f) ==
    /\ job # Nothing /\ at = Nothing /\ f \in todo
    /\ ~Panics(f, files[f]) /\ Untouched(f, files[f])
    /\ todo' = todo \ {f}
    /\ job' = IF f \in Structured /\ files[f] # Nothing /\ ~Usable(files[f])
              THEN [job EXCEPT !.listed = @ \ {f}] ELSE job
    /\ UNCHANGED <<selected, files, backup, at, snap, saved, wanted, bounds>>

Read(f) ==
    /\ job # Nothing /\ at = Nothing /\ f \in todo
    /\ ~Panics(f, files[f]) /\ ~Untouched(f, files[f])
    /\ at' = f /\ snap' = files[f] /\ saved' = FALSE
    /\ UNCHANGED <<selected, files, backup, job, todo, wanted, bounds>>

Panic(f) ==
    /\ job # Nothing /\ at = Nothing /\ f \in todo /\ Panics(f, files[f])
    /\ job' = Nothing /\ todo' = {}
    /\ UNCHANGED <<selected, files, backup, at, snap, saved, wanted, bounds>>

\* What was in the backup only is lost when the text of an unreadable file replaces it.
Replaces ==
    wanted' = IF Unreadable(at, snap)
              THEN [wanted EXCEPT ![at] = Content(at, files[at])] ELSE wanted

\* Mutant: a backup that is there is kept.
BackUpIfMissing ==
    /\ at # Nothing /\ Kind[at] = "project" /\ ~saved
    /\ backup' = [backup EXCEPT ![at] = IF @ = Nothing THEN snap ELSE @] /\ saved' = TRUE
    /\ Replaces
    /\ UNCHANGED <<selected, files, job, todo, at, snap, bounds>>

\* The text as it was read, before the project's settings are written.
BackUp ==
    /\ at # Nothing /\ Kind[at] = "project" /\ ~saved
    /\ backup' = [backup EXCEPT ![at] = snap] /\ saved' = TRUE
    /\ Replaces
    /\ UNCHANGED <<selected, files, job, todo, at, snap, bounds>>

Write ==
    /\ at # Nothing /\ (Kind[at] = "project" => saved)
    /\ files' = [files EXCEPT ![at] = Result(at, snap)]
    /\ wanted' = [wanted EXCEPT ![at] = Spared(at, snap)]
    /\ todo' = todo \ {at} /\ at' = Nothing /\ snap' = Nothing /\ saved' = FALSE
    /\ UNCHANGED <<selected, backup, job, bounds>>

Stop ==
    /\ kills' = kills + 1
    /\ job' = Nothing /\ todo' = {} /\ at' = Nothing /\ snap' = Nothing /\ saved' = FALSE

\* Killed between two files, or while it writes one (or the backup of one).
CrashBetween ==
    /\ job # Nothing /\ kills < MaxKills
    /\ Stop
    /\ UNCHANGED <<selected, files, backup, wanted, runs, edits>>

CrashInWrite ==
    /\ at # Nothing /\ kills < MaxKills /\ Result(at, snap) # Nothing
    /\ IF Kind[at] = "project" /\ ~saved
       THEN /\ \E cut \in Cut(at, snap) : backup' = [backup EXCEPT ![at] = cut]
            /\ Replaces
            /\ UNCHANGED files
       ELSE /\ \E cut \in Cut(at, Result(at, snap)) :
                 /\ files' = [files EXCEPT ![at] = cut]
                 /\ wanted' = [wanted EXCEPT ![at] = IF Kind[at] = "project" THEN Spared(at, snap)
                                                    ELSE Content(at, cut)]
            /\ UNCHANGED backup
    /\ Stop
    /\ UNCHANGED <<selected, runs, edits>>

End(name) ==
    /\ job # Nothing /\ job.name = name /\ todo = {} /\ at = Nothing
    /\ job' = Nothing
    /\ UNCHANGED <<selected, files, backup, todo, at, snap, saved, wanted, bounds>>

------------------------------------------------------------------------------
\* The owners of the files, at any moment. An agent that saves its settings keeps
\* memlayer's entries, so a form without a place for them is that of a file without.
EditSettings(f, form, own) ==
    LET old == IF files[f] = Nothing THEN Settings(f, "object", 0, 0) ELSE files[f]
    IN /\ f \in Structured /\ edits < MaxEdits
       /\ edits' = edits + 1
       /\ form = "scalar" \/ (form = "other" /\ Kind[f] = "mcp") =>
            \A x \in Parts(f) : old.ours[x] = 0
       /\ own # 0 => f \in Fragile /\ form \in {"object", "other"}
       /\ own # 0 /\ Kind[f] = "settings" => old.ours["auto"] = 0
       /\ files' = [files EXCEPT ![f] = [old EXCEPT !.form = form, !.user = edits + 1, !.own = own]]
       /\ wanted' = [wanted EXCEPT ![f] = <<edits + 1, own>>]
       /\ UNCHANGED <<backup, command, runs, kills>>

AddLine(f, first) ==
    /\ f \in TextFiles /\ edits < MaxEdits
    /\ edits' = edits + 1
    /\ LET n == <<Line(edits + 1)>>
           Put(c) == IF first THEN n \o c ELSE c \o n
       IN /\ files' = [files EXCEPT ![f] = Put(Said(files[f]))]
          /\ wanted' = [wanted EXCEPT ![f] = Put(wanted[f])]
    /\ UNCHANGED <<backup, command, runs, kills>>

ClientNext ==
    \/ \E name \in {"install", "uninstall"} : Begin(name) \/ End(name)
    \/ \E f \in Files : Pass(f) \/ Read(f) \/ Panic(f)
    \/ BackUp \/ Write \/ CrashBetween \/ CrashInWrite
    \/ \E f \in selected :
         \/ \E form \in Forms, own \in {0, edits + 1} : EditSettings(f, form, own)
         \/ \E first \in BOOLEAN : AddLine(f, first)

ClientSpec == ClientInit /\ [][ClientNext]_clientVars

------------------------------------------------------------------------------
\* Properties.

\* A bound on the length of a text file: the lines and newlines the runs can add.
MaxLength == MaxEdits + 6 * MaxRuns

SettingsOK(f, c) ==
    \/ c = Nothing
    \/ /\ c \in SettingsOf(f) /\ c.user <= MaxEdits /\ c.own <= MaxEdits
       /\ \A x \in Parts(f) : c.ours[x] <= MaxRuns

\* The type invariant. A reference file is whole or absent, whenever a crash strikes.
ClientTypeOK ==
    /\ \A f \in Files :
         CASE f \in Structured -> SettingsOK(f, files[f])
           [] f \in TextFiles ->
                  files[f] = Nothing \/ (files[f] \in Seq(Token) /\ Len(files[f]) <= MaxLength)
           [] Kind[f] \in {"own", "loose"} -> files[f] \in (0..MaxRuns) \cup {Nothing, Torn}
           [] OTHER -> files[f] \in (0..MaxRuns) \cup {Nothing}
    /\ \A f \in Files : backup[f] # Nothing => Kind[f] = "project" /\ SettingsOK(f, backup[f])
    /\ selected \in Selections /\ todo \subseteq Files /\ at \in todo \cup {Nothing} /\ saved \in BOOLEAN
    /\ job \in Commanded \cup {Nothing}
    /\ runs \in 0..MaxRuns /\ edits \in 0..MaxEdits /\ kills \in 0..MaxKills

\* cmd_skill.rs: "existing keys are preserved"; git_hooks.rs: "uninstall leaves any
\* surrounding user hook content intact"; the backup is there "so a user can recover
\* if anything goes wrong". What the user has put into a file is in it, or in its
\* backup, in the user's order, through any installs, uninstalls and crashes. What the
\* code is known to lose counts as the user's no longer, and what is left goes on
\* counting: an edit between read and write, what a write cut short has lost, and
\* what Spared and Replaces name, the user's autoMemoryEnabled and the comments of a
\* TOML file among them.
UserContentKept ==
    \A f \in Structured \cup TextFiles :
        \/ Content(f, files[f]) = wanted[f]
        \/ (Kind[f] = "project" /\ Content(f, backup[f]) = wanted[f])

Count(c, w) == Cardinality(Places(c, w))

\* "Safe to re-run: existing files are overwritten, append targets are idempotent (the
\* memlayer block is replaced, not duplicated)": once an install is through, each file
\* it has not refused has memlayer's entries: an MCP file, a skill file and the block of
\* a text this version's, and there is one block; a settings or project file may keep
\* the hooks an older version wrote. So it is also after an install that was killed
\* half-way, and when the owners save settings that keep the entries or add lines
\* around the block.
InstallRefreshes ==
    [][End("install") =>
        \A f \in job.listed :
            CASE f \in Structured ->
                   Usable(files[f]) => /\ \A x \in Parts(f) : files[f].ours[x] # 0
                                       /\ Kind[f] = "mcp" => files[f].ours["entry"] = Version
              [] f \in TextFiles -> /\ Count(files[f], "start") = 1 /\ Count(files[f], "body") = 1
                                 /\ Contains(files[f], Body(Version))
              [] OTHER -> files[f] = Version]_clientVars

\* cmd_uninstall.rs: "remove all skill files installed by `memlayer install`, undo
\* patches to ~/.claude/settings.json, and unregister MCP server entries": once an
\* uninstall is through, none of the files it listed has anything of memlayer's but
\* the hooks of Claude Code, also after a torn install. (A piece of a start marker that
\* was cut in its middle is no start marker, and stays.)
UninstallClears ==
    [][End("uninstall") =>
        \A f \in job.listed :
            CASE f \in Structured ->
                   Usable(files[f]) => \A x \in Parts(f) \ {"hooks"} : files[f].ours[x] = 0
              [] f \in TextFiles -> files[f] # Nothing => ~HasBlock(files[f]) /\ Count(files[f], "body") = 0
              [] OTHER -> files[f] = Nothing]_clientVars

==============================================================================
