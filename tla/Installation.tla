---------------------------- MODULE Installation ----------------------------
(***************************************************************************)
(* The installers and the files they share with the user: a host's MCP        *)
(* configuration (setup-host.py), its rule file (install-context-rules.py),   *)
(* Codex' config.toml and hooks.json (install-global-config.py,               *)
(* install-global-hooks.sh), Claude's settings.json (claude/install.sh), the *)
(* Pro configuration (pro/install.py), and rule files that an installer         *)
(* writes whole.                                                            *)
(*                                                                          *)
(* A behaviour is about one file.  Its text is a sequence: what the user wrote *)
(* there, and what the installers did.  Every installer reads the file,       *)
(* computes the new text and writes it over the old; it may stop in between,  *)
(* or within the write.                                                     *)
(***************************************************************************)
EXTENDS Integers, Sequences, FiniteSets, SequencesExt

CONSTANTS
    Kinds,          \* the files considered: a subset of AllKinds
    Settings,       \* what the user may write: lines, entries,
    Tables,         \* tables, each under a header of its own,
    Switches,       \* and values for what the installer sets itself
    Installers,     \* processes
    MaxInstalls

AllKinds == {"mcp", "rules", "toml", "hooks", "settings", "pro", "rulefile"}

\* The user writes no mark of the installers.
ASSUME InstallAssumption ==
    /\ Kinds \subseteq AllKinds /\ MaxInstalls \in Nat
    /\ Tables \subseteq Settings /\ Switches \subseteq Settings
    /\ Settings \intersect {"managed", "start", "end", "obsolete"} = {}

VARIABLES kind, file, backups, inst, past

installVars == <<kind, file, backups, inst, past>>

Managed == "managed"        \* a section, a registration, an entry of the installer
Start == "start"            \* of the block in a rule file
End == "end"
Obsolete == "obsolete"      \* a registration of an earlier version

Json == {"hooks", "settings"}
NotAtWork == [pc |-> "idle", read |-> <<>>]

\* `past` is history: what the user wrote outside the installer's part of the file,
\* and what went wrong.
InstallInit ==
    /\ kind \in Kinds
    /\ file \in {[exists |-> FALSE, text |-> <<>>, parses |-> TRUE],
                 [exists |-> TRUE, text |-> IF kind = "hooks" THEN <<Obsolete>> ELSE <<>>,
                  parses |-> TRUE]}
    /\ backups = <<>>
    /\ inst = [p \in Installers |-> NotAtWork]
    /\ past = [wrote |-> {}, installs |-> 0, overlap |-> FALSE, crashed |-> FALSE,
               broken |-> FALSE, sound |-> FALSE]

-----------------------------------------------------------------------------
(* The new text, from the text that was read.                               *)

FirstPlace(text, mark) == SelectInSeq(text, LAMBDA t : t = mark)

\* managed_write(append): from the first start to the first end.
WithBlock(text) ==
    IF Contains(text, Start) /\ Contains(text, End)
    THEN LET s == FirstPlace(text, Start)
             e == FirstPlace(text, End)
         IN SubSeq(text, 1, s - 1) \o <<Start, End>> \o SubSeq(text, e + 1, Len(text))
    ELSE text \o <<Start, End>>

\* The text at some of its places, in their order.
TextAt(text, places) ==
    LET rank(i) == Cardinality({j \in places : j <= i})
    IN  [n \in 1..Cardinality(places) |-> text[CHOOSE i \in places : rank(i) = n]]

Places(text, items) == {i \in DOMAIN text : text[i] \in items}

Without(text, mark) == TextAt(text, DOMAIN text \ Places(text, {mark}))

\* remove_sections: the managed tables, with every line up to the next header.
Section(text) ==
    {i \in DOMAIN text : \E h \in 1..i :
        text[h] = Managed /\ \A j \in (h + 1)..i : text[j] \notin Tables}

\* Mutant of WithSections: the next header does not end what is skipped.
SectionsToTheEnd(text) ==
    Append(TextAt(text, {i \in DOMAIN text :
                            text[i] \notin Switches /\ ~Contains(SubSeq(text, 1, i), Managed)}),
           Managed)

\* The sections and the values of the installer's keys, then both anew.
WithSections(text) ==
    Append(TextAt(text, DOMAIN text \ (Section(text) \union Places(text, Switches))), Managed)

\* Of the old configuration only the key is carried over.
WithKey(text) ==
    Append(TextAt(text, DOMAIN text \ Places(text, Switches \union {Managed})), Managed)

\* add and ensure: found by its command and updated in place, or appended.
WithEntry(text) == IF Contains(text, Managed) THEN text ELSE Append(text, Managed)

NewText(text) ==
    CASE kind = "rules" -> WithBlock(text)
      [] kind = "toml" -> WithSections(text)
      [] kind = "hooks" -> WithEntry(Without(text, Obsolete))
      [] kind = "settings" -> WithEntry(text)
      [] kind = "pro" -> WithKey(text)
      [] OTHER -> <<Managed>>

-----------------------------------------------------------------------------
(* The user: external.                                                      *)

AtWork == {p \in Installers : inst[p].pc /= "idle"}

Block(text) ==
    {i \in DOMAIN text : \E s \in 1..i, e \in i..Len(text) : text[s] = Start /\ text[e] = End}

\* The places that are the installer's to overwrite.
InstallersPart(text) ==
    CASE kind = "rules" -> Block(text)
      [] kind = "toml" -> Section(text) \union Places(text, Switches)
      [] kind = "pro" -> Places(text, Switches)
      [] kind = "rulefile" -> DOMAIN text
      [] OTHER -> {}

HasKey(text) == Places(text, Settings \ Switches) /= {}

\* Where the order of the text means something, the user writes anywhere in it.
Gaps == IF kind \in {"rules", "toml"} THEN 1..(Len(file.text) + 1) ELSE {Len(file.text) + 1}

UserWrites ==
    /\ \E item \in Settings \ (past.wrote \union ToSet(file.text)), n \in Gaps :
          LET text == InsertAt(file.text, n, item) IN
          /\ kind = "pro" /\ item \notin Switches => ~HasKey(file.text)
          /\ file' = [file EXCEPT !.exists = TRUE, !.text = text]
          /\ past' = [past EXCEPT !.wrote = IF n \in InstallersPart(text) THEN @
                                            ELSE @ \union {item},
                                  !.sound = FALSE, !.overlap = @ \/ AtWork /= {}]
    /\ UNCHANGED <<kind, backups, inst>>

\* A missing comma or quote, and its repair.
UserBreaks ==
    /\ kind \in Json \union {"toml", "pro"}
    /\ file.exists
    /\ file' = [file EXCEPT !.parses = ~@]
    /\ past' = [past EXCEPT !.broken = TRUE, !.sound = FALSE, !.overlap = @ \/ AtWork /= {}]
    /\ UNCHANGED <<kind, backups, inst>>

-----------------------------------------------------------------------------
(* An installer.                                                            *)

\* What an installer that does not give up at once goes on with.  A JSON file that
\* does not parse is read as an empty one, a TOML file stops the installer.
\* setup-host.py reads nothing: it sees that the file is there, and finds the first
\* free .bak name.  The Pro installer has its key from the environment, whatever the
\* file, or else from the file, which has to parse.
Reads ==
    CASE kind = "mcp" -> {<<Len(backups) + 1>>}
      [] kind = "toml" /\ ~file.parses -> {}
      [] kind \in Json /\ ~file.parses -> {<<>>}
      [] kind = "pro" -> {<<>>} \union (IF file.parses /\ HasKey(file.text) THEN {file.text} ELSE {})
      [] OTHER -> {file.text}

Begin(p) ==
    /\ inst[p].pc = "idle"
    /\ past.installs < MaxInstalls
    /\ \E read \in Reads :
          inst' = [inst EXCEPT ![p] =
              [pc |-> IF kind = "mcp" /\ file.exists THEN "backup" ELSE "write", read |-> read]]
    /\ past' = [past EXCEPT !.installs = @ + 1, !.sound = FALSE, !.overlap = @ \/ AtWork /= {}]
    /\ UNCHANGED <<kind, file, backups>>

\* rename replaces what has the name by now.
PutBackup(n, text) ==
    backups' = IF n <= Len(backups) THEN [backups EXCEPT ![n] = text] ELSE Append(backups, text)

\* path.rename: an exception if the file is gone.
Backup(p) ==
    /\ inst[p].pc = "backup"
    /\ IF file.exists
       THEN /\ PutBackup(inst[p].read[1], file.text)
            /\ file' = [exists |-> FALSE, text |-> <<>>, parses |-> TRUE]
            /\ inst' = [inst EXCEPT ![p].pc = "write"]
       ELSE /\ inst' = [inst EXCEPT ![p] = NotAtWork]
            /\ UNCHANGED <<file, backups>>
    /\ UNCHANGED <<kind, past>>

\* A text that does not parse as TOML never gets here.  With a key from the
\* environment the user gives up what the Pro configuration holds.
Write(p) ==
    /\ inst[p].pc = "write"
    /\ file' = [exists |-> TRUE, text |-> NewText(inst[p].read), parses |-> TRUE]
    /\ inst' = [inst EXCEPT ![p] = NotAtWork]
    /\ past' = [past EXCEPT !.sound = ~past.overlap,
                            !.wrote = IF kind = "pro" /\ inst[p].read = <<>> THEN {} ELSE @]
    /\ UNCHANGED <<kind, backups>>

\* The file is emptied, then a part of the text is written: a crash, or a full disk.
WriteCut(p) ==
    /\ inst[p].pc = "write"
    /\ \E n \in 0..(Len(NewText(inst[p].read)) - 1), parses \in BOOLEAN :
          /\ parses => kind \notin Json \union {"pro"}
          /\ file' = [exists |-> TRUE, text |-> SubSeq(NewText(inst[p].read), 1, n),
                      parses |-> parses \/ kind \in {"rules", "rulefile"}]
    /\ inst' = [inst EXCEPT ![p] = NotAtWork]
    /\ past' = [past EXCEPT !.crashed = TRUE, !.sound = FALSE]
    /\ UNCHANGED <<kind, backups>>

Stop(p) ==
    /\ inst[p].pc /= "idle"
    /\ inst' = [inst EXCEPT ![p] = NotAtWork]
    /\ UNCHANGED <<kind, file, backups, past>>

InstallNext ==
    \/ UserWrites \/ UserBreaks
    \/ \E p \in Installers : Begin(p) \/ Backup(p) \/ Write(p) \/ WriteCut(p) \/ Stop(p)

InstallSpec == InstallInit /\ [][InstallNext]_installVars

-----------------------------------------------------------------------------
InstallTypeOK ==
    /\ kind \in Kinds
    /\ {file.exists, file.parses, past.overlap, past.sound} \subseteq BOOLEAN
    /\ ~file.exists => file.text = <<>>
    /\ \A p \in Installers : inst[p].pc \in {"idle", "backup", "write"}

\* What the user wrote outside the installer's part of a file is still there, or in a
\* backup, after any number of installs, wherever in the file it stands; inside that
\* part (a managed section up to the next header, the block in a rule file, a value of
\* the installer's keys, all of the Pro configuration but the key, a rule file that is
\* written whole) it is lost.  What it rests on: nobody else is at work meanwhile;
\* except for setup-host.py, which renames the old file away first, no write is cut;
\* and the JSON installers were never given a file that does not parse, which they
\* replace.
UserTextSurvives ==
    \/ past.overlap
    \/ kind /= "mcp" /\ past.crashed
    \/ kind \in Json /\ past.broken
    \/ past.wrote \subseteq ToSet(file.text) \union UNION {ToSet(b) : b \in ToSet(backups)}

\* Installing again, even over what an install that was cut has left, leaves the
\* installer's part in the file exactly once, and nothing obsolete.
InstalledOnce ==
    past.sound =>
        LET count(t) == Cardinality({n \in DOMAIN file.text : file.text[n] = t}) IN
        IF kind = "rules" THEN count(End) = 1 ELSE count(Managed) = 1 /\ count(Obsolete) = 0

\* Installing is repeatable.
InstallsAreRepeatable == UserTextSurvives /\ InstalledOnce
=============================================================================
