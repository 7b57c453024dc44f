--------------------------- MODULE LauncherConfig ---------------------------
(* The edits scripts/galaxy-start.js makes to a YAML file.  A file is the       *)
(* sequence of its lines as split at "\n", so one that ends with a newline ends *)
(* with an empty line; a line is named by what the edits tell apart.            *)
EXTENDS Integers, SequencesExt

\* Lines at the left margin, with an earlier and with the launcher's own value
Port == "port: launcher"
AuthDir == "auth-dir:"
Usage == "usage-statistics-enabled: true"
KeysHeader == "api-keys:"
Remote == "remote-management:"
NewKey == "  - new key"
PanelPro == "  panel-github-repository: pro"
Allow(b) == IF b THEN "  allow-remote: true" ELSE "  allow-remote: false"

Ports == {Port, "port: other"}
Usages == {Usage, "usage-statistics-enabled: false"}
KeysHeaders == {KeysHeader, "api-keys: []"}
Items == {NewKey, "  - old key", "- old key"}
Allows == {Allow(TRUE), Allow(FALSE)}
Panels == {PanelPro, "  panel-github-repository: other"}
Blank == ""
Indented == {NewKey, "  - old key", "  nested"} \cup Allows \cup Panels

\* What the launcher does not manage
Foreign == {"other:", "  nested"}

IndexIn(doc, S) == SelectInSeq(doc, LAMBDA line : line \in S)
LastIn(doc, S, from, to) ==
  LET is == {i \in from..to : i \in DOMAIN doc /\ doc[i] \in S}
  IN  IF is = {} THEN 0 ELSE Max(is)

\* The first line after start that is not one of the section's lines
EndOf(doc, start, section) ==
  Min({i \in (start + 1)..(Len(doc) + 1) : i > Len(doc) \/ doc[i] \notin section})

EndsWithNewline(doc) == Last(doc) = Blank

\* upsertTopLevelScalar: the first such line is replaced, or one is put on top.
UpsertScalar(doc, S, line) ==
  LET i == IndexIn(doc, S)
  IN  IF i = 0 THEN <<line>> \o doc ELSE [doc EXCEPT ![i] = line]

\* Mutant of UpsertKeys: the section is taken to end one line later
UpsertKeysPastEnd(doc) ==
  LET block == <<KeysHeader, NewKey>>
      start == IndexIn(doc, KeysHeaders)
      end == EndOf(doc, start, Indented \cup Items \cup {Blank})
  IN  IF start = 0
      THEN (IF EndsWithNewline(doc) THEN Front(doc) ELSE doc) \o block \o <<Blank>>
      ELSE SubSeq(doc, 1, start - 1) \o block \o SubSeq(doc, end + 1, Len(doc))

\* upsertTopLevelList: the header and every blank, indented or list line below it
\* make way for the new block; without a header the block is appended.
UpsertKeys(doc) ==
  LET block == <<KeysHeader, NewKey>>
      start == IndexIn(doc, KeysHeaders)
      end == EndOf(doc, start, Indented \cup Items \cup {Blank})
  IN  IF start = 0
      THEN (IF EndsWithNewline(doc) THEN Front(doc) ELSE doc) \o block \o <<Blank>>
      ELSE SubSeq(doc, 1, start - 1) \o block \o SubSeq(doc, end, Len(doc))

\* yaml.replace(/\s*$/, "\n")
TrimEnd(doc) ==
  LET kept == LastIn(doc, {doc[i] : i \in DOMAIN doc} \ {Blank}, 1, Len(doc))
  IN  IF kept = 0 THEN <<Blank>> ELSE SubSeq(doc, 1, kept)

\* upsertRemoteManagement.  setAllow: ALLOW_REMOTE_MANAGEMENT is on; allow: the
\* value it is written with.  The panel's line is looked for before the edit of the
\* other line and replaced after it, at the place it was found at.
UpsertRemote(doc, setAllow, allow) ==
  LET start == IndexIn(doc, {Remote})
      end == EndOf(doc, start, Indented \cup {Blank})
      allowAt == LastIn(doc, Allows, start + 1, end - 1)
      panelAt == LastIn(doc, Panels, start + 1, end - 1)
      allowed == IF ~setAllow THEN doc
                 ELSE IF allowAt > 0 THEN [doc EXCEPT ![allowAt] = Allow(allow)]
                 ELSE InsertAt(doc, start + 1, Allow(allow))
      shift == Len(allowed) - Len(doc)
  IN  IF start = 0
      THEN TrimEnd(doc) \o <<Remote, Allow(allow), PanelPro, Blank>>
      ELSE IF panelAt > 0 THEN [allowed EXCEPT ![panelAt] = PanelPro]
      ELSE InsertAt(allowed, end + shift, PanelPro)

\* What that does to a section with a panel's line and no allow-remote: the new
\* line moves the panel's, and the line before it is the one that is replaced.
Misplaced(doc, e) ==
  LET start == IndexIn(doc, {Remote})
      end == EndOf(doc, start, Indented \cup {Blank})
  IN  /\ e.allow = "on" /\ start > 0
      /\ LastIn(doc, Allows, start + 1, end - 1) = 0
      /\ LastIn(doc, Panels, start + 1, end - 1) > 0

\* renderGeneratedConfig
Generated(keys, allow) ==
  <<Port, AuthDir>> \o (IF keys THEN <<KeysHeader, NewKey>> ELSE <<"api-keys: []">>)
  \o <<Remote, Allow(allow), PanelPro, Usage, Blank>>

\* The edits of ensureConfig, in its order.  e: the settings of the environment.
AllowRemote(e) == e.allow = "on" \/ (e.allow = "unset" /\ e.password)

Edited(doc, e) ==
  LET ported == UpsertScalar(doc, Ports, Port)
      authed == IF IndexIn(ported, {AuthDir}) > 0 THEN ported
                ELSE UpsertScalar(ported, {AuthDir}, AuthDir)
      counted == UpsertScalar(authed, Usages, Usage)
      keyed == IF e.keys THEN UpsertKeys(counted) ELSE counted
      remote == UpsertRemote(keyed, e.allow = "on", AllowRemote(e))
  IN  IF EndsWithNewline(remote) THEN remote ELSE Append(remote, Blank)

ForeignLines(doc) == SelectSeq(doc, LAMBDA line : line \in Foreign)

\* replaceExampleAPIKeys on the list of keys: the run of example keys it begins
\* with is replaced; keys behind one of the user's own stay.
ReplaceExamples(keys) ==
  LET own == SelectInSeq(keys, LAMBDA key : key # "example")
      rest == IF own = 0 THEN <<>> ELSE SubSeq(keys, own, Len(keys))
  IN  IF keys = <<>> \/ Head(keys) # "example" THEN keys ELSE <<"random">> \o rest
=============================================================================
