------------------------------- MODULE PresetFile -------------------------------
(***************************************************************************)
(* models.ini as core/modelpresets/store.go reads and edits it: a sequence *)
(* of lines.  Put and Delete keep every line outside the section they      *)
(* replace; comments that end a section stay, since they may belong to the *)
(* next one.                                                               *)
(***************************************************************************)
EXTENDS Naturals, SequencesExt

\* A name is <<text, padded>>, a value <<text, note>>: padded with spaces around
\* it, note with an inline comment after it.  Both are gone when read back.
Plain(x) == <<x[1], FALSE>>

Blank == [line |-> "blank"]
Note(id) == [line |-> "note", id |-> id]
Header(name) == [line |-> "head", name |-> name]
Entry(key, value) == [line |-> "entry", key |-> key, value |-> value]
NoEqual == [line |-> "text"]      \* neither comment, header nor key = value

\* keyAliases: one alias stands for the table.
Canonical(key) == IF key = "batch" THEN "batch-size" ELSE key

Heads(s) == {i \in 1..Len(s) : s[i].line = "head"}
Next1(s, i) == Min({j \in Heads(s) : j > i} \cup {Len(s) + 1})
Skipped(l) == l.line \in {"blank", "note"}

\* The entries under the header at line h; a later line of the same key wins.
Values(s, h) ==
    LET at == {i \in h..(Next1(s, h) - 1) : s[i].line = "entry"}
    IN [k \in {Canonical(s[i].key) : i \in at} |->
          Plain(s[Max({i \in at : Canonical(s[i].key) = k})].value)]

\* read: two headers of one name, or a line without "=" in a section, fail it.
Readable(s) ==
    /\ \A i, j \in Heads(s) : Plain(s[i].name) = Plain(s[j].name) => i = j
    /\ \A i \in 1..Len(s) : s[i].line = "text" => ~\E h \in Heads(s) : h < i

Sections(s) ==
    [n \in {Plain(s[h].name) : h \in Heads(s)} |->
       Values(s, CHOOSE h \in Heads(s) : Plain(s[h].name) = n)]

\* The last line of the section stays.
MutRemoveSectionLast(s, name) ==
    LET found == {h \in Heads(s) : Plain(s[h].name) = name} IN
    IF found = {} THEN s
    ELSE SubSeq(s, 1, Min(found) - 1) \o SubSeq(s, Next1(s, Min(found)) - 1, Len(s))

\* removeSection, which gives back the trailing blank lines and comments.
RemoveSection(s, name) ==
    LET found == {h \in Heads(s) : Plain(s[h].name) = name} IN
    IF found = {} THEN s
    ELSE LET start == Min(found)
             end == Max({i \in start..(Next1(s, start) - 1) : i = start \/ ~Skipped(s[i])})
         IN SubSeq(s, 1, start - 1) \o SubSeq(s, end + 1, Len(s))

\* TrimRight takes the blank lines off the end.
Trimmed(s) == SubSeq(s, 1, Max({0} \cup {i \in 1..Len(s) : s[i].line # "blank"}))

Rendered(name, values) ==
    <<Blank, Header(name)>> \o SetToSeq({Entry(k, values[k]) : k \in DOMAIN values})

\* Put: the section under exactly this name is dropped, the new one appended.
\* A padded name is never one that read found.
PutSection(s, name, values) ==
    Trimmed(IF name \in DOMAIN Sections(s) THEN RemoveSection(s, name) ELSE s)
      \o Rendered(name, values)

DeleteSection(s, name) == Trimmed(RemoveSection(s, name))

\* A missing file reads as this one.
NewFile == <<Entry("version", <<"1", FALSE>>)>>

================================================================================
