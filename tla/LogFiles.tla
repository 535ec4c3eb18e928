-------------------------------- MODULE LogFiles --------------------------------
(***************************************************************************)
(* The log of a detached service (platform/audit/logs.go): one path, the   *)
(* archives its earlier files were moved to, and a reader that follows the *)
(* path.  A process keeps the file it opened, whatever becomes of the path.*)
(* Lines are numbered as they are written.                                 *)
(***************************************************************************)
EXTENDS Naturals, Sequences, FiniteSets

CONSTANTS MaxLines,   \* bound: lines written
          TailLines   \* lines a follower first shows

ASSUME LogAssumption == MaxLines \in Nat /\ TailLines \in Nat \ {0}

VARIABLES text,      \* of every log file ever made, by number
          path,      \* the file at the log's path, 0 for none
          archives,  \* files in the archive directory
          deleted,   \* files removed from the archive by the user or by retention
          follow,    \* the follower
          out,       \* lines it printed
          mixed      \* history: the log was moved between its stat and its open

logVars == <<text, path, archives, deleted, follow, out, mixed>>
followVars == <<follow, out, mixed>>

LinesOf(i) == {text[i][k] : k \in 1..Len(text[i])}
LastLine == Cardinality(UNION {LinesOf(i) : i \in 1..Len(text)})
Off == [step |-> "off", file |-> 0, offset |-> 0, from |-> 0, seen |-> 0, size |-> 0]

LogInit ==
    /\ text = <<>> /\ path = 0 /\ archives = {} /\ deleted = {}
    /\ follow = Off /\ out = <<>> /\ mixed = FALSE

MoveLog(empty) ==
    \/ /\ path' = 0
       /\ archives' = IF empty \/ path = 0 THEN archives ELSE archives \cup {path}
       /\ UNCHANGED <<text, deleted>>
    \/ UNCHANGED <<text, path, archives, deleted>>

\* initLogFile appends to the file at the path or makes one.
OpenLog ==
    IF path # 0 THEN UNCHANGED <<text, path>>
    ELSE text' = Append(text, <<>>) /\ path' = Len(text) + 1

WriteLine(i) ==
    /\ LastLine < MaxLines
    /\ text' = [text EXCEPT ![i] = Append(@, LastLine + 1)]
    /\ UNCHANGED <<path, archives, deleted, followVars>>

\* DeleteArchive, ClearArchives and CleanupArchives take listed archives away.
RemoveArchives ==
    \E gone \in (SUBSET archives) \ {{}} :
      /\ archives' = archives \ gone
      /\ deleted' = deleted \cup gone
      /\ UNCHANGED <<text, path, followVars>>

----------------------------------------------------------------------------
(* FollowLog *)

\* formatTail: the last lines of what is there.
Tail1(s) == SubSeq(s, IF Len(s) > TailLines THEN Len(s) - TailLines + 1 ELSE 1, Len(s))

\* writeInitialTail takes the tail and the offset from one open file.
FollowStart ==
    /\ follow.step = "off"
    /\ follow' = [Off EXCEPT !.step = "wait", !.file = path, !.from = LastLine,
                             !.offset = IF path = 0 THEN 0 ELSE Len(text[path])]
    /\ out' = IF path = 0 THEN <<>> ELSE Tail1(text[path])
    /\ UNCHANGED <<text, path, archives, deleted, mixed>>

\* followUpdate: another file than the last time is read from its beginning.
MutFrom(file) == follow.offset
From(file) == IF file = follow.file THEN follow.offset ELSE 0

FollowStat ==
    /\ follow.step = "wait"
    /\ follow' = IF path = 0 THEN [follow EXCEPT !.file = 0, !.offset = 0]
                 ELSE [follow EXCEPT !.step = "copy", !.offset = From(path),
                                     !.seen = path, !.size = Len(text[path])]
    /\ UNCHANGED <<text, path, archives, deleted, out, mixed>>

\* copyFrom opens the path again; a file that is missing or too short ends it.
FollowCopy ==
    /\ follow.step = "copy"
    /\ mixed' = (mixed \/ path # follow.seen)
    /\ IF follow.size <= follow.offset
       THEN /\ follow' = [follow EXCEPT !.step = "wait", !.file = follow.seen, !.seen = 0, !.size = 0]
            /\ UNCHANGED out
       ELSE IF path = 0 \/ Len(text[path]) < follow.size
       THEN /\ follow' = [follow EXCEPT !.step = "ended"]
            /\ out' = IF path = 0 THEN out
                      ELSE out \o SubSeq(text[path], follow.offset + 1, Len(text[path]))
       ELSE /\ follow' = [follow EXCEPT !.step = "wait", !.file = follow.seen,
                                        !.offset = follow.size, !.seen = 0, !.size = 0]
            /\ out' = out \o SubSeq(text[path], follow.offset + 1, follow.size)
    /\ UNCHANGED <<text, path, archives, deleted>>

FollowStop ==
    /\ follow.step = "wait"
    /\ follow' = [follow EXCEPT !.step = "ended"]
    /\ UNCHANGED <<text, path, archives, deleted, out, mixed>>

Follow == FollowStat \/ FollowCopy

----------------------------------------------------------------------------
(* Properties *)

\* A follower prints no line twice and none out of order, and nothing of the
\* file it follows is passed over, unless the log was moved between its stat
\* and its open.
FollowExact ==
    ~mixed =>
      /\ \A i, j \in 1..Len(out) : i < j => out[i] < out[j]
      /\ follow.step = "wait" /\ follow.file # 0 =>
           \A k \in 1..Len(text[follow.file]) :
             k <= follow.offset /\ text[follow.file][k] > follow.from =>
               \E i \in 1..Len(out) : out[i] = text[follow.file][k]

================================================================================
