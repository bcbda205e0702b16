-------------------------------- MODULE Sync --------------------------------
(***************************************************************************)
(* Which files of a session's workspace belong to the parent snapshot:     *)
(* the matcher of the post-session pass (internal/sync/sync.go), the       *)
(* matcher of the shell script that Claude Code runs after every edit      *)
(* (claude_hooks.go), and the table of pattern kinds of                    *)
(* docs/configuration.md, which is the reference for both.                 *)
(*                                                                         *)
(* A path is a sequence of names, a name a record [stem, ext].  A pattern  *)
(* is [segs, slash]: its segments, and whether it is written with a slash  *)
(* at the end.  A segment is a name, Star, Deep ("**") or an extension     *)
(* glob ("*.md").                                                          *)
(***************************************************************************)
EXTENDS Naturals, SequencesExt, Selection

Name(stem, ext) == [kind |-> "name", stem |-> stem, ext |-> ext]
Star            == [kind |-> "star", stem |-> "", ext |-> ""]
Deep            == [kind |-> "deep", stem |-> "", ext |-> ""]
Glob(ext)       == [kind |-> "ext", stem |-> "", ext |-> ext]

Names    == [kind : {"name"}, stem : STRING, ext : STRING]
Forms    == [kind : {"name", "star", "deep", "ext"}, stem : STRING, ext : STRING]
Paths    == Seq(Names) \ {<<>>}
Patterns == [segs : Seq(Forms) \ {<<>>}, slash : BOOLEAN]

-----------------------------------------------------------------------------
(* internal/sync/sync.go *)

\* One segment against one name; a second "**" means no more than "*".
SegmentMatches(name, seg) ==
  \/ seg = name
  \/ seg.kind \in {"star", "deep"}
  \/ seg.kind = "ext" /\ name.ext = seg.ext

\* filepath.Match: a glob never reaches across a slash.
GlobMatches(path, segs) ==
  /\ Len(path) = Len(segs)
  /\ \A i \in DOMAIN segs : SegmentMatches(path[i], segs[i])

\* isDir: no glob and no extension.  The slash at the end is gone by then.
IsDir(pat) ==
  /\ \A i \in DOMAIN pat.segs : pat.segs[i].kind = "name"
  /\ Last(pat.segs).ext = ""

IsDeep(seg) == seg = Deep

\* matchDoublestar: the text before the first "**" is a literal prefix, and any
\* tail of what follows may match the rest of the pattern.
MatchDoublestar(path, segs) ==
  LET at     == SelectInSeq(segs, IsDeep)
      prefix == SubSeq(segs, 1, at - 1)
      suffix == SubSeq(segs, at + 1, Len(segs))
      rest   == SubSeq(path, at, Len(path))
  IN  /\ IsStrictPrefix(prefix, path)
      /\ \/ suffix = <<>>
         \/ \E i \in DOMAIN rest : GlobMatches(SubSeq(rest, i, Len(rest)), suffix)

\* Mutant: "*.md" means the top directory only.
MatchOne_TopOnly(path, pat) ==
  \/ IsDir(pat) /\ IsPrefix(pat.segs, path)
  \/ IF Contains(pat.segs, Deep)
     THEN MatchDoublestar(path, pat.segs) ELSE GlobMatches(path, pat.segs)

\* matchPattern, for a cleaned pattern: a directory, a pattern with "**", a glob
\* for the path or, without a slash, for its last name.
MatchOne(path, pat) ==
  \/ IsDir(pat) /\ IsPrefix(pat.segs, path)
  \/ IF Contains(pat.segs, Deep)
     THEN MatchDoublestar(path, pat.segs)
     ELSE \/ GlobMatches(path, pat.segs)
          \/ Len(pat.segs) = 1 /\ GlobMatches(<<Last(path)>>, pat.segs)

MatchesAny(path, patterns) == \E pat \in patterns : MatchOne(path, pat)

-----------------------------------------------------------------------------
(* claude_hooks.go: the matcher of toc-sync.sh *)

\* A case pattern of the shell, in which "*" also matches slashes: each segment
\* stands for one or more names of the path.
CaseMatches(path, segs) ==
  \E cut \in [0..Len(segs) -> 0..Len(path)] :
    /\ cut[0] = 0 /\ cut[Len(segs)] = Len(path)
    /\ \A i \in DOMAIN segs :
         /\ cut[i - 1] < cut[i]
         /\ SegmentMatches(path[cut[i]], segs[i])
         /\ segs[i].kind = "name" => cut[i] = cut[i - 1] + 1

\* dirs: the directories of the session, for "[ -d ... ]".
HookMatches(path, pat, dirs) ==
  \/ (pat.slash \/ pat.segs \in dirs) /\ IsPrefix(pat.segs, path)
  \/ ~pat.slash /\ CaseMatches(path, pat.segs)
  \/ ~pat.slash /\ Len(pat.segs) = 1 /\ CaseMatches(<<Last(path)>>, pat.segs)

HookMatchesAny(path, patterns, dirs) ==
  \E pat \in patterns : HookMatches(path, pat, dirs)

-----------------------------------------------------------------------------
(* The table of docs/configuration.md, row by row, for the pattern kinds it   *)
(* lists: a directory is written with a slash at the end.                     *)
Documented(path, pat) ==
  LET segs == pat.segs
      n    == Len(segs)
  IN  CASE pat.slash -> IsStrictPrefix(segs, path)
        [] ~pat.slash /\ n = 1 -> SegmentMatches(Last(path), segs[1])
        [] ~pat.slash /\ n > 1 /\ segs[n - 1] = Deep ->
             /\ Len(path) > n - 2
             /\ SubSeq(path, 1, n - 2) = SubSeq(segs, 1, n - 2)
             /\ SegmentMatches(Last(path), segs[n])
        [] OTHER ->
             /\ Len(path) = n
             /\ \A i \in 1..n : SegmentMatches(path[i], segs[i])

\* Is a pattern of a kind the table lists, used as it says: what is written with
\* a slash is a directory, what is written without one is not, and "**" stands
\* where the table has it?
Listed(pat, files) ==
  LET segs == pat.segs
      n    == Len(segs)
  IN  CASE pat.slash -> /\ \A i \in 1..n : segs[i].kind = "name"
                        /\ \A path \in files : path # segs /\ (n = 1 => Last(path) # segs[1])
        [] ~pat.slash /\ n = 1 -> ~IsDir(pat)
        [] ~pat.slash /\ n > 1 /\ segs[n - 1] = Deep -> \A i \in 1..n - 2 : segs[i] # Deep
        [] OTHER -> ~IsDir(pat) /\ \A i \in 1..n : segs[i] # Deep
=============================================================================
