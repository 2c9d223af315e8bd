---------------------------- MODULE PackArchive ----------------------------
(***************************************************************************)
(* What an install lets onto the disk: the plan every list of paths is     *)
(* held against (lifecycle.rs validate_archive_plan), the extraction of    *)
(* the required files of an archive (archive.rs) and the loose files of a  *)
(* pack (manager.rs), next to what the catalog accepted before anything    *)
(* was downloaded (manifest.rs check_files).                               *)
(*                                                                         *)
(* Pure operators.  A path is a sequence of components, and one component  *)
(* stands for each class the checks tell apart:                            *)
(*   "a", "A"   equal once case is folded                                  *)
(*   "fi", "fl" a word and its ligature: equal under NFKC folding only     *)
(*   "nul"      a device name       "a."  a trailing dot                   *)
(*   "a:s"      a stream            ".."  the parent directory             *)
(*   "x.dll"    an executable                                              *)
(*   entry : [path, type, size, data]; what the header says, what is read  *)
(*   file  : [path, bytes, digest], of the manifest or of an InstallSpec   *)
(***************************************************************************)
EXTENDS Naturals, Sequences, FiniteSets, SequencesExt, FiniteSetsExt

CONSTANTS MaximumEntries, \* MAXIMUM_ARCHIVE_ENTRIES
          MaximumRatio    \* MAXIMUM_COMPRESSION_RATIO

AsciiFolded(c) == IF c = "A" THEN "a" ELSE c
NfkcFolded(c)  == CASE c = "A" -> "a" [] c = "fl" -> "fi" [] OTHER -> c

is_reserved_windows_name(c) == c = "nul"
is_executable_path(path) == Last(path) = "x.dll"

PathIsSafe(path) ==
  /\ path # <<>>
  /\ \A i \in DOMAIN path :
       path[i] \notin {"..", "a.", "a:s"} /\ ~is_reserved_windows_name(path[i])

windows_destination_key(path) == [i \in DOMAIN path |-> NfkcFolded(path[i])]

NoTwo(seq, Key(_)) == \A i, j \in DOMAIN seq : Key(seq[i]) = Key(seq[j]) => i = j

SumOver(S, Amount(_)) == MapThenSumSet(Amount, S)

\* A plan is a sequence of [path, kind, compressed, extracted].
validate_archive_plan(plan, allowed, limits) ==
  LET regular == {i \in DOMAIN plan : plan[i].kind = "file"}
  IN  /\ \A i \in DOMAIN plan :
           PathIsSafe(plan[i].path) /\ plan[i].kind \in {"file", "directory"}
      /\ NoTwo(plan, LAMBDA e : windows_destination_key(e.path))
      /\ Cardinality(regular) <= limits.files
      /\ \A i \in regular :
           /\ is_executable_path(plan[i].path) => plan[i].path \in allowed
           /\ plan[i].compressed = 0 => plan[i].extracted = 0
           /\ plan[i].compressed > 0 =>
                plan[i].extracted \div plan[i].compressed <= limits.ratio
      /\ SumOver(regular, LAMBDA i : plan[i].extracted) <= limits.extracted

-----------------------------------------------------------------------------
(***************************************************************************)
(* An archive.                                                             *)
(***************************************************************************)
\* tar's entry types; a zip says only file, directory or Unix symlink.
classify(type) ==
  CASE type = "regular"   -> "file"
    [] type = "directory" -> "directory"
    [] type = "link"      -> "hard_link"
    [] type = "symlink"   -> "symlink"
    [] OTHER              -> "reparse_point"

classify_zip(type, path) ==
  CASE type = "directory" \/ path = <<>> -> "directory"
    [] type = "regular"                  -> "file"
    [] OTHER                             -> "symlink"

Kind(format, e) ==
  IF format = "zip" THEN classify_zip(e.type, e.path) ELSE classify(e.type)

\* Every entry is inspected, the unused ones too.  A zip entry whose name
\* leaves the archive has no enclosed_name and is refused before the plan.
inspect_complete_archive(format, archive, spec) ==
  /\ Len(archive) <= MaximumEntries
  /\ format = "zip" => \A i \in DOMAIN archive : ".." \notin Range(archive[i].path)
  /\ validate_archive_plan(
       [i \in DOMAIN archive |->
          [path |-> archive[i].path, kind |-> Kind(format, archive[i]),
           compressed |-> spec.archiveBytes, extracted |-> archive[i].size]],
       {archive[i].path : i \in {j \in DOMAIN archive :
                                   Kind(format, archive[j]) = "file"}},
       [files |-> MaximumEntries, extracted |-> spec.archiveBytes * MaximumRatio,
        ratio |-> MaximumRatio])

logical_path(path, spec) ==
  IF path # <<>> /\ path[1] = spec.prefix THEN Tail(path) ELSE path

ReadsAs(e, file) == Len(e.data) = file.bytes /\ e.data = file.digest

\* The outcome of reading the entries one by one: what is in the stage and
\* whether the reading went on.
Extracted(archive, spec) ==
  LET step[i \in 0 .. Len(archive)] ==
        IF i = 0 THEN [ok |-> TRUE, written |-> <<>>]
        ELSE LET before == step[i - 1]
                 e      == archive[i]
                 wanted == {f \in spec.files : f.path = logical_path(e.path, spec)}
             IN  IF ~before.ok \/ wanted = {} THEN before
                 ELSE LET f == CHOOSE g \in wanted : TRUE
                      IN  [ok |-> /\ e.type = "regular"
                                  /\ \A k \in DOMAIN before.written :
                                       before.written[k].path # f.path
                                  /\ ReadsAs(e, f),
                           written |-> Append(before.written,
                                              [path |-> f.path, data |-> e.data])]
  IN  step[Len(archive)]

(* Mutant: a file the archive lacks goes unnoticed. *)
extract_required_files_partial(format, archive, spec) ==
  inspect_complete_archive(format, archive, spec) /\ Extracted(archive, spec).ok

extract_required_files(format, archive, spec) ==
  /\ inspect_complete_archive(format, archive, spec)
  /\ Extracted(archive, spec).ok
  /\ Len(Extracted(archive, spec).written) = Cardinality(spec.files)

-----------------------------------------------------------------------------
(***************************************************************************)
(* Loose files.  The manifest folds ASCII case and knows no device names;  *)
(* the plan folds compatibility forms and knows them.                      *)
(***************************************************************************)
check_relative_path(path) ==
  path # <<>> /\ \A i \in DOMAIN path : path[i] \notin {"..", "a.", "a:s"}

ManifestAccepts(files, installed) ==
  /\ files # <<>>
  /\ \A i \in DOMAIN files : check_relative_path(files[i].path) /\ files[i].bytes > 0
  /\ NoTwo(files, LAMBDA f : [k \in DOMAIN f.path |-> AsciiFolded(f.path[k])])
  /\ SumOver(DOMAIN files, LAMBDA i : files[i].bytes) <= installed

validate_loose_file_plan(files, installed) ==
  validate_archive_plan(
    [i \in DOMAIN files |->
       [path |-> files[i].path, kind |-> "file",
        compressed |-> files[i].bytes, extracted |-> files[i].bytes]],
    {files[i].path : i \in DOMAIN files},
    [files |-> Len(files), extracted |-> installed, ratio |-> 1])

\* create_dir_all of the parent and create_new of the file, one file after the
\* other, on a file system that ignores case.
LooseFilesFit(files) ==
  LET key(i) == [k \in DOMAIN files[i].path |-> AsciiFolded(files[i].path[k])]
  IN  \A i, j \in DOMAIN files : i # j => ~IsPrefix(key(i), key(j))

-----------------------------------------------------------------------------
Pinned1 == <<"p">>
Spoiled == <<"q">>
Padded  == <<"p", "p", "p">>

\* The files a test pack requires; the archive keeps them under "top" or not.
SampleSpec == [prefix |-> "top", archiveBytes |-> 1,
               files |-> {[path |-> <<"a">>, bytes |-> 1, digest |-> Pinned1],
                          [path |-> <<"x.dll">>, bytes |-> 1, digest |-> Pinned1]}]

SampleEntries ==
  {[path |-> p, type |-> "regular", size |-> 1, data |-> d] :
     p \in {<<"a">>, <<"top", "a">>, <<"A">>, <<"x.dll">>, <<"nul">>, <<"..", "a">>},
     d \in {Pinned1, Spoiled}}
  \cup {[path |-> <<"a">>, type |-> t, size |-> 0, data |-> Pinned1] :
          t \in {"directory", "symlink", "link", "fifo"}}
  \cup {[path |-> <<"x.dll">>, type |-> "regular", size |-> n, data |-> Padded] :
          n \in {1, 3, 201}}

SampleArchives == SeqOf(SampleEntries, 3)

SamplePaths ==
  {<<"a">>, <<"A">>, <<"fi">>, <<"fl">>, <<"nul">>, <<"a.">>, <<"a:s">>,
   <<"..", "a">>, <<"x.dll">>, <<"a", "x.dll">>, <<>>}

SampleFiles == {[path |-> p, bytes |-> n] : p \in SamplePaths, n \in 0 .. 2}

(***************************************************************************)
(* An extraction that succeeds leaves each required file once and with its *)
(* pinned bytes, whatever else the archive holds and in whichever order:   *)
(* a link, a second entry under the prefix, a spoiled copy and a missing   *)
(* file all fail it.                                                       *)
(***************************************************************************)
ExtractionIsWhole ==
  \A format \in {"tar", "zip"}, archive \in SampleArchives :
    extract_required_files(format, archive, SampleSpec) =>
      LET written == Extracted(archive, SampleSpec).written
      IN  /\ {written[i].path : i \in DOMAIN written} = {f.path : f \in SampleSpec.files}
          /\ \A i \in DOMAIN written : written[i].data = Pinned1
          /\ NoTwo(written, LAMBDA w : w.path)

(***************************************************************************)
(* The two lists of checks agree but for three cases: what the catalog     *)
(* accepts and the download fetches is also accepted by the install and    *)
(* can be laid out, unless a path is a device name, two paths are the same *)
(* after compatibility folding, or one file is another's directory.        *)
(***************************************************************************)
AcceptedPacksInstall ==
  \A files \in SeqOf(SampleFiles, 2), installed \in 1 .. 3 :
    LET clean == /\ \A i \in DOMAIN files : "nul" \notin Range(files[i].path)
                 /\ NoTwo(files, LAMBDA f : windows_destination_key(f.path))
                 /\ \A i, j \in DOMAIN files : i # j =>
                      ~IsPrefix(windows_destination_key(files[i].path),
                                windows_destination_key(files[j].path))
    IN  ManifestAccepts(files, installed) /\ clean =>
          validate_loose_file_plan(files, installed) /\ LooseFilesFit(files)
=============================================================================
