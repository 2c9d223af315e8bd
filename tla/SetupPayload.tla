---------------------------- MODULE SetupPayload ----------------------------
(***************************************************************************)
(* The payload the setup program carries at the end of its own executable  *)
(* (apps/bootstrapper/src/payload.rs), and the command line it is started  *)
(* with (main.rs, Mode::classify).                                         *)
(*                                                                         *)
(* The file is a sequence of fields: the program's own ("code"), three for *)
(* every entry (path, bytes, digest, each read with its length) and one    *)
(* trailer.  Bytes are values and their digest is the      *)
(* value itself: digests of different bytes differ.                        *)
(***************************************************************************)
EXTENDS Naturals, Sequences, SequencesExt

CONSTANT FormatVersion

Error(kind) == [kind |-> kind, entries |-> <<>>]

checked_relative_path(path) == path # "unsafe"

Field(tag, value) == [tag |-> tag, value |-> value]

EntryFields(entry) ==
  << Field("path", entry.path), Field("bytes", entry.bytes),
     Field("digest", entry.bytes) >>

Archive(entries) == FlattenSeq([i \in DOMAIN entries |-> EntryFields(entries[i])])

Trailer(entries) ==
  Field("trailer", [length |-> Len(Archive(entries)), count |-> Len(entries),
                    format |-> FormatVersion])

\* The packer refuses an unsafe path and appends nothing then.
append_archive(executable, entries) ==
  IF \A i \in DOMAIN entries : checked_relative_path(entries[i].path)
  THEN executable \o Archive(entries) \o <<Trailer(entries)>>
  ELSE executable

(* Mutant: the digest of an entry's bytes is not compared. *)
EntryAt_unchecked(file, start, length, i) ==
  LET at == start + 3 * (i - 1)
  IN  IF at + 3 > start + length THEN Error("damaged")
      ELSE [kind |-> "entry", entries |-> << [path  |-> file[at + 1].value,
                                              bytes |-> file[at + 2].value] >>]

\* The fields of entry i of an archive that starts after field `start` and may
\* not be read past its declared length.
EntryAt(file, start, length, i) ==
  LET at == start + 3 * (i - 1)
  IN  IF at + 3 > start + length THEN Error("damaged")
      ELSE CASE file[at + 1].tag # "path" \/ file[at + 2].tag # "bytes"
                  \/ file[at + 3].tag # "digest"        -> Error("damaged")
             [] ~checked_relative_path(file[at + 1].value) -> Error("unsafe_path")
             [] file[at + 2].value # file[at + 3].value -> Error("damaged")
             [] OTHER -> [kind |-> "entry",
                          entries |-> << [path  |-> file[at + 1].value,
                                          bytes |-> file[at + 2].value] >>]

\* The reader: no trailer is no archive; otherwise every entry is read and
\* checked, and one that is not whole fails them all.
read_archive(file) ==
  IF file = <<>> \/ Last(file).tag # "trailer" THEN [kind |-> "absent", entries |-> <<>>]
  ELSE LET trailer == Last(file).value
           end     == Len(file) - 1
           start   == end - trailer.length
           read    == [i \in 1..trailer.count |-> EntryAt(file, start, trailer.length, i)]
       IN  CASE trailer.format # FormatVersion -> Error("unknown_format")
             [] trailer.length > end           -> Error("damaged")
             [] \E i \in DOMAIN read : read[i].kind # "entry" ->
                  LET first == CHOOSE i \in DOMAIN read :
                                 /\ read[i].kind # "entry"
                                 /\ \A j \in 1..(i - 1) : read[j].kind = "entry"
                  IN  read[first]
             [] OTHER -> [kind |-> "archive",
                          entries |-> [i \in DOMAIN read |-> read[i].entries[1]]]

\* What stage() leaves to install from: the archive's entries, the payload
\* directory beside a setup without one, or a refusal.
stage(file) ==
  LET archive == read_archive(file)
  IN  IF archive.kind \in {"absent", "archive"} THEN archive.kind ELSE "refused"

-----------------------------------------------------------------------------
(***************************************************************************)
(* What the arguments ask for.                                             *)
(***************************************************************************)
Silent == {"--silent", "/S", "/s"}

classify(arguments) ==
  LET rest == Tail(arguments)
      Rooted(mode) == IF rest = <<>> \/ (Len(rest) = 2 /\ rest[1] = "--install-root")
                      THEN mode ELSE "misuse"
  IN  CASE arguments = <<>>                     -> "wizard"
        [] arguments = <<"--wizard-detached">>  -> "wizard"
        [] arguments[1] = "--install"           -> Rooted("install")
        [] arguments[1] = "--verify-provider"   -> Rooted("verify")
        [] arguments[1] = "--uninstall"         ->
             IF \A i \in DOMAIN rest : rest[i] \in Silent \cup {"--keep-user-data"}
             THEN IF \E i \in DOMAIN rest : rest[i] \in Silent
                  THEN "uninstall_silent" ELSE "uninstall"
             ELSE "misuse"
        [] OTHER                                -> "repair"

removals_for(arguments, everything) ==
  IF \E i \in DOMAIN arguments : arguments[i] = "--keep-user-data"
  THEN {} ELSE everything
=============================================================================
