------------------------------ MODULE Artifacts ------------------------------
(***************************************************************************)
(* What contestants upload, as the two programs see it that look inside:   *)
(* package validator of the submission engine, which accepts or refuses,   *)
(* and package executor of the build pipeline, which picks a toolchain.    *)
(*                                                                         *)
(* An artifact is its size class, its first bytes, the entries of the      *)
(* archive (none, when it is not one or cannot be read) and whether it     *)
(* matches the checksum its uploader sent.  A path is its components,      *)
(* cleaned of "." and "..".                                                *)
(***************************************************************************)
EXTENDS Naturals, Sequences

\* The first bytes: the four of ELF, two of gzip, four of zip, or others (also
\* when there are fewer than four).
Magics == {"elf", "gzip", "zip", "other"}

IsArtifact(a) ==
    /\ DOMAIN a = {"tooLarge", "magic", "entries", "checksumOk"}
    /\ a.tooLarge \in BOOLEAN /\ a.checksumOk \in BOOLEAN
    /\ a.magic \in Magics
    /\ \A e \in a.entries : e.path # <<>> /\ e.dir \in BOOLEAN
    /\ a.magic \in {"elf", "other"} => a.entries = {}

\* What is left of an artifact that was only partly written.
Truncated(a) == [a EXCEPT !.checksumOk = FALSE]

\* What may be found in the registry for artifacts A.
Stored(A) == A \cup {Truncated(a) : a \in A}

-----------------------------------------------------------------------------
(* submission-engine, package validator *)

rootManifests == {"Makefile", "Cargo.toml", "go.mod"}

\* At the top of the archive, or one level deep.
isRootManifest(path) == path[Len(path)] \in rootManifests /\ Len(path) <= 2

archiveHasRootManifest(a) == \E e \in a.entries : ~e.dir /\ isRootManifest(e.path)

DetectFormat(a) ==
    CASE a.tooLarge -> "ErrTooLarge"
      [] ~a.tooLarge /\ a.magic = "elf" -> "ELF_BINARY"
      [] ~a.tooLarge /\ a.magic \in {"gzip", "zip"} /\ archiveHasRootManifest(a) -> "SOURCE_ARCHIVE"
      [] OTHER -> "ErrBadFormat"

\* The format first, then the checksum.
ValidateArtifact(a) ==
    LET format == DetectFormat(a) IN
    IF format \in {"ELF_BINARY", "SOURCE_ARCHIVE"} /\ ~a.checksumOk THEN "ErrBadChecksum" ELSE format

Accepted(a) == ValidateArtifact(a) \in {"ELF_BINARY", "SOURCE_ARCHIVE"}

-----------------------------------------------------------------------------
(* build-pipeline, package executor *)

\* The names at the top of the directory the archive is extracted to, of files
\* and directories alike.  (The extraction is not in this repository.  An ELF
\* binary has no entries: it lies there under a name that is no manifest's.)
listRootFiles(a) == {e.path[1] : e \in a.entries}

\* A slip: names at any depth are looked at.
DetectManifestAnywhere(a) ==
    LET names == {e.path[Len(e.path)] : e \in a.entries} IN
    CASE "Cargo.toml" \in names -> "Cargo.toml"
      [] "Cargo.toml" \notin names /\ "go.mod" \in names -> "go.mod"
      [] names \cap rootManifests = {"Makefile"} -> "Makefile"
      [] OTHER -> "unknown"

\* Cargo.toml before go.mod before Makefile, at the root only.
DetectManifest(a) ==
    LET names == listRootFiles(a) IN
    CASE "Cargo.toml" \in names -> "Cargo.toml"
      [] "Cargo.toml" \notin names /\ "go.mod" \in names -> "go.mod"
      [] names \cap rootManifests = {"Makefile"} -> "Makefile"
      [] OTHER -> "unknown"
=============================================================================
