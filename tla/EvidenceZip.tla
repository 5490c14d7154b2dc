----------------------------- MODULE EvidenceZip -----------------------------
(* The two readers of a ZIP's directory that decide whether an archive may   *)
(* be release evidence: validateManualEvidenceZip (apply-evidence-claims.mjs)*)
(* for the bundle that is extracted on the runner, and inspectZipArchive     *)
(* (check-github-release-evidence.mjs) for the artifacts that are read in    *)
(* memory.  An archive is the sequence of its central entries; a path is the *)
(* sequence of its segments, an offset or a size a small number.             *)
EXTENDS SequencesExt

CONSTANTS Paths,       \* the paths of the entries
          Reserved,    \* segments that Windows gives to devices
          MaxEntries, MaxEntryBytes, MaxTotalBytes, MaxRatio,
          Central      \* the offset of the central directory

\* What the constants are.
EvidenceZipAssumption ==
    {MaxEntries, MaxEntryBytes, MaxTotalBytes, MaxRatio, Central} \subseteq Nat

\* The letters of the paths, without their case.
Lower(segment) == CASE segment = "A" -> "a" [] segment = "B" -> "b" [] OTHER -> segment

\* An entry: its path with or without the final slash, what its attributes say
\* it is, its sizes, the place of its data and the path of its local header.
Entries == [path : Paths, slash : BOOLEAN, kind : {"file", "dir", "link"}, stored : BOOLEAN,
            bytes : 0..2, packed : 0..1, at : 0..2, local : Paths]

VARIABLES archive,   \* the entries of the central directory, in its order
          read       \* what it was read as, if it was not refused
zipVars == <<archive, read>>

\* Two entries are enough for any two to be in each other's way.
Init ==
    /\ read = "new"
    /\ archive \in {<<>>} \cup {<<e>> : e \in Entries}
                   \cup {<<d, e>> : d \in {x \in Entries : x.at = 0 /\ x.local = x.path /\ ~x.stored
                                          /\ x.kind = IF x.slash THEN "dir" ELSE "file"},
                                    e \in {x \in Entries : x.local = x.path}}

-----------------------------------------------------------------------------
\* safeZipEntryName, and validateArchivePath, which also refuses what Windows
\* takes for a device.
SafePath(path) == path # <<>> /\ \A i \in DOMAIN path : path[i] \notin {"", ".", ".."}

PortablePath(path) == SafePath(path) /\ \A i \in DOMAIN path : path[i] \notin Reserved

\* Two names are one name but for the case.
SameName(d, e) ==
    /\ d.slash = e.slash /\ Len(d.path) = Len(e.path)
    /\ \A k \in DOMAIN d.path : Lower(d.path[k]) = Lower(e.path[k])

\* The end record: one disk, not empty, not too many entries.
Directory(a) == a # <<>> /\ Len(a) <= MaxEntries

NamesApart(a) == \A i, j \in DOMAIN a : i # j => ~SameName(a[i], a[j])

Total(a) == FoldLeft(LAMBDA sum, e : sum + e.bytes, 0, a)

\* An entry is a directory by its slash or by its attributes.
IsDir(e) == e.slash \/ e.kind = "dir"

\* The loop over the central directory of the bundle.
ManualCentral(a) ==
    /\ Directory(a) /\ NamesApart(a) /\ Total(a) <= MaxTotalBytes
    /\ \A i, j \in DOMAIN a : i # j => a[i].at # a[j].at
    /\ \A i \in DOMAIN a :
          /\ SafePath(a[i].path) /\ a[i].kind # "link" /\ (IsDir(a[i]) => a[i].bytes = 0)
          /\ a[i].bytes <= MaxEntryBytes
          /\ a[i].stored \/ a[i].bytes <= MaxRatio * a[i].packed

\* Mutant: a file may be the directory of another entry.
LocalColliding(a) == \A i \in DOMAIN a : a[i].local = a[i].path /\ a[i].at + 1 + a[i].packed <= Central

\* The loops over the local headers and over the files and the names that begin
\* with one of theirs and a slash.
ManualLocal(a) ==
    /\ \A i \in DOMAIN a : a[i].local = a[i].path /\ a[i].at + 1 + a[i].packed <= Central
    /\ \A i, j \in DOMAIN a :
          ~IsDir(a[i]) /\ IsPrefix(a[i].path, a[j].path) => a[i].path = a[j].path /\ ~a[j].slash

ValidateManualEvidenceZip ==
    /\ read = "new"
    /\ read' = IF ManualCentral(archive) /\ ManualLocal(archive) THEN "bundle" ELSE "refused"
    /\ UNCHANGED archive

\* inspectZipArchive, the loop over the central directory: the slash and the
\* attributes agree, and a directory has no data.
InspectedEntries(a) ==
    /\ Directory(a) /\ NamesApart(a)
    /\ \A i \in DOMAIN a : LET e == a[i] IN
          /\ PortablePath(e.path)
          /\ e.kind = IF e.slash THEN "dir" ELSE "file"
          /\ (e.slash => e.bytes = 0 /\ e.packed = 0)
          /\ e.bytes <= MaxEntryBytes
          /\ IF e.packed = 0 THEN e.stored \/ e.bytes = 0 ELSE e.bytes <= MaxRatio * e.packed

\* The local header of each entry, in the same loop, and the sum of the sizes.
InspectedHeaders(a) ==
    /\ \A i \in DOMAIN a : a[i].local = a[i].path /\ a[i].at + 1 + a[i].packed <= Central
    /\ Total(a) <= MaxTotalBytes

\* Mutant: the places are compared by their first byte alone.
SpansDistinct(a) == \A i, j \in DOMAIN a : i # j => a[i].at # a[j].at

\* Sorted by their place, a header and its data end before the next begin.
SpansApart(a) ==
    \A i, j \in DOMAIN a : i # j /\ a[i].at <= a[j].at => a[i].at + 1 + a[i].packed <= a[j].at

InspectZipArchive ==
    /\ read = "new"
    /\ read' = IF InspectedEntries(archive) /\ InspectedHeaders(archive) /\ SpansApart(archive)
               THEN "artifact" ELSE "refused"
    /\ UNCHANGED archive

Next == ValidateManualEvidenceZip \/ InspectZipArchive

Spec == Init /\ [][Next]_zipVars

-----------------------------------------------------------------------------
(* What unzip does *)

\* The tree after an entry is written: the directories above it are made, and
\* what is in the way is not replaced.
Written(tree, e) ==
    LET above == {SubSeq(e.path, 1, k) : k \in 1..(Len(e.path) - 1)}
        kind == IF IsDir(e) THEN "dir" ELSE "file"
        clash == \/ \E p \in above \cap DOMAIN tree : tree[p] # "dir"
                 \/ e.path \in DOMAIN tree /\ <<kind, tree[e.path]>> # <<"dir", "dir">>
    IN  [p \in above \cup {e.path} |->
            IF p # e.path THEN "dir" ELSE IF clash THEN "clash" ELSE kind] @@ tree

Extracted(a) == FoldLeft(Written, <<>>, a)

\* A bundle that is accepted can be extracted as it stands, inside its own
\* directory and within the limit: every entry becomes what it says it is, in
\* whatever order they come.  No two entries of an accepted artifact are read
\* from the same bytes.
EvidenceExtracts ==
    /\ read = "bundle" =>
          /\ Total(archive) <= MaxTotalBytes
          /\ \A tree \in {Extracted(archive), Extracted(Reverse(archive))} :
                /\ \A i \in DOMAIN archive :
                      tree[archive[i].path] = IF IsDir(archive[i]) THEN "dir" ELSE "file"
                /\ \A p \in DOMAIN tree : ".." \notin Range(p)
    /\ read = "artifact" =>
          \A i, j \in DOMAIN archive : i # j =>
              (archive[i].at..(archive[i].at + archive[i].packed))
                  \cap (archive[j].at..(archive[j].at + archive[j].packed)) = {}
=============================================================================
