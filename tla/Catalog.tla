------------------------------ MODULE Catalog -------------------------------
(***************************************************************************)
(* Chat request catalogs on disk:                                          *)
(*   src/api/catalog.go                Load, its cache, Bind               *)
(*   src/adapters/catalogfs/store.go   Load, Save, ListEntries             *)
(*   src/domain/catalog.go             where a catalog is looked for       *)
(*                                                                         *)
(* Goroutines load and save catalogs of one bucket while an operator       *)
(* replaces files under them.  A save writes path.tmp and renames it.  A   *)
(* load looks in the cache, resolves the path, reads it, checks lineage    *)
(* and floor, and remembers the result with the file time it finds then.   *)
(* The process may crash: files stay, goroutines and the cache are gone.   *)
(***************************************************************************)
EXTENDS Contract, Sequences, Functions

CONSTANTS Loaders, Savers,  \* goroutines
          PathAt,           \* the files that may exist, numbered from 1
          KeyAt,            \* catalog keys of requests, numbered from 1
          Doc,              \* documents that are written, numbered from 1
          Configs,          \* [floor, degraded]: ClientFloor, AllowDegradedCatalog
          Times,            \* file times: two texts may get the same
          MaxWrites,        \* bound: files put in place and saves
          MaxCrashes        \* bound: crashes

VARIABLES
  files,    \* path -> [mtime, body], Absent if there is none
  tmp,      \* path -> what is at path.tmp, Absent if nothing
  past,     \* path -> what was ever there: history
  writes,   \* how many files were put in place and saves begun, up to MaxWrites
  cache,    \* CatalogAPI.cache: key -> [path, mtime, loaded]
  loader,   \* loader -> where its Load is
  saver,    \* saver -> where its Save is
  config,   \* the RuntimeConfig of the client
  overlapped,  \* paths that two saves wrote at the same time
  crashes

vars == <<files, tmp, past, writes, cache, loader, saver, config, overlapped, crashes>>
-----------------------------------------------------------------------------
Paths == DOMAIN PathAt
Keys == DOMAIN KeyAt

NoDoc == 0
\* A file that is empty or holds parts of two documents: not JSON.
Torn == -1
\* JSON that is no object: it loads as a document without a key.
NotObject == -2
EmptyDocument ==
  [id |-> -2, ws |-> {}, brief |-> {}, stamps |-> [s \in Places |-> NoHash],
   lineage |-> NoBase, base |-> NoBase]

\* NormalizeChatRequestShape of a text that is JSON.
Shaped(n) == IF n = NotObject THEN EmptyDocument ELSE Doc[n]

\* PrepareLoadedDocument of it.
Prepared(n) == HealTrailingWSStampDrift(Shaped(n))

Absent == [mtime |-> 0, body |-> NoDoc]
NoPath == 0
NoKey == 0
NotCached == [path |-> NoPath, mtime |-> 0, loaded |-> NoDoc, read |-> 0]

IdleLoader == [pc |-> "idle", key |-> NoKey, path |-> NoPath, read |-> 0, seen |-> 0,
               raw |-> NoDoc, body |-> NoDoc, hit |-> FALSE]
IdleSaver == [pc |-> "idle", path |-> NoPath, doc |-> NoDoc, ino |-> "none"]

\* Texts that are JSON, and all that a file may hold.
Parsed == DOMAIN Doc \cup {NotObject}
Bodies == Parsed \cup {NoDoc, Torn}
File == [mtime : Nat, body : Bodies]
Entry == [path : Paths \cup {NoPath}, mtime : Nat, loaded : Bodies, read : Nat]
LoaderPC == {"idle", "resolving", "reading", "remembering", "storing", "returned"}
Loader == [pc : LoaderPC, key : Keys \cup {NoKey}, path : Paths \cup {NoPath}, read : Nat, seen : Nat,
           raw : Bodies, body : Bodies, hit : BOOLEAN]
SaverPC == {"idle", "writing", "renaming"}
Inode == {"none", "tmp", "path"}
Saver == [pc : SaverPC, path : Paths \cup {NoPath}, doc : DOMAIN Doc \cup {NoDoc}, ino : Inode]

TypeOK ==
  /\ files \in [Paths -> File] /\ tmp \in [Paths -> File] /\ past \in [Paths -> SUBSET File]
  /\ writes \in 0..MaxWrites
  /\ cache \in [Keys -> Entry]
  /\ loader \in [Loaders -> Loader] /\ saver \in [Savers -> Saver]
  /\ config \in Configs
  /\ overlapped \subseteq Paths
  /\ crashes \in 0..MaxCrashes
-----------------------------------------------------------------------------
(* Where catalogs are *)

\* ScopeChatRequestsSubdir, of the one bucket: a leading underscore of the scope is dropped.
Subdir(scope) == "bucket__" \o scope.tail

NoScope == [under |-> FALSE, tail |-> ""]

\* A file name without .json.
Stem(s) == [stem |-> s, base |-> NoBase]

\* A mode is single when it is one path component without two dots in it.  One with separators
\* has the name of its last component, and leads to the directory mode.to ("" for others).
IsDefault(mode) == mode.single /\ mode.name = "default"
Prefixed(mode) == IF mode.to = "" THEN "chat_request_" \o mode.name ELSE mode.name

\* ChatRequestFilename, the write-side name.
ChatRequestFilename(mode, base) ==
  CASE base # NoBase -> [stem |-> Prefixed(mode), base |-> base]
    [] base = NoBase /\ IsDefault(mode) -> Stem("chat_request_v2")
    [] OTHER -> Stem(Prefixed(mode) \o "_v2")

\* CatalogFilenamesForMode: a base id has one name, for a mode of any form; a mode several if
\* it is single, else none.
CatalogFilenamesForMode(mode, base) ==
  CASE base # NoBase -> << ChatRequestFilename(mode, base) >>
    [] base = NoBase /\ ~mode.single -> << >>
    [] base = NoBase /\ IsDefault(mode) -> << Stem("chat_request_v2"), Stem("chat_request") >>
    [] OTHER -> << ChatRequestFilename(mode, base), Stem("chat_request_" \o mode.name), Stem(mode.name) >>

ManifestName == Stem("manifest")

Dir(root, sub, min) == [root |-> root, sub |-> sub, min |-> min]

\* The directories of ResolveCatalogPath, by their places: the scope's, if there is a scope,
\* the user's, the bundled one, and the min/ of each behind it.
Locations(scope) ==
  [i \in (IF scope = NoScope THEN 3 ELSE 1)..6 |->
     Dir(IF i <= 4 THEN "user" ELSE "bundled", IF i <= 2 THEN Subdir(scope) ELSE "", i \in {2, 4, 6})]

\* filepath.Join cleans the path: a mode with separators leads from a scope's directory to
\* mode.to, which may be a sibling's, and from another one to some place elsewhere.
Landing(dir, mode) ==
  CASE mode.to = "" -> dir
    [] mode.to # "" /\ dir.root = "user" /\ dir.sub # "" /\ ~dir.min -> [dir EXCEPT !.sub = mode.to]
    [] OTHER -> Dir("elsewhere", mode.to, FALSE)

NamesOf == [k \in Keys |-> CatalogFilenamesForMode(KeyAt[k].mode, KeyAt[k].base)]

\* The names in the locations, where a file may be.
Candidates(k) ==
  LET key == KeyAt[k] IN
  {c \in [loc : DOMAIN Locations(key.scope), name : DOMAIN NamesOf[k], path : Paths] :
     PathAt[c.path] = [loc |-> Landing(Locations(key.scope)[c.loc], key.mode), name |-> NamesOf[k][c.name]]}

\* Location by location, and name by name: the files of a key and their places in that order.
CandidatesOf ==
  [k \in Keys |-> {[at |-> c.loc * Len(NamesOf[k]) + c.name, path |-> c.path] : c \in Candidates(k)}]

Exists(p) == files[p].mtime # 0

\* ResolveCatalogPath: the first candidate that is a file.
ResolveCatalogPath(key) ==
  LET there == {c \in CandidatesOf[key] : Exists(c.path)}
  IN  IF there = {} THEN NoPath
      ELSE (CHOOSE c \in there : \A d \in there : c.at <= d.at).path

\* The user's files with the relative name and mode of a bundled one.
ShadowsOf == [p \in Paths |->
  LET here == PathAt[p] IN
  {q \in Paths : /\ here.loc.root = "bundled"
                 /\ PathAt[q] = [loc |-> Dir("user", here.loc.sub, here.loc.min), name |-> here.name]}]

\* ListCatalogEntries: every file under the two roots but a manifest and a bundled one that a
\* user's file shadows.
ListCatalogEntries ==
  {p \in Paths : /\ Exists(p) /\ PathAt[p].loc.root # "elsewhere" /\ PathAt[p].name # ManifestName
                 /\ \A q \in ShadowsOf[p] : ~Exists(q)}
-----------------------------------------------------------------------------
Init ==
  /\ files = [p \in Paths |-> Absent] /\ tmp = [p \in Paths |-> Absent] 
  /\ past = [p \in Paths |-> {}] /\ writes = 0
  /\ cache = [k \in Keys |-> NotCached]
  /\ loader = [l \in Loaders |-> IdleLoader] /\ saver = [s \in Savers |-> IdleSaver]
  /\ config \in Configs
  /\ overlapped = {} /\ crashes = 0

Write == writes < MaxWrites /\ writes' = writes + 1

\* The catalog at p is f now.
Place(p, f) ==
  files' = [files EXCEPT ![p] = f] /\ past' = [past EXCEPT ![p] = @ \cup {f}]

\* External: the operator or a sync tool puts a file in place, with any file time, or
\* removes it.
Put(p, n, t) ==
  /\ Write
  /\ Place(p, [mtime |-> t, body |-> n])
  /\ saver' = [s \in Savers |-> IF saver[s].ino = "path" /\ saver[s].path = p
                                THEN [saver[s] EXCEPT !.ino = "none"] ELSE saver[s]]
  /\ UNCHANGED <<tmp, cache, loader, config, overlapped, crashes>>

Unlink(p) ==
  /\ Exists(p) /\ \A s \in Savers : saver[s].path # p
  /\ files' = [files EXCEPT ![p] = Absent]
  /\ UNCHANGED <<tmp, past, writes, cache, loader, saver, config, overlapped, crashes>>
-----------------------------------------------------------------------------
(* Save *)

\* Save writes under the scope's directory, with the write-side name: it does not look at
\* the form of the mode.
SaveTarget(key) ==
  [loc |-> Landing(Dir("user", Subdir(key.scope), FALSE), key.mode),
   name |-> ChatRequestFilename(key.mode, key.base)]

\* The keys whose file is one of the paths, and that file.
SavedKeys == {k \in Keys : \E p \in Paths : PathAt[p] = SaveTarget(KeyAt[k])}
SavePaths == [k \in SavedKeys |-> CHOOSE p \in Paths : PathAt[p] = SaveTarget(KeyAt[k])]

ASSUME CatalogAssumption ==
  /\ Paths \subseteq Nat \ {NoPath} /\ Keys \subseteq Nat \ {NoKey} /\ DOMAIN Doc \subseteq Nat \ {NoDoc}
  /\ \A n \in DOMAIN Doc : Doc[n] \in Documents
  /\ \A k \in Keys : KeyAt[k].base \in Bases /\ (KeyAt[k].mode.single => KeyAt[k].mode.to = "")
  /\ \A c \in Configs : c.floor \in [maj : Nat, min : Nat] /\ c.degraded \in BOOLEAN
  /\ Times \subseteq Nat \ {0} /\ MaxWrites \in Nat /\ MaxCrashes \in Nat

\* Mutant: the text is written to the catalog itself.
SaveOpen_InPlace(s, k, doc, t) ==
  LET p == SavePaths[k]
  IN  /\ saver[s].pc = "idle"
      /\ Write
      /\ Place(p, [mtime |-> t, body |-> Torn])
      /\ saver' = [saver EXCEPT ![s] = [pc |-> "writing", path |-> p, doc |-> doc, ino |-> "path"]]
      /\ UNCHANGED <<tmp, cache, loader, config, overlapped, crashes>>

\* atomicWriteJSON, os.WriteFile: open and truncate path.tmp, which another save may
\* have open.
SaveOpen(s, k, doc, t) ==
  LET p == SavePaths[k]
  IN  /\ saver[s].pc = "idle"
      /\ Write
      /\ tmp' = [tmp EXCEPT ![p] = [mtime |-> t, body |-> Torn]]
      /\ saver' = [saver EXCEPT ![s] = [pc |-> "writing", path |-> p, doc |-> doc, ino |-> "tmp"]]
      /\ overlapped' = IF \E o \in Savers : saver[o].path = p
                       THEN overlapped \cup {p} ELSE overlapped
      /\ UNCHANGED <<files, past, cache, loader, config, crashes>>

\* The document goes into the file that was opened, wherever it is now: over the
\* text of another save it may leave that one's end.
SaveWrite(s, whole, t) ==
  LET p == saver[s].path
      file == IF saver[s].ino = "tmp" THEN tmp[p] ELSE files[p]
      new == [mtime |-> t, body |-> IF whole THEN saver[s].doc ELSE Torn]
  IN  /\ saver[s].pc = "writing"
      /\ ~whole => saver[s].ino # "none" /\ file.body # Torn
      /\ tmp' = IF saver[s].ino = "tmp" THEN [tmp EXCEPT ![p] = new] ELSE tmp
      /\ IF saver[s].ino = "path" THEN Place(p, new) ELSE UNCHANGED <<files, past>>
      /\ saver' = [saver EXCEPT ![s].pc = "renaming"]
      /\ UNCHANGED <<writes, cache, loader, config, overlapped, crashes>>

\* os.Rename: the file of path.tmp is the catalog now, for those who write it too.
\* Without a path.tmp it fails, and Save with it.
SaveRename(s) ==
  LET p == saver[s].path
      moved == [o \in Savers |->
                  IF saver[o].path = p
                  THEN [saver[o] EXCEPT !.ino = IF @ = "tmp" THEN "path" ELSE "none"]
                  ELSE saver[o]]
  IN  /\ saver[s].pc = "renaming"
      /\ IF tmp[p].mtime # 0
         THEN /\ Place(p, tmp[p])
              /\ tmp' = [tmp EXCEPT ![p] = Absent]
              /\ saver' = [moved EXCEPT ![s] = IdleSaver]
         ELSE /\ saver' = [saver EXCEPT ![s] = IdleSaver]
              /\ UNCHANGED <<files, past, tmp>>
      /\ UNCHANGED <<writes, cache, loader, config, overlapped, crashes>>
-----------------------------------------------------------------------------
(* Load *)

\* Mutant: an entry counts while there is a file.
Fresh_Any(k) == cache[k].path # NoPath /\ Exists(cache[k].path)

\* The file of a cached entry has the time that the entry was stored with.
Fresh(k) == cache[k].path # NoPath /\ Exists(cache[k].path)
            /\ files[cache[k].path].mtime = cache[k].mtime

\* cacheHit: an entry counts while its file has the time it had; else it is dropped.
LoadStart(l, k) ==
  /\ loader[l].pc = "idle"
  /\ IF Fresh(k)
     THEN /\ loader' = [loader EXCEPT ![l] =
               [pc |-> "returned", key |-> k, path |-> cache[k].path, read |-> cache[k].read,
                seen |-> cache[k].mtime, raw |-> files[cache[k].path].body,
                body |-> cache[k].loaded, hit |-> TRUE]]
          /\ UNCHANGED cache
     ELSE /\ loader' = [loader EXCEPT ![l] = [IdleLoader EXCEPT !.pc = "resolving", !.key = k]]
          /\ cache' = [cache EXCEPT ![k] = NotCached]
  /\ UNCHANGED <<files, tmp, past, writes, saver, config, overlapped, crashes>>

\* Store.Load, the search for the file: not found is an error.
LoadResolve(l) ==
  LET p == ResolveCatalogPath(loader[l].key)
  IN  /\ loader[l].pc = "resolving"
      /\ loader' = [loader EXCEPT ![l] = IF p = NoPath THEN IdleLoader
                                         ELSE [@ EXCEPT !.pc = "reading", !.path = p]]
      /\ UNCHANGED <<files, tmp, past, writes, cache, saver, config, overlapped, crashes>>

\* Store.Load, the read: gone, not JSON, or of another lineage are errors.  JSON that is no
\* object has no lineage, and without a base id it is read.
Readable(p, want) ==
  /\ Exists(p) /\ files[p].body # Torn
  /\ want # NoBase => CheckLineage(Prepared(files[p].body), want)

\* Load from the read to the floor check: a floor too low is an error, unless degraded
\* catalogs are allowed.
LoadRead(l) ==
  LET r == loader[l]
      want == KeyAt[r.key].base
      file == files[r.path]
  IN  /\ r.pc = "reading"
      /\ loader' = [loader EXCEPT ![l] =
           IF /\ Readable(r.path, want)
              /\ \/ config.degraded
                 \/ FloorAllows(config.floor, LoadedBase(Prepared(file.body), want))
           THEN [r EXCEPT !.pc = "remembering", !.raw = file.body, !.body = file.body,
                          !.read = file.mtime]
           ELSE IdleLoader]
      /\ UNCHANGED <<files, tmp, past, writes, cache, saver, config, overlapped, crashes>>

\* remember, os.Stat: the time of the file now, not when it was read.
RememberStat(l) ==
  /\ loader[l].pc = "remembering"
  /\ loader' = IF Exists(loader[l].path)
               THEN [loader EXCEPT ![l].pc = "storing",
                                   ![l].seen = files[loader[l].path].mtime]
               ELSE [loader EXCEPT ![l].pc = "returned"]
  /\ UNCHANGED <<files, tmp, past, writes, cache, saver, config, overlapped, crashes>>

\* remember, under the lock.
RememberStore(l) ==
  /\ loader[l].pc = "storing"
  /\ cache' = [cache EXCEPT ![loader[l].key] =
                 [path |-> loader[l].path, mtime |-> loader[l].seen, loaded |-> loader[l].body,
                  read |-> loader[l].read]]
  /\ loader' = [loader EXCEPT ![l].pc = "returned"]
  /\ UNCHANGED <<files, tmp, past, writes, saver, config, overlapped, crashes>>

\* The caller has its catalog.
LoadDone(l) ==
  /\ loader[l].pc = "returned"
  /\ loader' = [loader EXCEPT ![l] = IdleLoader]
  /\ UNCHANGED <<files, tmp, past, writes, cache, saver, config, overlapped, crashes>>

\* The process dies in the middle of a save and is started again.  (At any other
\* moment only the cache is lost.)
Crash ==
  /\ \E s \in Savers : saver[s].pc # "idle"
  /\ crashes < MaxCrashes /\ crashes' = crashes + 1
  /\ cache' = [k \in Keys |-> NotCached]
  /\ loader' = [l \in Loaders |-> IdleLoader] /\ saver' = [s \in Savers |-> IdleSaver]
  /\ UNCHANGED <<files, tmp, past, writes, config, overlapped>>

Next ==
  \/ \E p \in Paths : Unlink(p) \/ \E n \in Parsed, t \in Times : Put(p, n, t)
  \/ \E s \in Savers : \/ \E k \in SavedKeys, d \in DOMAIN Doc, t \in Times : SaveOpen(s, k, d, t)
                       \/ \E whole \in BOOLEAN, t \in Times : SaveWrite(s, whole, t)
                       \/ SaveRename(s)
  \/ \E l \in Loaders : \/ \E k \in Keys : LoadStart(l, k)
                        \/ LoadResolve(l) \/ LoadRead(l)
                        \/ RememberStat(l) \/ RememberStore(l) \/ LoadDone(l)
  \/ Crash

Spec == Init /\ [][Next]_vars
-----------------------------------------------------------------------------
(* Properties *)

Returned == {l \in Loaders : loader[l].pc = "returned"}

(***************************************************************************)
(* Fail closed: what Load returns, from the disk or from the cache, is a   *)
(* whole document from a directory of the requested scope (its own, never a*)
(* sibling's), of the requested lineage, and of a base that the floor      *)
(* covers in the order of versions.  Scopes x and _x share a directory.    *)
(* Two things the code lets through are excepted: a mode with separators   *)
(* and a base id reaches a sibling's file, and a floor below 6 with a minor*)
(* part ranks above versions that it is below (RanksAsVersion).            *)
(***************************************************************************)
LoadFailsClosed ==
  \A l \in Returned :
    LET r == loader[l]
        key == KeyAt[r.key]
    IN  /\ r.body # Torn
        /\ key.mode.to = "" => PathAt[r.path].loc.sub \in {"", Subdir(key.scope)}
        /\ key.base # NoBase => Prepared(r.body).lineage = key.base
        /\ ~config.degraded /\ RanksAsVersion(config.floor) =>
             LET b == LoadedBase(Prepared(r.body), key.base)
             IN  b = NoBase \/ AtLeast(config.floor, FloorRequired(b))

(***************************************************************************)
(* "Hash-safe": a catalog whose own stamp was right in the file has a right*)
(* stamp when it is returned, and still after a brief was merged into it,  *)
(* so that the hash the session is bound to is the hash of what is sent.   *)
(* A wrapper's stamp is read but not moved when white space is stripped,   *)
(* and may turn wrong.  A stamp that was wrong is the same after the load, *)
(* and still wrong: nothing is forged.                                     *)
(***************************************************************************)
StampStaysTrue ==
  \A l \in Returned :
    LET raw == Shaped(loader[l].body)
        d == Prepared(loader[l].body)
    IN  /\ OwnStamp(raw) = ComputeContractHash(raw) =>
             /\ Bind(d, NoHash) = ComputeContractHash(d)
             /\ Bind(MergeScopeBrief(d), NoHash) =
                  ResolveSessionContractHash(NoHash, NoHash, ComputeContractHash(MergeScopeBrief(d)))
        /\ ExtractStampedHash(raw) \notin {NoHash, ComputeContractHash(raw)} =>
             /\ ExtractStampedHash(d) = ExtractStampedHash(raw)
             /\ ExtractStampedHash(d) # ComputeContractHash(d)

(***************************************************************************)
(* The catalog that a Load would take is one that List shows: the file that*)
(* List leaves out for a user's file of the same name is not the first.    *)
(* Excepted are the mode manifest, whose third name is that of the manifest*)
(* List skips, and modes with separators.                                  *)
(***************************************************************************)
LoadableIsListed ==
  \A k \in Keys :
    LET p == ResolveCatalogPath(k)
    IN  p # NoPath /\ KeyAt[k].mode.to = "" /\ PathAt[p].name # ManifestName => p \in ListCatalogEntries

CatalogInv == TypeOK /\ LoadFailsClosed /\ StampStaysTrue /\ LoadableIsListed

(***************************************************************************)
(* A catalog file is whole at every moment, through crashes in the middle  *)
(* of a save and readers beside it, unless two saves of that path were     *)
(* under way at once: they share path.tmp.                                 *)
(***************************************************************************)
TornOnlyByOverlap ==
  \A p \in Paths : files[p].body = Torn => p \in overlapped

(***************************************************************************)
(* A hit of the cache is what a read of its file would give, where file    *)
(* times tell the texts of that path apart, unless the file was replaced   *)
(* between the read and the os.Stat of the Load that stored the entry: then*)
(* the old text is served under the new time.  (That a file of a place     *)
(* before it has appeared since is not looked at by the code.)             *)
(***************************************************************************)
TimesTellApart(p) == \A f, g \in past[p] : f.mtime = g.mtime => f = g

HitIsTheFile ==
  \A l \in Returned :
    loader[l].hit /\ loader[l].read = loader[l].seen /\ TimesTellApart(loader[l].path) =>
      loader[l].body = loader[l].raw
=============================================================================
