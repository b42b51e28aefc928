--------------------------- MODULE Catalog_proofs ---------------------------
(***************************************************************************)
(* Proofs about Catalog: what Load returns and what a catalog file holds,  *)
(* for any goroutines, paths, keys, documents and configurations.          *)
(***************************************************************************)
EXTENDS Catalog, TLAPS, WellFoundedInduction

\* The parts of the inductive invariant.

\* Where a file of a key may be: the directories of its scope.
InScope(k, p) == KeyAt[k].mode.to = "" => PathAt[p].loc.sub \in {"", Subdir(KeyAt[k].scope)}

\* A document that Load may return for a key.
Passes(k, n) ==
  /\ n \in Parsed
  /\ KeyAt[k].base # NoBase => Prepared(n).lineage = KeyAt[k].base
  /\ ~config.degraded /\ RanksAsVersion(config.floor) =>
       LET b == LoadedBase(Prepared(n), KeyAt[k].base)
       IN  b = NoBase \/ AtLeast(config.floor, FloorRequired(b))

\* The text n was at p with the file time t.
Known(p, t, n) == [mtime |-> t, body |-> n] \in past[p]

EntryOK(k, e) ==
  e.path # NoPath => InScope(k, e.path) /\ Passes(k, e.loaded) /\ Known(e.path, e.read, e.loaded)

LoaderOK(r) ==
  /\ r.pc # "idle" => r.key \in Keys
  /\ r.pc \in {"reading", "remembering", "storing", "returned"} => r.path \in Paths /\ InScope(r.key, r.path)
  /\ r.pc \in {"remembering", "storing", "returned"} => Passes(r.key, r.body)
  /\ r.pc # "returned" => ~r.hit
  /\ r.pc \in {"remembering", "storing"} => Known(r.path, r.read, r.body)
  /\ r.hit => Known(r.path, r.read, r.body) /\ Known(r.path, r.seen, r.raw)

\* A file has a text, and what is there now was there.
FileOK(p) ==
  /\ files[p].mtime # 0 => files[p].body # NoDoc /\ files[p] \in past[p]
  /\ tmp[p].mtime # 0 => tmp[p].body # NoDoc

SaverOK(s) ==
  /\ saver[s].pc = "idle" <=> saver[s].path = NoPath
  /\ saver[s].pc # "idle" => saver[s].doc \in DOMAIN Doc

\* A path that one save at a time wrote: path.tmp is its own, and torn just while it is written.
Alone(p) ==
  /\ files[p].body # Torn
  /\ \A s, o \in Savers : saver[s].path = p /\ saver[o].path = p => s = o
  /\ \A s \in Savers : saver[s].path = p =>
       /\ saver[s].pc = "writing" => saver[s].ino = "tmp" /\ tmp[p].body = Torn
       /\ saver[s].pc = "renaming" => tmp[p].body # Torn

CatalogIInv ==
  /\ TypeOK
  /\ \A k \in Keys : EntryOK(k, cache[k])
  /\ \A l \in Loaders : LoaderOK(loader[l])
  /\ \A s \in Savers : SaverOK(s)
  /\ \A p \in Paths : FileOK(p) /\ (p \notin overlapped => Alone(p))
-----------------------------------------------------------------------------
(* Where a catalog is found *)

\* A set of numbers has a least one.
LEMMA Least == ASSUME NEW S \in SUBSET Nat, S # {} PROVE \E m \in S : \A n \in S : m <= n
<1> DEFINE R == OpToRel(<, Nat)
<1>1. \A x, y \in Nat : <<x, y>> \in R <=> x < y
  BY DEF OpToRel
<1>2. IsWellFoundedOn(R, Nat)
  BY NatLessThanWellFounded
<1> HIDE DEF R
<1>3. PICK m \in S : \A n \in S : <<n, m>> \notin R
  BY <1>2, WFMin
<1>4. ASSUME NEW n \in S PROVE m <= n
  <2>1. m \in Nat /\ n \in Nat
    OBVIOUS
  <2>2. ~(n < m)
    BY <1>1, <1>3, <2>1, Zenon
  <2>3. QED
    BY <2>1, <2>2
<1>5. QED
  BY <1>4

\* At most three names.
LEMMA NamesAre ==
  ASSUME NEW k \in Keys
  PROVE  Len(NamesOf[k]) \in Nat /\ DOMAIN NamesOf[k] = 1..Len(NamesOf[k])
<1>1. PICK mode, base, n : n = NamesOf[k] /\ n = CatalogFilenamesForMode(mode, base)
  BY DEF NamesOf
<1>2. \/ n = << >>
      \/ \E x : n = <<x>>
      \/ \E x, y : n = <<x, y>>
      \/ \E x, y, z : n = <<x, y, z>>
  <2>1. CASE base # NoBase
    BY <1>1, <2>1, Zenon DEF CatalogFilenamesForMode
  <2>2. CASE base = NoBase /\ ~mode.single
    BY <1>1, <2>2, Zenon DEF CatalogFilenamesForMode
  <2>3. CASE base = NoBase /\ mode.single /\ IsDefault(mode)
    BY <1>1, <2>3, Zenon DEF CatalogFilenamesForMode
  <2>4. CASE base = NoBase /\ mode.single /\ ~IsDefault(mode)
    BY <1>1, <2>4, Zenon DEF CatalogFilenamesForMode
  <2>5. QED
    BY <2>1, <2>2, <2>3, <2>4
<1>3. Len(n) \in Nat /\ DOMAIN n = 1..Len(n)
  BY <1>2
<1>4. QED
  BY <1>1, <1>3

LEMMA DirIs ==
  \A r, u, m : Dir(r, u, m).root = r /\ Dir(r, u, m).sub = u /\ Dir(r, u, m).min = m
  BY DEF Dir

\* A location is of the scope or of no scope; the bundled ones mirror the user's before them.
LEMMA LocationsAre ==
  ASSUME NEW scope
  PROVE  /\ DOMAIN Locations(scope) \subseteq Nat \ {0}
         /\ \A i \in DOMAIN Locations(scope) :
              /\ Locations(scope)[i].sub \in {"", Subdir(scope)}
              /\ Locations(scope)[i].root # "elsewhere"
              /\ Locations(scope)[i].root = "bundled" =>
                   /\ i - 2 \in DOMAIN Locations(scope)
                   /\ Locations(scope)[i - 2] =
                        Dir("user", Locations(scope)[i].sub, Locations(scope)[i].min)
<1>1. PICK m \in {1, 3} : DOMAIN Locations(scope) = m..6
  BY DEF Locations
<1>2. ASSUME NEW i \in m..6
      PROVE  Locations(scope)[i] =
               Dir(IF i <= 4 THEN "user" ELSE "bundled", IF i <= 2 THEN Subdir(scope) ELSE "", i \in {2, 4, 6})
  BY <1>1 DEF Locations
<1>3. m..6 \subseteq Nat \ {0}
  OBVIOUS
<1>4. ASSUME NEW i \in m..6
      PROVE  /\ Locations(scope)[i].root = IF i <= 4 THEN "user" ELSE "bundled"
             /\ Locations(scope)[i].sub = IF i <= 2 THEN Subdir(scope) ELSE ""
             /\ Locations(scope)[i].min = (i \in {2, 4, 6})
  <2>1. PICK r, u, x : /\ r = IF i <= 4 THEN "user" ELSE "bundled"
                       /\ u = IF i <= 2 THEN Subdir(scope) ELSE ""
                       /\ x = (i \in {2, 4, 6})
    OBVIOUS
  <2>2. PICK d : d = Locations(scope)[i]
    OBVIOUS
  <2>3. d = Dir(r, u, x)
    BY <1>2, <2>1, <2>2
  <2>4. d.root = r /\ d.sub = u /\ d.min = x
    BY <2>3, DirIs
  <2>5. QED
    BY <2>1, <2>2, <2>4
<1>5. ASSUME NEW i \in m..6, Locations(scope)[i].root = "bundled"
      PROVE  i - 2 \in m..6
             /\ Locations(scope)[i - 2] = Dir("user", Locations(scope)[i].sub, Locations(scope)[i].min)
  <2>1. i \in {5, 6}
    <3>1. PICK d : d = Locations(scope)[i].root
      OBVIOUS
    <3>2. d = IF i <= 4 THEN "user" ELSE "bundled"
      BY <1>4, <3>1
    <3>3. d = "bundled"
      BY <1>5, <3>1
    <3>4. QED
      BY <3>2, <3>3
  <2>2. i - 2 \in m..6 /\ i - 2 <= 4 /\ ~(i - 2 <= 2) /\ ~(i <= 2)
        /\ (i - 2 \in {2, 4, 6}) = (i \in {2, 4, 6})
    BY <2>1
  <2>3. Locations(scope)[i].sub = "" /\ Locations(scope)[i].min = (i \in {2, 4, 6})
    BY <1>4, <2>2
  <2>4. Locations(scope)[i - 2] = Dir("user", "", i - 2 \in {2, 4, 6})
    BY <1>2, <2>2
  <2>5. QED
    BY <2>2, <2>3, <2>4
<1>6. ASSUME NEW i \in m..6 PROVE Locations(scope)[i].root # "elsewhere"
  <2>1. PICK d : d = Locations(scope)[i].root
    OBVIOUS
  <2>2. d = IF i <= 4 THEN "user" ELSE "bundled"
    BY <1>4, <2>1
  <2>3. QED
    BY <2>1, <2>2
<1>7. QED
  BY <1>1, <1>3, <1>4, <1>5, <1>6

\* The file that Load takes is there, is of the scope, and is one that List shows.  Of a mode
\* with separators it is there.
LEMMA ResolvedIs ==
  ASSUME NEW k \in Keys, ResolveCatalogPath(k) # NoPath
  PROVE  LET p == ResolveCatalogPath(k)
         IN  /\ p \in Paths /\ Exists(p) /\ InScope(k, p)
             /\ KeyAt[k].mode.to = "" /\ PathAt[p].name # ManifestName => p \in ListCatalogEntries
<1>1. PICK key, L, N, len : /\ key = KeyAt[k] /\ L = Locations(key.scope) /\ N = NamesOf[k]
                            /\ len = Len(N)
  OBVIOUS
<1>2. /\ DOMAIN L \subseteq Nat \ {0}
      /\ \A i \in DOMAIN L : L[i].sub \in {"", Subdir(key.scope)} /\ L[i].root # "elsewhere"
      /\ \A i \in DOMAIN L : L[i].root = "bundled" =>
           i - 2 \in DOMAIN L /\ L[i - 2] = Dir("user", L[i].sub, L[i].min)
  BY <1>1, LocationsAre
<1>3. len \in Nat /\ DOMAIN N \subseteq Nat /\ \A j \in DOMAIN N : len # 0
  <2>1. DOMAIN N = 1..len /\ len \in Nat
    BY <1>1, NamesAre
  <2>2. QED
    BY <2>1
<1> DEFINE M(i) == Landing(L[i], key.mode)
           C == {c \in [loc : DOMAIN L, name : DOMAIN N, path : Paths] :
                   PathAt[c.path] = [loc |-> M(c.loc), name |-> N[c.name]]}
           there == {c \in CandidatesOf[k] : Exists(c.path)}
           least == CHOOSE c \in there : \A d \in there : c.at <= d.at
<1>4. CandidatesOf[k] = {[at |-> c.loc * len + c.name, path |-> c.path] : c \in C}
  BY <1>1 DEF CandidatesOf, Candidates
<1>5. ASSUME NEW x \in there
      PROVE  /\ x.at \in Nat /\ Exists(x.path) /\ x.path \in Paths
             /\ \E i \in DOMAIN L, j \in DOMAIN N :
                  PathAt[x.path] = [loc |-> M(i), name |-> N[j]] /\ x.at = i * len + j
  <2>1. PICK c \in C : x = [at |-> c.loc * len + c.name, path |-> c.path]
    BY <1>4
  <2>2. /\ c.loc \in DOMAIN L /\ c.name \in DOMAIN N /\ c.path \in Paths
        /\ PathAt[c.path] = [loc |-> M(c.loc), name |-> N[c.name]]
    OBVIOUS
  <2>3. PICK i \in DOMAIN L, j \in DOMAIN N, p \in Paths : i = c.loc /\ j = c.name /\ p = c.path
    BY <2>2
  <2>4. x = [at |-> i * len + j, path |-> p]
    BY <2>1, <2>3
  <2>5. i \in Nat /\ j \in Nat /\ len \in Nat
    BY <1>2, <1>3
  <2>6. i * len + j \in Nat
    BY <2>5
  <2>7. x.at = i * len + j /\ x.path = p /\ PathAt[p] = [loc |-> M(i), name |-> N[j]] /\ Exists(x.path)
    BY <2>2, <2>3, <2>4
  <2>8. QED
    BY <2>6, <2>7
<1>6. ASSUME NEW i \in DOMAIN L, NEW j \in DOMAIN N, NEW q \in Paths,
             PathAt[q] = [loc |-> M(i), name |-> N[j]], Exists(q)
      PROVE  [at |-> i * len + j, path |-> q] \in there
  <2>1. [loc |-> i, name |-> j, path |-> q] \in C
    BY <1>6
  <2>2. [at |-> i * len + j, path |-> q] \in CandidatesOf[k]
    <3> HIDE DEF C
    <3>1. PICK c \in C : c = [loc |-> i, name |-> j, path |-> q]
      BY <2>1
    <3>2. c.loc = i /\ c.name = j /\ c.path = q
      BY <3>1
    <3>3. [at |-> c.loc * len + c.name, path |-> c.path] \in CandidatesOf[k]
      BY <1>4, <3>1, Zenon
    <3>4. QED
      BY <3>2, <3>3, Zenon
  <2>3. QED
    BY <1>6, <2>2
<1>7. there # {} /\ ResolveCatalogPath(k) = least.path
  BY DEF ResolveCatalogPath
<1> HIDE DEF there, C, M
<1>8. PICK m \in there : \A d \in there : m.at <= d.at
  <2> DEFINE S == {c.at : c \in there}
  <2>1. S \subseteq Nat /\ S # {}
    BY <1>5, <1>7
  <2> HIDE DEF S
  <2>2. PICK n \in S : \A o \in S : n <= o
    BY <2>1, Least
  <2>3. QED
    BY <2>2 DEF S
<1>9. least \in there /\ \A d \in there : least.at <= d.at
  BY <1>8
<1> HIDE DEF least
<1>10. PICK p : p = least.path
  OBVIOUS
<1>11. PICK i \in DOMAIN L, j \in DOMAIN N :
         PathAt[p] = [loc |-> M(i), name |-> N[j]] /\ least.at = i * len + j
  BY <1>5, <1>9, <1>10
<1>12. p = ResolveCatalogPath(k) /\ p \in Paths /\ Exists(p)
  BY <1>5, <1>7, <1>9, <1>10
<1>13. key.mode.to = "" => PathAt[p].loc = L[i] /\ PathAt[p].name = N[j] /\ \A x \in DOMAIN L : M(x) = L[x]
  <2>1. PathAt[p].loc = M(i) /\ PathAt[p].name = N[j]
    BY <1>11
  <2>2. key.mode.to = "" => \A x \in DOMAIN L : M(x) = L[x]
    BY Zenon DEF M, Landing
  <2>3. QED
    BY <2>1, <2>2
<1>14. InScope(k, p)
  BY <1>1, <1>2, <1>13 DEF InScope
<1>15. ASSUME key.mode.to = "", PathAt[p].name # ManifestName PROVE p \in ListCatalogEntries
  <2> SUFFICES ASSUME NEW q \in ShadowsOf[p], Exists(q) PROVE FALSE
    BY <1>2, <1>12, <1>13, <1>15 DEF ListCatalogEntries
  <2>1. /\ q \in Paths /\ L[i].root = "bundled"
        /\ PathAt[q] = [loc |-> Dir("user", L[i].sub, L[i].min), name |-> N[j]]
    BY <1>12, <1>13, <1>15 DEF ShadowsOf
  <2>2. i - 2 \in DOMAIN L /\ L[i - 2] = Dir("user", L[i].sub, L[i].min)
    BY <1>2, <2>1
  <2>3. [at |-> (i - 2) * len + j, path |-> q] \in there
    <3>1. PathAt[q] = [loc |-> M(i - 2), name |-> N[j]]
      BY <1>13, <1>15, <2>1, <2>2
    <3>2. QED
      BY <1>6, <2>1, <2>2, <3>1
  <2>4. i * len + j <= (i - 2) * len + j
    BY <1>9, <1>11, <2>3
  <2>5. i \in Nat /\ j \in Nat /\ len \in Nat /\ len # 0
    BY <1>2, <1>3
  <2>6. QED
    BY <2>4, <2>5
<1>16. QED
  BY <1>1, <1>12, <1>14, <1>15
-----------------------------------------------------------------------------
(* Documents *)

LEMMA RequiredIs == ASSUME NEW b \in Bases PROVE FloorRequired(b) \in Floors
  BY DEF FloorRequired, Floors, DefaultFloor, Bases

\* On a floor without a minor part or of 6 and more the ranks are ordered as the versions.
LEMMA RanksAre ==
  ASSUME NEW f \in [maj : Nat, min : Nat], NEW g \in Floors, RanksAsVersion(f), FloorRank(f) >= FloorRank(g)
  PROVE  AtLeast(f, g)
<1>1. PICK a \in Nat, b \in Nat : f.maj = a /\ f.min = b
  OBVIOUS
<1>2. PICK c \in Nat, d \in Nat : g.maj = c /\ g.min = d /\ ((d = 0 /\ c <= 6) \/ (d = 1 /\ c = 6))
  BY DEF Floors
<1>3. /\ (IF b # 0 THEN a * 10 + b ELSE a) >= (IF d # 0 THEN c * 10 + d ELSE c)
      /\ b = 0 \/ a >= 6
  BY <1>1, <1>2 DEF FloorRank, RanksAsVersion
<1>4. a > c \/ (a = c /\ b >= d)
  BY <1>2, <1>3
<1>5. QED
  BY <1>1, <1>2, <1>4 DEF AtLeast

LEMMA FloorIs ==
  ASSUME NEW f \in [maj : Nat, min : Nat], NEW b \in Bases, RanksAsVersion(f), FloorAllows(f, b)
  PROVE  b = NoBase \/ AtLeast(f, FloorRequired(b))
  BY RequiredIs, RanksAre DEF FloorAllows

\* What a document's own stamp is: the first of the three that is real.
LEMMA StampIs ==
  ASSUME NEW doc, NEW c, NEW e, NEW x,
         doc.stamps["contract"] = c, doc.stamps["_hash"] = e, doc.stamps["hash"] = x
  PROVE  OwnStamp(doc) = IF RealHash(c) # NoHash THEN RealHash(c)
                         ELSE IF RealHash(e) # NoHash THEN RealHash(e) ELSE RealHash(x)
  BY DEF OwnStamp

LEMMA HashIs ==
  ASSUME NEW i \in Int \ {NoHash.id, ToBeFilled.id}, NEW w
  PROVE  LET n == [id |-> i, ws |-> w] IN n # NoHash /\ n # ToBeFilled /\ RealHash(n) = n
  BY DEF NoHash, ToBeFilled, RealHash

\* The fields of a document.
LEMMA DocumentIs ==
  ASSUME NEW d \in Documents
  PROVE  /\ d.id \in Int \ {NoHash.id, ToBeFilled.id} /\ d.ws \subseteq Surfaces /\ d.brief \subseteq Surfaces
         /\ d.lineage \in Bases /\ d.base \in Bases
         /\ d = [id |-> d.id, ws |-> d.ws, brief |-> d.brief, stamps |-> d.stamps,
                 lineage |-> d.lineage, base |-> d.base]
         /\ DOMAIN d = {"id", "ws", "brief", "stamps", "lineage", "base"}
         /\ DOMAIN d.stamps = Places /\ d.stamps["hash"] # ComputeContractHash(d)
<1>1. d.stamps["hash"] # ComputeContractHash(d)
  BY DEF Documents
<1>2. d \in [id : Int \ {NoHash.id, ToBeFilled.id}, ws : SUBSET Surfaces, brief : SUBSET Surfaces,
            stamps : [Places -> [id : Int, ws : SUBSET Surfaces]], lineage : Bases, base : Bases]
  BY Zenon DEF Documents
<1>3. QED
  BY <1>1, <1>2

\* Healing leaves the lineage, and moves an own stamp that was right to the stripped text.
LEMMA HealIs ==
  ASSUME NEW d \in Documents
  PROVE  LET h == HealTrailingWSStampDrift(d)
         IN  /\ h.lineage = d.lineage /\ h.base = d.base
             /\ OwnStamp(d) = ComputeContractHash(d) =>
                  \E w : /\ h.id = d.id /\ h.ws = w /\ h.brief = d.brief
                         /\ DOMAIN h = DOMAIN d
                         /\ w \subseteq d.brief
                         /\ OwnStamp(h) = [id |-> d.id, ws |-> {}]
<1> DEFINE h == HealTrailingWSStampDrift(d)
           stamped == ExtractStampedHash(d)
           norm == RstripSurfaces(d)
           new == ComputeContractHash(norm)
           moved == RewriteEmbeddedHash(norm, stamped, new)
<1>1. /\ d.id \in Int \ {NoHash.id, ToBeFilled.id} /\ d.ws \subseteq Surfaces /\ d.brief \subseteq Surfaces
      /\ d = [id |-> d.id, ws |-> d.ws, brief |-> d.brief, stamps |-> d.stamps,
              lineage |-> d.lineage, base |-> d.base]
      /\ DOMAIN d.stamps = Places /\ d.stamps["hash"] # ComputeContractHash(d)
  BY DocumentIs
<1>2. norm = [id |-> d.id, ws |-> d.ws \cap d.brief, brief |-> d.brief, stamps |-> d.stamps,
              lineage |-> d.lineage, base |-> d.base]
  BY <1>1 DEF RstripSurfaces
<1>3. new = [id |-> d.id, ws |-> {}]
  <2>1. new = [id |-> d.id, ws |-> (d.ws \cap d.brief) \ d.brief]
    BY <1>2 DEF ComputeContractHash
  <2>2. (d.ws \cap d.brief) \ d.brief = {}
    OBVIOUS
  <2>3. QED
    BY <2>1, <2>2, Zenon
<1>4. /\ moved.id = d.id /\ moved.ws = d.ws \cap d.brief /\ moved.brief = d.brief
      /\ moved.lineage = d.lineage /\ moved.base = d.base /\ DOMAIN moved = DOMAIN d
      /\ \A s \in Places :
           moved.stamps[s] = IF s # "wrapped" /\ d.stamps[s] = stamped THEN new ELSE d.stamps[s]
  <2> HIDE DEF norm, stamped, new
  <2>1. PICK t : t = [s \in Places |-> IF s # "wrapped" /\ d.stamps[s] = stamped THEN new ELSE d.stamps[s]]
    OBVIOUS
  <2>2. norm.stamps = d.stamps
    BY <1>2
  <2>3. moved = [norm EXCEPT !.stamps = t]
    BY <1>1, <2>1, <2>2 DEF RewriteEmbeddedHash
  <2> HIDE DEF moved
  <2>4. moved = [id |-> d.id, ws |-> d.ws \cap d.brief, brief |-> d.brief, stamps |-> t,
                 lineage |-> d.lineage, base |-> d.base]
    BY <1>2, <2>3
  <2>5. QED
    BY <1>1, <2>1, <2>4
<1>5. h = d \/ h = moved
  BY DEF HealTrailingWSStampDrift
<1>6. h.lineage = d.lineage /\ h.base = d.base
  <2> HIDE DEF h, moved
  <2>1. QED
    BY <1>4, <1>5
<1>7. ASSUME OwnStamp(d) = ComputeContractHash(d)
      PROVE  \E w : /\ h.id = d.id /\ h.ws = w /\ h.brief = d.brief /\ DOMAIN h = DOMAIN d
                    /\ w \subseteq d.brief
                    /\ OwnStamp(h) = [id |-> d.id, ws |-> {}]
  <2>1. /\ OwnStamp(d) = [id |-> d.id, ws |-> d.ws \ d.brief] /\ OwnStamp(d) # NoHash
        /\ stamped = OwnStamp(d) /\ RealHash(stamped) = stamped
    <3>1. PICK n : n = [id |-> d.id, ws |-> d.ws \ d.brief]
      OBVIOUS
    <3>2. OwnStamp(d) = n
      BY <1>7, <3>1 DEF ComputeContractHash
    <3>3. n # NoHash /\ RealHash(n) = n
      BY <1>1, <3>1, HashIs
    <3>4. stamped = n
      BY <3>2, <3>3, Zenon DEF ExtractStampedHash
    <3> HIDE DEF stamped
    <3>5. QED
      BY <3>1, <3>2, <3>3, <3>4
  <2>2. CASE h = d /\ (norm = d \/ new = stamped)
    <3>1. d.ws \subseteq d.brief
      <4>1. CASE norm = d
        <5>1. norm.ws = d.ws \cap d.brief
          BY <1>2
        <5>2. QED
          BY <4>1, <5>1
      <4>2. CASE new = stamped
        <5> HIDE DEF new, stamped
        <5>1. new.ws = {} /\ stamped.ws = d.ws \ d.brief
          BY <1>3, <2>1
        <5>2. QED
          BY <4>2, <5>1
      <4>3. QED
        BY <2>2, <4>1, <4>2
    <3>2. stamped = [id |-> d.id, ws |-> {}]
      <4>1. d.ws \ d.brief = {}
        BY <3>1
      <4>2. QED
        BY <2>1, <4>1, Zenon
    <3>3. OwnStamp(h) = stamped
      BY <2>1, <2>2
    <3> HIDE DEF h, stamped
    <3>4. QED
      BY <2>2, <3>1, <3>2, <3>3
  <2>3. CASE h = moved
    <3>1. PICK c, e, x : c = d.stamps["contract"] /\ e = d.stamps["_hash"] /\ x = d.stamps["hash"]
      OBVIOUS
    <3>2. stamped = IF RealHash(c) # NoHash THEN RealHash(c)
                    ELSE IF RealHash(e) # NoHash THEN RealHash(e) ELSE RealHash(x)
      BY <2>1, <3>1, StampIs
    <3>3. PICK c2, e2, x2 : /\ c2 = moved.stamps["contract"] /\ e2 = moved.stamps["_hash"]
                            /\ x2 = moved.stamps["hash"]
      OBVIOUS
    <3>11. stamped = ComputeContractHash(d) /\ x # ComputeContractHash(d)
      BY <1>1, <1>7, <2>1, <3>1
    <3> HIDE DEF moved, new, stamped
    <3>12. /\ \A s \in {"contract", "_hash", "hash"} : s \in Places /\ s # "wrapped"
      BY DEF Places
    <3>4. c2 = (IF c = stamped THEN new ELSE c) /\ e2 = (IF e = stamped THEN new ELSE e)
      BY <1>4, <3>1, <3>3, <3>12
    <3>5. new # NoHash /\ RealHash(new) = new
      BY <1>1, <1>3, HashIs
    <3>6. OwnStamp(moved) = IF RealHash(c2) # NoHash THEN RealHash(c2)
                            ELSE IF RealHash(e2) # NoHash THEN RealHash(e2) ELSE RealHash(x2)
      BY <3>3, StampIs
    <3>7. /\ RealHash(c) \in {c, NoHash} /\ RealHash(e) \in {e, NoHash} /\ RealHash(x) \in {x, NoHash}
          /\ RealHash(stamped) = stamped /\ stamped # NoHash
      BY <2>1, Zenon DEF RealHash
    <3>8. IF RealHash(c2) # NoHash THEN RealHash(c2) = new ELSE RealHash(e2) = new
      <4>1. CASE RealHash(c) # NoHash
        BY <3>2, <3>4, <3>5, <3>7, <4>1
      <4>2. CASE RealHash(c) = NoHash
        <5>1. c # stamped /\ c2 = c
          BY <3>4, <3>7, <4>2
        <5>2. RealHash(e) # NoHash
          BY <3>2, <3>7, <3>11, <4>2
        <5>3. e = stamped /\ e2 = new
          BY <3>2, <3>4, <3>7, <4>2, <5>2
        <5>4. QED
          BY <3>5, <4>2, <5>1, <5>3
      <4>3. QED
        BY <4>1, <4>2
    <3>9. OwnStamp(moved) = new
      BY <3>5, <3>6, <3>8
    <3> HIDE DEF h
    <3>10. QED
      BY <1>3, <1>4, <2>3, <3>9
  <2>4. h = moved \/ (h = d /\ (norm = d \/ new = stamped))
    BY <1>7, <2>1 DEF HealTrailingWSStampDrift
  <2>5. QED
    BY <2>2, <2>3, <2>4
<1>8. QED
  BY <1>6, <1>7

\* An own stamp that is right is right in the healed document, and after a brief was merged into it.
LEMMA StampHolds ==
  ASSUME NEW d \in Documents, OwnStamp(d) = ComputeContractHash(d)
  PROVE  LET h == HealTrailingWSStampDrift(d)
         IN  /\ Bind(h, NoHash) = ComputeContractHash(h)
             /\ Bind(MergeScopeBrief(h), NoHash) =
                  ResolveSessionContractHash(NoHash, NoHash, ComputeContractHash(MergeScopeBrief(h)))
<1> DEFINE H == HealTrailingWSStampDrift(d)
<1>1. PICK h, w : /\ h = H /\ h.id = d.id /\ h.ws = w /\ h.brief = d.brief /\ DOMAIN h = DOMAIN d
                  /\ w \subseteq d.brief /\ OwnStamp(h) = [id |-> d.id, ws |-> {}]
  BY HealIs
<1>2. /\ d.id \in Int \ {NoHash.id, ToBeFilled.id} /\ d.brief \subseteq Surfaces
      /\ DOMAIN d = {"id", "ws", "brief", "stamps", "lineage", "base"}
  BY DocumentIs
<1> DEFINE new == [id |-> d.id, ws |-> {}]
<1>3. new # NoHash
  BY <1>2, HashIs
<1>4. ComputeContractHash(h) = new
  <2>1. h.ws \ h.brief = {}
    BY <1>1
  <2>2. QED
    BY <1>1, <2>1, Zenon DEF ComputeContractHash
<1>5. PICK m : m = MergeScopeBrief(h)
  OBVIOUS
<1>6. m.id = d.id /\ m.ws = w \cap d.brief /\ m.brief = Surfaces /\ m.stamps = h.stamps
  BY <1>1, <1>2, <1>5 DEF MergeScopeBrief
<1>7. ComputeContractHash(m) = new
  <2>1. m.ws \ m.brief = {}
    BY <1>2, <1>6
  <2>2. QED
    BY <1>6, <2>1, Zenon DEF ComputeContractHash
<1>8. ExtractStampedHash(m) = new /\ ExtractStampedHash(h) = new
  <2>1. OwnStamp(m) = OwnStamp(h)
    BY <1>6 DEF OwnStamp
  <2> HIDE DEF new
  <2>2. OwnStamp(h) = new
    BY <1>1 DEF new
  <2>3. QED
    BY <1>3, <2>1, <2>2, Zenon DEF ExtractStampedHash
<1> HIDE DEF new
<1>9. Bind(h, NoHash) = new /\ Bind(m, NoHash) = new
  BY <1>1, <1>3, <1>8 DEF Bind, new
<1>10. ResolveSessionContractHash(NoHash, NoHash, new) = new
  BY <1>3 DEF ResolveSessionContractHash
<1>11. QED
  BY <1>1, <1>4, <1>5, <1>7, <1>9, <1>10, Zenon

\* A wrong stamp is left alone.
LEMMA WrongStays ==
  ASSUME NEW d, ExtractStampedHash(d) \notin {NoHash, ComputeContractHash(d)}
  PROVE  HealTrailingWSStampDrift(d) = d
  BY DEF HealTrailingWSStampDrift

\* What is JSON is a document.
LEMMA ShapedIs == ASSUME NEW n \in Parsed PROVE Shaped(n) \in Documents
<1>1. CASE n = NotObject
  <2>1. PICK t : t = [s \in Places |-> NoHash]
    OBVIOUS
  <2>2. t \in [Places -> [id : Int, ws : SUBSET Surfaces]] /\ t["hash"] = NoHash
    BY <2>1 DEF NoHash, Places
  <2>3. PICK i \in Int \ {NoHash.id, ToBeFilled.id} : i = -2
    BY DEF NoHash, ToBeFilled
  <2>4. EmptyDocument = [id |-> i, ws |-> {}, brief |-> {}, stamps |-> t, lineage |-> NoBase, base |-> NoBase]
    BY <2>1, <2>3 DEF EmptyDocument
  <2>5. NoBase \in Bases
    BY DEF NoBase, Bases
  <2>6. EmptyDocument \in [id : Int \ {NoHash.id, ToBeFilled.id}, ws : SUBSET Surfaces, brief : SUBSET Surfaces,
            stamps : [Places -> [id : Int, ws : SUBSET Surfaces]], lineage : Bases, base : Bases]
    BY <2>2, <2>4, <2>5
  <2>7. ComputeContractHash(EmptyDocument) # NoHash /\ EmptyDocument.stamps["hash"] = NoHash
    <3>1. ComputeContractHash(EmptyDocument).id = i /\ NoHash.id # i
      BY <2>4 DEF ComputeContractHash
    <3>2. EmptyDocument.stamps = t
      BY <2>4
    <3>3. QED
      BY <2>2, <3>1, <3>2
  <2>8. QED
    BY <1>1, <2>6, <2>7, Zenon DEF Shaped, Documents
<1>2. CASE n # NotObject
  BY <1>2, CatalogAssumption DEF Parsed, Shaped
<1>3. QED
  BY <1>1, <1>2
-----------------------------------------------------------------------------
(* Types *)

LEMMA Numbers ==
  /\ NoPath \notin Paths /\ NoKey \notin Keys /\ NoDoc \notin DOMAIN Doc /\ Torn \notin DOMAIN Doc
  /\ NoDoc # Torn /\ NoDoc \in Bodies /\ Torn \in Bodies /\ \A n \in DOMAIN Doc : n \in Parsed
  /\ \A n \in Parsed : n \in Bodies /\ n # Torn /\ n # NoDoc
  /\ \A n \in Bodies : n # Torn /\ n # NoDoc => n \in Parsed
  /\ 0 \in Nat
<1>1. Paths \subseteq Nat \ {NoPath} /\ Keys \subseteq Nat \ {NoKey} /\ DOMAIN Doc \subseteq Nat \ {NoDoc}
  BY CatalogAssumption, Zenon
<1>2. QED
  BY <1>1 DEF NoPath, NoKey, NoDoc, Torn, NotObject, Parsed, Bodies

LEMMA Strings ==
  /\ "idle" \in LoaderPC /\ "resolving" \in LoaderPC /\ "reading" \in LoaderPC
  /\ "remembering" \in LoaderPC /\ "storing" \in LoaderPC /\ "returned" \in LoaderPC
  /\ "idle" \in SaverPC /\ "writing" \in SaverPC /\ "renaming" \in SaverPC
  /\ "none" \in Inode /\ "tmp" \in Inode /\ "path" \in Inode
  BY DEF LoaderPC, SaverPC, Inode

LEMMA FileFields ==
  /\ \A m, b : m \in Nat /\ b \in Bodies => [mtime |-> m, body |-> b] \in File
  /\ \A m, b : [mtime |-> m, body |-> b].mtime = m /\ [mtime |-> m, body |-> b].body = b
  /\ \A f \in File : f.mtime \in Nat /\ f.body \in Bodies
  /\ Absent \in File /\ Absent.mtime = 0 /\ Absent.body = NoDoc
  BY Numbers DEF File, Absent

LEMMA FileIs == ASSUME NEW f \in File PROVE f = [mtime |-> f.mtime, body |-> f.body]
  BY DEF File

LEMMA EntryFields ==
  /\ NotCached \in Entry /\ NotCached.path = NoPath
  /\ \A e \in Entry : e.path \in Paths \cup {NoPath} /\ e.mtime \in Nat /\ e.loaded \in Bodies /\ e.read \in Nat
  BY Numbers DEF Entry, NotCached, NoPath

LEMMA LoaderFields ==
  ASSUME NEW r \in Loader
  PROVE  /\ r.pc \in LoaderPC /\ r.key \in Keys \cup {NoKey} /\ r.path \in Paths \cup {NoPath}
         /\ r.read \in Nat /\ r.seen \in Nat /\ r.raw \in Bodies /\ r.body \in Bodies /\ r.hit \in BOOLEAN
         /\ r = [pc |-> r.pc, key |-> r.key, path |-> r.path, read |-> r.read, seen |-> r.seen,
                 raw |-> r.raw, body |-> r.body, hit |-> r.hit]
  BY DEF Loader

LEMMA LoaderMade ==
  ASSUME NEW pc \in LoaderPC, NEW k \in Keys \cup {NoKey}, NEW p \in Paths \cup {NoPath}, NEW t \in Nat,
         NEW u \in Nat, NEW n \in Bodies, NEW b \in Bodies, NEW h \in BOOLEAN
  PROVE  [pc |-> pc, key |-> k, path |-> p, read |-> t, seen |-> u, raw |-> n, body |-> b, hit |-> h] \in Loader
  BY DEF Loader

LEMMA IdleIs ==
  /\ IdleLoader \in Loader /\ IdleLoader.pc = "idle"
  /\ IdleSaver \in Saver /\ IdleSaver.pc = "idle" /\ IdleSaver.path = NoPath
  <1>1. IdleLoader \in Loader
    <2>1. NoKey \in Keys \cup {NoKey} /\ NoPath \in Paths \cup {NoPath} /\ FALSE \in BOOLEAN
      OBVIOUS
    <2>2. QED
      BY <2>1, LoaderMade, Numbers, Strings DEF IdleLoader
  <1>2. IdleSaver \in Saver
    BY Numbers, Strings DEF IdleSaver, Saver
  <1>3. QED
    BY <1>1, <1>2 DEF IdleLoader, IdleSaver

LEMMA SaverFields ==
  /\ \A r \in Saver : r.pc \in SaverPC /\ r.path \in Paths \cup {NoPath}
                      /\ r.doc \in DOMAIN Doc \cup {NoDoc} /\ r.ino \in Inode
  /\ \A p \in Paths, d \in DOMAIN Doc :
       LET w == [pc |-> "writing", path |-> p, doc |-> d, ino |-> "tmp"]
       IN  w \in Saver /\ w.pc = "writing" /\ w.path = p /\ w.doc = d /\ w.ino = "tmp"
  BY Strings DEF Saver

\* A change of where a save is, or of what it holds open.
LEMMA SaverMoves ==
  ASSUME NEW r \in Saver
  PROVE  /\ \A pc \in SaverPC : LET w == [r EXCEPT !.pc = pc]
              IN  w \in Saver /\ w.pc = pc /\ w.path = r.path /\ w.doc = r.doc /\ w.ino = r.ino
         /\ \A i \in Inode : LET w == [r EXCEPT !.ino = i]
              IN  w \in Saver /\ w.pc = r.pc /\ w.path = r.path /\ w.doc = r.doc /\ w.ino = i
  BY DEF Saver

\* The moves of a load: to the read, past it, to what is found then, and to its end.
Reading(r, q) == [r EXCEPT !.pc = "reading", !.path = q]
Remembering(r, m, v) == [r EXCEPT !.pc = "remembering", !.raw = m, !.body = m, !.read = v]
Storing(r, v) == [r EXCEPT !.pc = "storing", !.seen = v]

LEMMA ToReading ==
  ASSUME NEW r \in Loader, NEW q \in Paths, NEW w, w = Reading(r, q)
  PROVE  w \in Loader /\ w.pc = "reading" /\ w.key = r.key /\ w.path = q /\ w.hit = r.hit
  BY Strings DEF Loader, Reading

LEMMA ToRemembering ==
  ASSUME NEW r \in Loader, NEW m \in Bodies, NEW v \in Nat, NEW w, w = Remembering(r, m, v)
  PROVE  /\ w \in Loader /\ w.pc = "remembering" /\ w.key = r.key /\ w.path = r.path
         /\ w.read = v /\ w.body = m /\ w.hit = r.hit
<1>1. "remembering" \in LoaderPC
  BY Strings
<1>2. QED
  BY <1>1 DEF Loader, Remembering

LEMMA ToStoring ==
  ASSUME NEW r \in Loader, NEW v \in Nat, NEW w, w = Storing(r, v)
  PROVE  /\ w \in Loader /\ w.pc = "storing" /\ w.key = r.key /\ w.path = r.path
         /\ w.read = r.read /\ w.body = r.body /\ w.hit = r.hit
  BY Strings DEF Loader, Storing

LEMMA ToReturned ==
  ASSUME NEW r \in Loader, NEW w, w = [r EXCEPT !.pc = "returned"]
  PROVE  /\ w \in Loader /\ w.pc = "returned" /\ w.key = r.key /\ w.path = r.path
         /\ w.body = r.body /\ w.hit = r.hit
  BY Strings DEF Loader
-----------------------------------------------------------------------------
(* Steps that change files *)

\* What was at a path stays known.
Steady(q) == past[q] \subseteq past'[q]

LEMMA KnownKeeps ==
  ASSUME NEW q \in Paths, Steady(q), NEW t, NEW n, Known(q, t, n) PROVE Known(q, t, n)'
  BY DEF Known, Steady

\* A step that changes files alone keeps what is known of them.
LEMMA DiskStep ==
  ASSUME CatalogIInv, UNCHANGED <<cache, loader, config>>, \A q \in Paths : Steady(q)
  PROVE  (\A k \in Keys : EntryOK(k, cache[k]))' /\ (\A l \in Loaders : LoaderOK(loader[l]))'
<1>1. ASSUME NEW k \in Keys PROVE EntryOK(k, cache[k])'
  <2>1. PICK e : e = cache[k] /\ e = cache'[k]
    OBVIOUS
  <2>2. e \in Entry /\ EntryOK(k, e)
    BY <2>1 DEF CatalogIInv, TypeOK
  <2>3. e.path \in Paths \cup {NoPath}
    BY <2>2, EntryFields
  <2>4. ASSUME e.path # NoPath PROVE Known(e.path, e.read, e.loaded)'
    BY <2>2, <2>3, <2>4, KnownKeeps DEF EntryOK
  <2>5. EntryOK(k, e)'
    BY <2>2, <2>4 DEF EntryOK, InScope, Passes
  <2>6. QED
    BY <2>1, <2>5
<1>2. ASSUME NEW l \in Loaders PROVE LoaderOK(loader[l])'
  <2>1. PICK r : r = loader[l] /\ r = loader'[l]
    OBVIOUS
  <2>2. r \in Loader /\ LoaderOK(r)
    BY <2>1 DEF CatalogIInv, TypeOK
  <2>3. r.pc \in {"remembering", "storing", "returned"} => r.path \in Paths
    BY <2>2 DEF LoaderOK
  <2>4. ASSUME r.path \in Paths, NEW t, NEW n, Known(r.path, t, n) PROVE Known(r.path, t, n)'
    BY <2>4, KnownKeeps
  <2>5. LoaderOK(r)'
    BY <2>2, <2>3, <2>4 DEF LoaderOK, InScope, Passes
  <2>6. QED
    BY <2>1, <2>5
<1>3. QED
  BY <1>1, <1>2

\* A new text at path.tmp, and at a path.
LEMMA FilesWritten ==
  ASSUME TypeOK, NEW F, NEW G, F \in [Paths -> File], NEW p \in Paths, NEW f \in File,
         G = [F EXCEPT ![p] = f]
  PROVE  G \in [Paths -> File] /\ G[p] = f /\ \A q \in Paths : q # p => G[q] = F[q]
  OBVIOUS

LEMMA Placed ==
  ASSUME TypeOK, NEW p \in Paths, NEW f \in File, Place(p, f)
  PROVE  /\ files' \in [Paths -> File] /\ past' \in [Paths -> SUBSET File]
         /\ files'[p] = f /\ f \in past'[p] /\ Steady(p)
         /\ \A q \in Paths : q # p => files'[q] = files[q] /\ past'[q] = past[q] /\ Steady(q)
<1>1. files \in [Paths -> File] /\ past \in [Paths -> SUBSET File]
  BY DEF TypeOK
<1>2. files' = [files EXCEPT ![p] = f] /\ past' = [past EXCEPT ![p] = past[p] \cup {f}]
  BY DEF Place
<1>3. past[p] \cup {f} \in SUBSET File
  BY <1>1
<1>4. /\ past' \in [Paths -> SUBSET File] /\ past'[p] = past[p] \cup {f}
      /\ \A q \in Paths : q # p => past'[q] = past[q]
  BY <1>1, <1>2, <1>3
<1>5. QED
  BY <1>1, <1>2, <1>4, FilesWritten DEF Steady

LEMMA Written == ASSUME TypeOK, Write PROVE writes' \in 0..MaxWrites
<1>1. writes \in 0..MaxWrites /\ MaxWrites \in Nat /\ writes < MaxWrites /\ writes' = writes + 1
  BY CatalogAssumption DEF TypeOK, Write
<1>2. QED
  BY <1>1

LEMMA PutKeeps ==
  ASSUME CatalogIInv, NEW p \in Paths, NEW d \in Parsed, NEW t \in Times, Put(p, d, t) PROVE CatalogIInv'
<1>1. PICK f : f = [mtime |-> t, body |-> d]
  OBVIOUS
<1>2. t \in Nat
  BY CatalogAssumption
<1>3. f \in File /\ f.body = d /\ d # Torn /\ d # NoDoc
  BY <1>1, <1>2, FileFields, Numbers
<1>4. /\ files' \in [Paths -> File] /\ past' \in [Paths -> SUBSET File]
      /\ files'[p] = f /\ f \in past'[p] /\ Steady(p)
      /\ \A q \in Paths : q # p => files'[q] = files[q] /\ past'[q] = past[q] /\ Steady(q)
  <2>1. Place(p, f)
    BY <1>1 DEF Put
  <2>2. QED
    BY <1>3, <2>1, Placed DEF CatalogIInv
<1>5. ASSUME NEW s \in Savers
      PROVE  /\ saver'[s] \in Saver /\ saver'[s].pc = saver[s].pc /\ saver'[s].path = saver[s].path
             /\ saver'[s].doc = saver[s].doc /\ (saver[s].ino = "tmp" => saver'[s].ino = "tmp")
  <2>1. PICK r, w : r = saver[s] /\ w = saver'[s]
    OBVIOUS
  <2>2. r \in Saver
    BY <2>1 DEF CatalogIInv, TypeOK
  <2>3. (w = [r EXCEPT !.ino = "none"] /\ r.ino = "path") \/ w = r
    BY <2>1 DEF Put
  <2>4. w \in Saver /\ w.pc = r.pc /\ w.path = r.path /\ w.doc = r.doc /\ (r.ino = "tmp" => w.ino = "tmp")
    <3>1. LET x == [r EXCEPT !.ino = "none"]
          IN  x \in Saver /\ x.pc = r.pc /\ x.path = r.path /\ x.doc = r.doc
      BY <2>2, SaverMoves, Strings
    <3>2. QED
      BY <2>2, <2>3, <3>1
  <2>5. QED
    BY <2>1, <2>4
<1>6. saver' \in [Savers -> Saver]
  BY <1>5 DEF Put
<1>7. ASSUME NEW q \in Paths PROVE Steady(q) /\ FileOK(q)'
  <2>1. FileOK(q) /\ tmp' = tmp
    BY DEF CatalogIInv, Put
  <2>2. QED
    BY <1>3, <1>4, <2>1 DEF FileOK
<1>8. TypeOK'
  <2>1. writes' \in 0..MaxWrites
    BY Written DEF CatalogIInv, Put
  <2>2. QED
    BY <1>4, <1>6, <2>1 DEF CatalogIInv, TypeOK, Put
<1>9. (\A k \in Keys : EntryOK(k, cache[k]))' /\ (\A l \in Loaders : LoaderOK(loader[l]))'
  BY <1>7, DiskStep DEF Put
<1>10. ASSUME NEW s \in Savers PROVE SaverOK(s)'
  BY <1>5 DEF CatalogIInv, SaverOK
<1>11. ASSUME NEW q \in Paths, q \notin overlapped' PROVE Alone(q)'
  <2>1. Alone(q) /\ tmp' = tmp
    BY <1>11 DEF CatalogIInv, Put
  <2>2. files'[q].body # Torn
    BY <1>3, <1>4, <2>1 DEF Alone
  <2>3. QED
    BY <1>5, <2>1, <2>2 DEF Alone
<1>12. QED
  BY <1>7, <1>8, <1>9, <1>10, <1>11 DEF CatalogIInv

LEMMA UnlinkKeeps ==
  ASSUME CatalogIInv, NEW p \in Paths, Unlink(p) PROVE CatalogIInv'
<1>1. files' \in [Paths -> File] /\ files'[p] = Absent /\ \A q \in Paths : q # p => files'[q] = files[q]
  <2>1. files' = [files EXCEPT ![p] = Absent]
    BY DEF Unlink
  <2>2. QED
    BY <2>1, FileFields, FilesWritten DEF CatalogIInv, TypeOK
<1>2. ASSUME NEW q \in Paths PROVE Steady(q) /\ FileOK(q)'
  <2>1. FileOK(q) /\ tmp' = tmp /\ past' = past /\ Absent.mtime = 0
    BY FileFields DEF CatalogIInv, Unlink
  <2>2. QED
    BY <1>1, <2>1 DEF FileOK, Steady
<1>3. TypeOK'
  BY <1>1, <1>2 DEF CatalogIInv, TypeOK, Unlink
<1>4. (\A k \in Keys : EntryOK(k, cache[k]))' /\ (\A l \in Loaders : LoaderOK(loader[l]))'
  BY <1>2, DiskStep DEF Unlink
<1>5. ASSUME NEW s \in Savers PROVE SaverOK(s)'
  BY DEF CatalogIInv, SaverOK, Unlink
<1>6. ASSUME NEW q \in Paths, q \notin overlapped' PROVE Alone(q)'
  <2>1. Alone(q) /\ tmp' = tmp /\ saver' = saver
    BY <1>6 DEF CatalogIInv, Unlink
  <2>2. files'[q].body # Torn
    BY <1>1, <2>1, FileFields, Numbers DEF Alone
  <2>3. QED
    BY <2>1, <2>2 DEF Alone
<1>7. QED
  BY <1>2, <1>3, <1>4, <1>5, <1>6 DEF CatalogIInv

LEMMA SaveOpenKeeps ==
  ASSUME CatalogIInv, NEW s \in Savers, NEW k \in SavedKeys, NEW d \in DOMAIN Doc, NEW t \in Times,
         SaveOpen(s, k, d, t)
  PROVE  CatalogIInv'
<1>1. PICK p \in Paths : p = SavePaths[k]
  BY DEF SavePaths, SavedKeys
<1>2. t \in Nat
  BY CatalogAssumption
<1>3. PICK f, w : f = [mtime |-> t, body |-> Torn]
                  /\ w = [pc |-> "writing", path |-> p, doc |-> d, ino |-> "tmp"]
  OBVIOUS
<1>4. f \in File /\ f.body = Torn /\ Torn # NoDoc
  BY <1>2, <1>3, FileFields, Numbers
<1>5. w \in Saver /\ w.pc = "writing" /\ w.path = p /\ w.doc = d /\ w.ino = "tmp"
  BY <1>3, SaverFields
<1>6. tmp' \in [Paths -> File] /\ tmp'[p] = f /\ \A q \in Paths : q # p => tmp'[q] = tmp[q]
  <2>1. tmp' = [tmp EXCEPT ![p] = f]
    BY <1>1, <1>3 DEF SaveOpen
  <2>2. QED
    BY <1>4, <2>1, FilesWritten DEF CatalogIInv, TypeOK
<1>7. saver' \in [Savers -> Saver] /\ saver'[s] = w /\ \A o \in Savers : o # s => saver'[o] = saver[o]
  <2>1. saver' = [saver EXCEPT ![s] = w]
    BY <1>1, <1>3 DEF SaveOpen
  <2>2. QED
    BY <1>5, <2>1 DEF CatalogIInv, TypeOK
<1>8. ASSUME NEW q \in Paths PROVE Steady(q) /\ FileOK(q)'
  <2>1. FileOK(q) /\ files' = files /\ past' = past
    BY DEF CatalogIInv, SaveOpen
  <2>2. QED
    BY <1>4, <1>6, <2>1 DEF FileOK, Steady
<1>9. TypeOK'
  <2>1. overlapped' \subseteq Paths
    BY <1>1 DEF CatalogIInv, TypeOK, SaveOpen
  <2>2. writes' \in 0..MaxWrites
    BY Written DEF CatalogIInv, SaveOpen
  <2>3. QED
    BY <1>6, <1>7, <2>1, <2>2 DEF CatalogIInv, TypeOK, SaveOpen
<1>10. (\A i \in Keys : EntryOK(i, cache[i]))' /\ (\A l \in Loaders : LoaderOK(loader[l]))'
  BY <1>8, DiskStep DEF SaveOpen
<1>11. ASSUME NEW o \in Savers PROVE SaverOK(o)'
  <2>1. SaverOK(o) /\ p # NoPath
    BY Numbers DEF CatalogIInv
  <2>2. CASE o = s
    BY <1>5, <1>7, <2>1, <2>2 DEF SaverOK
  <2>3. CASE o # s
    BY <1>7, <2>1, <2>3 DEF SaverOK
  <2>4. QED
    BY <2>2, <2>3
<1>12. ASSUME NEW q \in Paths, q \notin overlapped' PROVE Alone(q)'
  <2>1. Alone(q) /\ files' = files /\ (q = p => \A o \in Savers : saver[o].path # p)
    BY <1>1, <1>12 DEF CatalogIInv, SaveOpen
  <2>2. CASE q = p
    <3>1. \A o \in Savers : saver'[o].path = p => o = s
      BY <1>7, <2>1, <2>2
    <3>2. saver'[s].pc = "writing" /\ saver'[s].ino = "tmp" /\ tmp'[p].body = Torn
      BY <1>4, <1>5, <1>6, <1>7
    <3>3. QED
      BY <2>1, <2>2, <3>1, <3>2 DEF Alone
  <2>3. CASE q # p
    <3>1. \A o \in Savers : saver'[o].path = q => saver'[o] = saver[o] /\ saver[o].path = q
      BY <1>5, <1>7, <2>3
    <3>2. tmp'[q] = tmp[q]
      BY <1>6, <2>3
    <3>3. QED
      BY <2>1, <3>1, <3>2 DEF Alone
  <2>4. QED
    BY <2>2, <2>3
<1>13. QED
  BY <1>8, <1>9, <1>10, <1>11, <1>12 DEF CatalogIInv

LEMMA SaveWriteKeeps ==
  ASSUME CatalogIInv, NEW s \in Savers, NEW whole \in BOOLEAN, NEW t \in Times, SaveWrite(s, whole, t)
  PROVE  CatalogIInv'
<1>1. PICK r : r = saver[s]
  OBVIOUS
<1>2. r \in Saver /\ SaverOK(s) /\ r.pc = "writing"
  BY <1>1 DEF CatalogIInv, TypeOK, SaveWrite
<1>3. r.path \in Paths /\ r.doc \in DOMAIN Doc
  <2>1. r.path \in Paths \cup {NoPath}
    BY <1>2, SaverFields
  <2>2. QED
    BY <1>1, <1>2, <2>1 DEF SaverOK
<1>4. PICK p \in Paths : p = r.path
  BY <1>3
<1>5. t \in Nat
  BY CatalogAssumption
<1>6. PICK n : n = IF whole THEN r.doc ELSE Torn
  OBVIOUS
<1>7. PICK f : f = [mtime |-> t, body |-> n]
  OBVIOUS
<1>8. f \in File /\ f.body = n /\ n # NoDoc /\ (whole => n # Torn)
  BY <1>3, <1>5, <1>6, <1>7, FileFields, Numbers
<1>9. /\ tmp' = IF r.ino = "tmp" THEN [tmp EXCEPT ![p] = f] ELSE tmp
      /\ IF r.ino = "path" THEN Place(p, f) ELSE files' = files /\ past' = past
  BY <1>1, <1>4, <1>6, <1>7 DEF SaveWrite
<1>10. /\ tmp' \in [Paths -> File] /\ tmp'[p] = (IF r.ino = "tmp" THEN f ELSE tmp[p])
       /\ \A q \in Paths : q # p => tmp'[q] = tmp[q]
  BY <1>8, <1>9, FilesWritten DEF CatalogIInv, TypeOK
<1>11. /\ files' \in [Paths -> File] /\ past' \in [Paths -> SUBSET File]
       /\ files'[p] = (IF r.ino = "path" THEN f ELSE files[p])
       /\ r.ino = "path" => f \in past'[p]
       /\ \A q \in Paths : Steady(q) /\ (q # p => files'[q] = files[q])
  <2>1. CASE r.ino = "path"
    <3>1. Place(p, f)
      BY <1>9, <2>1
    <3>2. QED
      BY <1>8, <2>1, <3>1, Placed DEF CatalogIInv
  <2>2. CASE r.ino # "path"
    BY <1>9, <2>2 DEF CatalogIInv, TypeOK, Steady
  <2>3. QED
    BY <2>1, <2>2
<1>12. PICK w : w = [r EXCEPT !.pc = "renaming"]
  OBVIOUS
<1>13. w \in Saver /\ w.pc = "renaming" /\ w.path = p /\ w.doc = r.doc
  BY <1>2, <1>4, <1>12, SaverMoves, Strings
<1>14. saver' \in [Savers -> Saver] /\ saver'[s] = w /\ \A o \in Savers : o # s => saver'[o] = saver[o]
  <2>1. saver' = [saver EXCEPT ![s] = w]
    BY <1>1, <1>12 DEF SaveWrite, CatalogIInv, TypeOK
  <2>2. QED
    BY <1>13, <2>1 DEF CatalogIInv, TypeOK
<1>15. ASSUME NEW q \in Paths PROVE Steady(q) /\ FileOK(q)'
  <2>1. FileOK(q) /\ Steady(q)
    BY <1>11 DEF CatalogIInv
  <2>2. CASE q = p
    BY <1>8, <1>10, <1>11, <2>1, <2>2 DEF FileOK, Steady
  <2>3. CASE q # p
    BY <1>10, <1>11, <2>1, <2>3 DEF FileOK, Steady
  <2>4. QED
    BY <2>1, <2>2, <2>3
<1>16. TypeOK'
  BY <1>10, <1>11, <1>14 DEF CatalogIInv, TypeOK, SaveWrite
<1>17. (\A i \in Keys : EntryOK(i, cache[i]))' /\ (\A l \in Loaders : LoaderOK(loader[l]))'
  BY <1>15, DiskStep DEF SaveWrite
<1>18. ASSUME NEW o \in Savers PROVE SaverOK(o)'
  <2>1. SaverOK(o) /\ p # NoPath
    BY Numbers DEF CatalogIInv
  <2>2. CASE o = s
    BY <1>3, <1>13, <1>14, <2>1, <2>2 DEF SaverOK
  <2>3. CASE o # s
    BY <1>14, <2>1, <2>3 DEF SaverOK
  <2>4. QED
    BY <2>2, <2>3
<1>19. ASSUME NEW q \in Paths, q \notin overlapped' PROVE Alone(q)'
  <2>1. Alone(q)
    BY <1>19 DEF CatalogIInv, SaveWrite
  <2>2. CASE q = p
    <3>1. r.ino = "tmp" /\ tmp[p].body = Torn /\ \A o \in Savers : saver[o].path = p => o = s
      BY <1>1, <1>2, <1>4, <2>1, <2>2 DEF Alone
    <3>2. whole
      BY <1>1, <1>4, <3>1 DEF SaveWrite
    <3>3. tmp'[p].body # Torn /\ files'[p] = files[p]
      BY <1>8, <1>10, <1>11, <3>1, <3>2
    <3>4. \A o \in Savers : saver'[o].path = p => o = s
      BY <1>14, <3>1
    <3>5. saver'[s].pc = "renaming"
      BY <1>13, <1>14
    <3>6. QED
      BY <2>1, <2>2, <3>3, <3>4, <3>5 DEF Alone
  <2>3. CASE q # p
    <3>1. \A o \in Savers : saver'[o].path = q => saver'[o] = saver[o] /\ saver[o].path = q
      BY <1>13, <1>14, <2>3
    <3>2. tmp'[q] = tmp[q] /\ files'[q] = files[q]
      BY <1>10, <1>11, <2>3
    <3>3. QED
      BY <2>1, <3>1, <3>2 DEF Alone
  <2>4. QED
    BY <2>2, <2>3
<1>20. QED
  BY <1>15, <1>16, <1>17, <1>18, <1>19 DEF CatalogIInv

LEMMA SaveRenameKeeps ==
  ASSUME CatalogIInv, NEW s \in Savers, SaveRename(s) PROVE CatalogIInv'
<1>1. PICK r : r = saver[s]
  OBVIOUS
<1>2. r \in Saver /\ SaverOK(s) /\ r.pc = "renaming"
  BY <1>1 DEF CatalogIInv, TypeOK, SaveRename
<1>3. PICK p \in Paths : p = r.path
  <2>1. r.path \in Paths \cup {NoPath}
    BY <1>2, SaverFields
  <2>2. QED
    BY <1>1, <1>2, <2>1 DEF SaverOK
<1>4. /\ files' \in [Paths -> File] /\ tmp' \in [Paths -> File] /\ past' \in [Paths -> SUBSET File]
      /\ \A q \in Paths : Steady(q) /\ (q # p => files'[q] = files[q] /\ tmp'[q] = tmp[q])
      /\ \/ files'[p] = tmp[p] /\ tmp'[p] = Absent /\ tmp[p] \in past'[p] /\ tmp[p].mtime # 0
         \/ files'[p] = files[p] /\ tmp'[p] = tmp[p]
  <2>1. CASE tmp[p].mtime # 0
    <3>1. Place(p, tmp[p]) /\ tmp' = [tmp EXCEPT ![p] = Absent]
      BY <1>1, <1>3, <2>1 DEF SaveRename
    <3>2. tmp[p] \in File /\ Absent \in File
      BY FileFields DEF CatalogIInv, TypeOK
    <3>3. tmp' \in [Paths -> File] /\ tmp'[p] = Absent /\ \A q \in Paths : q # p => tmp'[q] = tmp[q]
      BY <3>1, <3>2, FilesWritten DEF CatalogIInv, TypeOK
    <3>4. QED
      BY <2>1, <3>1, <3>2, <3>3, Placed DEF CatalogIInv
  <2>2. CASE tmp[p].mtime = 0
    BY <1>1, <1>3, <2>2 DEF SaveRename, CatalogIInv, TypeOK, Steady
  <2>3. QED
    BY <2>1, <2>2
<1>5. /\ saver' \in [Savers -> Saver] /\ saver'[s] = IdleSaver
      /\ \A o \in Savers : o # s => /\ saver'[o].pc = saver[o].pc /\ saver'[o].path = saver[o].path
                                    /\ saver'[o].doc = saver[o].doc
                                    /\ saver[o].path # p => saver'[o] = saver[o]
  <2>1. CASE tmp[p].mtime = 0
    <3>1. saver' = [saver EXCEPT ![s] = IdleSaver]
      BY <1>1, <1>3, <2>1 DEF SaveRename
    <3>2. QED
      BY <3>1, IdleIs DEF CatalogIInv, TypeOK
  <2>2. CASE tmp[p].mtime # 0
    <3>1. PICK moved : /\ moved = [o \in Savers |->
                            IF saver[o].path = p
                            THEN [saver[o] EXCEPT !.ino = IF @ = "tmp" THEN "path" ELSE "none"]
                            ELSE saver[o]]
                       /\ saver' = [moved EXCEPT ![s] = IdleSaver]
      BY <1>1, <1>3, <2>2 DEF SaveRename
    <3>2. ASSUME NEW o \in Savers
          PROVE  /\ moved[o] \in Saver /\ moved[o].pc = saver[o].pc /\ moved[o].path = saver[o].path
                 /\ moved[o].doc = saver[o].doc
                 /\ saver[o].path # p => moved[o] = saver[o]
      <4>1. PICK x, w : x = saver[o] /\ w = moved[o]
        OBVIOUS
      <4>2. \/ w = x
            \/ w = [x EXCEPT !.ino = "none"] /\ x.path = p
            \/ w = [x EXCEPT !.ino = "path"] /\ x.path = p
        <5>1. w = IF x.path = p THEN [x EXCEPT !.ino = IF x.ino = "tmp" THEN "path" ELSE "none"] ELSE x
          BY <3>1, <4>1, Zenon
        <5>2. PICK i \in {"path", "none"} : i = IF x.ino = "tmp" THEN "path" ELSE "none"
          OBVIOUS
        <5>3. w = IF x.path = p THEN [x EXCEPT !.ino = i] ELSE x
          BY <5>1, <5>2, Zenon
        <5>4. QED
          BY <5>3
      <4>3. x \in Saver
        BY <4>1 DEF CatalogIInv, TypeOK
      <4>4. \A i \in Inode : LET y == [x EXCEPT !.ino = i]
              IN  y \in Saver /\ y.pc = x.pc /\ y.path = x.path /\ y.doc = x.doc
        BY <4>3, SaverMoves
      <4>5. w \in Saver /\ w.pc = x.pc /\ w.path = x.path /\ w.doc = x.doc /\ (x.path # p => w = x)
        BY <4>2, <4>3, <4>4, Strings
      <4>6. QED
        BY <4>1, <4>5
    <3>3. DOMAIN moved = Savers
      BY <3>1
    <3>4. saver'[s] = IdleSaver /\ \A o \in Savers : o # s => saver'[o] = moved[o]
      BY <3>1, <3>3
    <3>5. saver' \in [Savers -> Saver]
      BY <3>1, <3>2, <3>4, IdleIs
    <3>6. QED
      BY <3>2, <3>4, <3>5
  <2>3. QED
    BY <2>1, <2>2
<1>6. ASSUME NEW q \in Paths PROVE Steady(q) /\ FileOK(q)'
  <2>1. FileOK(q) /\ Steady(q) /\ Absent.mtime = 0
    BY <1>4, FileFields DEF CatalogIInv
  <2>2. CASE q = p
    BY <1>4, <2>1, <2>2 DEF FileOK, Steady
  <2>3. CASE q # p
    BY <1>4, <2>1, <2>3 DEF FileOK, Steady
  <2>4. QED
    BY <2>1, <2>2, <2>3
<1>7. TypeOK'
  BY <1>4, <1>5, <1>6 DEF CatalogIInv, TypeOK, SaveRename
<1>8. (\A i \in Keys : EntryOK(i, cache[i]))' /\ (\A l \in Loaders : LoaderOK(loader[l]))'
  BY <1>6, DiskStep DEF SaveRename
<1>9. ASSUME NEW o \in Savers PROVE SaverOK(o)'
  <2>1. SaverOK(o)
    BY DEF CatalogIInv
  <2>2. CASE o = s
    BY <1>5, <2>2, IdleIs DEF SaverOK
  <2>3. CASE o # s
    BY <1>5, <2>1, <2>3 DEF SaverOK
  <2>4. QED
    BY <2>2, <2>3
<1>10. ASSUME NEW q \in Paths, q \notin overlapped' PROVE Alone(q)'
  <2>1. Alone(q)
    BY <1>10 DEF CatalogIInv, SaveRename
  <2>2. CASE q = p
    <3>1. tmp[p].body # Torn /\ \A o \in Savers : saver[o].path = p => o = s
      BY <1>1, <1>2, <1>3, <2>1, <2>2 DEF Alone
    <3>2. files'[p].body # Torn
      BY <1>4, <2>1, <2>2, <3>1 DEF Alone
    <3>3. \A o \in Savers : saver'[o].path # p
      BY <1>5, <3>1, IdleIs, Numbers
    <3>4. QED
      BY <2>2, <3>2, <3>3 DEF Alone
  <2>3. CASE q # p
    <3>1. \A o \in Savers : saver'[o].path = q => saver'[o] = saver[o] /\ saver[o].path = q
      BY <1>5, <2>3, IdleIs, Numbers
    <3>2. tmp'[q] = tmp[q] /\ files'[q] = files[q]
      BY <1>4, <2>3
    <3>3. QED
      BY <2>1, <3>1, <3>2 DEF Alone
  <2>4. QED
    BY <2>2, <2>3
<1>11. QED
  BY <1>6, <1>7, <1>8, <1>9, <1>10 DEF CatalogIInv
-----------------------------------------------------------------------------
(* Steps of a load *)

\* A load moves to r, and the cache may become c: the files stay.
LEMMA OneLoads ==
  ASSUME CatalogIInv, NEW l \in Loaders, NEW r \in Loader, LoaderOK(r), loader' = [loader EXCEPT ![l] = r],
         NEW c \in [Keys -> Entry], cache' = c, \A k \in Keys : EntryOK(k, c[k]),
         UNCHANGED <<files, tmp, past, writes, saver, config, overlapped, crashes>>
  PROVE  CatalogIInv'
<1>1. loader' \in [Loaders -> Loader] /\ \A o \in Loaders : loader'[o] = loader[o] \/ loader'[o] = r
  BY DEF CatalogIInv, TypeOK
<1>3. TypeOK'
  BY <1>1 DEF CatalogIInv, TypeOK
<1>4. ASSUME NEW o \in Loaders PROVE LoaderOK(loader[o])'
  <2>1. PICK x : x = loader'[o]
    OBVIOUS
  <2>2. LoaderOK(x)
    BY <1>1, <2>1 DEF CatalogIInv
  <2>3. LoaderOK(x)'
    BY <2>2 DEF LoaderOK, InScope, Passes, Known
  <2>4. QED
    BY <2>1, <2>3
<1>5. ASSUME NEW i \in Keys PROVE EntryOK(i, cache[i])'
  <2>1. PICK x : x = cache'[i]
    OBVIOUS
  <2>2. EntryOK(i, x)
    BY <2>1
  <2>3. EntryOK(i, x)'
    BY <2>2 DEF EntryOK, InScope, Passes, Known
  <2>4. QED
    BY <2>1, <2>3
<1>6. ASSUME NEW s \in Savers PROVE SaverOK(s)'
  BY DEF CatalogIInv, SaverOK
<1>7. ASSUME NEW p \in Paths PROVE FileOK(p)' /\ (p \notin overlapped' => Alone(p)')
  BY DEF CatalogIInv, FileOK, Alone
<1>8. QED
  BY <1>3, <1>4, <1>5, <1>6, <1>7 DEF CatalogIInv

LEMMA IdleIsOK == LoaderOK(IdleLoader)
  BY IdleIs DEF LoaderOK, IdleLoader

LEMMA LoadStartKeeps ==
  ASSUME CatalogIInv, NEW l \in Loaders, NEW k \in Keys, LoadStart(l, k) PROVE CatalogIInv'
<1>1. CASE Fresh(k)
  <2>1. PICK e, f : e = cache[k] /\ f = files[e.path]
    OBVIOUS
  <2>2. e \in Entry /\ EntryOK(k, e)
    BY <2>1 DEF CatalogIInv, TypeOK
  <2>3. e.path \in Paths /\ f.mtime = e.mtime
    BY <1>1, <2>1, <2>2, EntryFields DEF Fresh
  <2>4. f \in File
    BY <2>1, <2>3 DEF CatalogIInv, TypeOK
  <2>5. PICK r : r = [pc |-> "returned", key |-> k, path |-> e.path, read |-> e.read, seen |-> e.mtime,
                      raw |-> f.body, body |-> e.loaded, hit |-> TRUE]
    OBVIOUS
  <2>6. r \in Loader
    <3>1. k \in Keys \cup {NoKey} /\ TRUE \in BOOLEAN
      OBVIOUS
    <3>2. QED
      BY <2>2, <2>4, <2>5, <3>1, EntryFields, FileFields, LoaderMade, Strings
  <2>7. LoaderOK(r)
    <3>1. /\ r.pc = "returned" /\ r.key = k /\ r.path = e.path /\ r.read = e.read /\ r.seen = e.mtime
          /\ r.raw = f.body /\ r.body = e.loaded
      BY <2>5
    <3>2. InScope(k, e.path) /\ Passes(k, e.loaded) /\ Known(e.path, e.read, e.loaded)
      BY <2>2, <2>3, Numbers DEF EntryOK
    <3>3. Known(e.path, e.mtime, f.body)
      <4>1. f \in past[e.path]
        BY <1>1, <2>1, <2>3 DEF CatalogIInv, FileOK, Fresh, Exists
      <4>2. f = [mtime |-> e.mtime, body |-> f.body]
        BY <2>3, <2>4, FileIs
      <4>3. QED
        BY <4>1, <4>2 DEF Known
    <3>4. QED
      BY <2>3, <3>1, <3>2, <3>3 DEF LoaderOK
  <2>8. loader' = [loader EXCEPT ![l] = r] /\ cache' = cache
    <3>1. UNCHANGED cache
      BY <1>1 DEF LoadStart
    <3>2. loader' = [loader EXCEPT ![l] = r]
      BY <1>1, <2>1, <2>5 DEF LoadStart
    <3>3. QED
      BY <3>1, <3>2
  <2>9. PICK c : c = cache /\ c \in [Keys -> Entry] /\ \A i \in Keys : EntryOK(i, c[i])
    BY DEF CatalogIInv, TypeOK
  <2>10. QED
    BY <2>6, <2>7, <2>8, <2>9, OneLoads DEF LoadStart
<1>2. CASE ~Fresh(k)
  <2>1. PICK r : r = [pc |-> "resolving", key |-> k, path |-> NoPath, read |-> 0, seen |-> 0,
                      raw |-> NoDoc, body |-> NoDoc, hit |-> FALSE]
    OBVIOUS
  <2>2. r \in Loader /\ r.pc = "resolving" /\ r.key = k /\ ~r.hit
    <3>1. k \in Keys \cup {NoKey} /\ NoPath \in Paths \cup {NoPath} /\ FALSE \in BOOLEAN
      OBVIOUS
    <3>2. QED
      BY <2>1, <3>1, LoaderMade, Numbers, Strings
  <2>3. LoaderOK(r)
    BY <2>2 DEF LoaderOK
  <2>4. loader' = [loader EXCEPT ![l] = r] /\ cache' = [cache EXCEPT ![k] = NotCached]
    BY <1>2, <2>1 DEF LoadStart, IdleLoader
  <2>5. NotCached \in Entry /\ EntryOK(k, NotCached)
    BY EntryFields DEF EntryOK
  <2>6. PICK c : c = [cache EXCEPT ![k] = NotCached]
    OBVIOUS
  <2>7. c \in [Keys -> Entry] /\ \A i \in Keys : c[i] = cache[i] \/ (i = k /\ c[i] = NotCached)
    <3>1. cache \in [Keys -> Entry]
      BY DEF CatalogIInv, TypeOK
    <3>2. ASSUME NEW i \in Keys PROVE c[i] = (IF i = k THEN NotCached ELSE cache[i])
      BY <2>6, <3>1
    <3>3. c \in [Keys -> Entry]
      BY <2>5, <2>6, <3>1
    <3>4. QED
      BY <3>2, <3>3
  <2>8. \A i \in Keys : EntryOK(i, c[i])
    BY <2>5, <2>7 DEF CatalogIInv
  <2>9. QED
    BY <2>2, <2>3, <2>4, <2>6, <2>7, <2>8, OneLoads DEF LoadStart
<1>3. QED
  BY <1>1, <1>2

\* A step of a load that leaves the cache.
LEMMA OneMoves ==
  ASSUME CatalogIInv, NEW l \in Loaders, NEW r \in Loader, LoaderOK(r), loader' = [loader EXCEPT ![l] = r],
         UNCHANGED <<files, tmp, past, writes, cache, saver, config, overlapped, crashes>>
  PROVE  CatalogIInv'
<1>1. PICK c : c = cache /\ c \in [Keys -> Entry] /\ \A i \in Keys : EntryOK(i, c[i])
  BY DEF CatalogIInv, TypeOK
<1>2. QED
  BY <1>1, OneLoads

LEMMA LoadResolveKeeps ==
  ASSUME CatalogIInv, NEW l \in Loaders, LoadResolve(l) PROVE CatalogIInv'
<1>1. PICK r, p : r = loader[l] /\ p = ResolveCatalogPath(r.key)
  OBVIOUS
<1>2. r \in Loader /\ r.pc = "resolving" /\ r.key \in Keys /\ ~r.hit
  BY <1>1 DEF CatalogIInv, TypeOK, LoaderOK, LoadResolve
<1>3. CASE p = NoPath
  <2>1. loader' = [loader EXCEPT ![l] = IdleLoader]
    BY <1>1, <1>3 DEF LoadResolve
  <2>2. QED
    BY <2>1, IdleIs, IdleIsOK, OneMoves DEF LoadResolve
<1>4. CASE p # NoPath
  <2>1. p \in Paths /\ InScope(r.key, p)
    BY <1>1, <1>2, <1>4, ResolvedIs
  <2>2. PICK w : w = Reading(r, p)
    OBVIOUS
  <2>5. w \in Loader /\ w.pc = "reading" /\ w.key = r.key /\ w.path = p /\ w.hit = r.hit
    BY <1>2, <2>1, <2>2, ToReading
  <2>6. LoaderOK(w)
    BY <1>2, <2>1, <2>5 DEF LoaderOK
  <2>7. loader' = [loader EXCEPT ![l] = w]
    BY <1>1, <1>4, <2>2 DEF LoadResolve, CatalogIInv, TypeOK, Reading
  <2>8. QED
    BY <2>5, <2>6, <2>7, OneMoves DEF LoadResolve
<1>5. QED
  BY <1>3, <1>4

\* A document that is read and let through passes.
LEMMA ReadPasses ==
  ASSUME TypeOK, NEW k \in Keys, NEW p \in Paths, Readable(p, KeyAt[k].base),
         \/ config.degraded
         \/ FloorAllows(config.floor, LoadedBase(Prepared(files[p].body), KeyAt[k].base)),
         FileOK(p)
  PROVE  Passes(k, files[p].body)
<1>1. PICK n, b, want : n = files[p].body /\ want = KeyAt[k].base /\ b = LoadedBase(Prepared(n), want)
  OBVIOUS
<1>2. n \in Parsed
  BY <1>1, FileFields, Numbers DEF Readable, Exists, FileOK, TypeOK
<1>3. Shaped(n) \in Documents /\ want \in Bases /\ config.floor \in [maj : Nat, min : Nat]
  BY <1>1, <1>2, ShapedIs, CatalogAssumption DEF TypeOK
<1>4. PICK h : h = Prepared(n)
  OBVIOUS
<1>5. h.lineage \in Bases /\ h.base \in Bases
  <2>1. Shaped(n).lineage \in Bases /\ Shaped(n).base \in Bases
    BY <1>3, DocumentIs
  <2>2. QED
    BY <1>3, <1>4, <2>1, HealIs DEF Prepared
<1>6. b \in Bases
  BY <1>1, <1>3, <1>4, <1>5 DEF LoadedBase, DocumentBaseID
<1>7. want # NoBase => h.lineage = want
  BY <1>1, <1>4 DEF Readable, CheckLineage
<1>8. ~config.degraded /\ RanksAsVersion(config.floor) => b = NoBase \/ AtLeast(config.floor, FloorRequired(b))
  BY <1>1, <1>3, <1>6, FloorIs
<1>9. QED
  BY <1>1, <1>2, <1>4, <1>7, <1>8 DEF Passes

LEMMA LoadReadKeeps ==
  ASSUME CatalogIInv, NEW l \in Loaders, LoadRead(l) PROVE CatalogIInv'
<1>1. PICK r, f, want : r = loader[l] /\ f = files[r.path] /\ want = KeyAt[r.key].base
  OBVIOUS
<1>2. r \in Loader /\ LoaderOK(r) /\ r.pc = "reading"
  BY <1>1 DEF CatalogIInv, TypeOK, LoadRead
<1>3. r.key \in Keys /\ r.path \in Paths /\ InScope(r.key, r.path)
  BY <1>2 DEF LoaderOK
<1> DEFINE through == /\ Readable(r.path, want)
                      /\ config.degraded \/ FloorAllows(config.floor, LoadedBase(Prepared(f.body), want))
<1>4. CASE ~through
  <2>1. loader' = [loader EXCEPT ![l] = IdleLoader]
    BY <1>1, <1>4 DEF LoadRead
  <2>2. QED
    BY <2>1, IdleIs, IdleIsOK, OneMoves DEF LoadRead
<1>5. CASE through
  <2>1. f \in File /\ f.mtime # 0 /\ FileOK(r.path)
    BY <1>1, <1>3, <1>5 DEF CatalogIInv, TypeOK, Readable, Exists
  <2>2. PICK w : w = Remembering(r, f.body, f.mtime)
    OBVIOUS
  <2>4. f.mtime \in Nat /\ f.body \in Bodies
    BY <2>1, FileFields
  <2>5. /\ w \in Loader /\ w.pc = "remembering" /\ w.key = r.key /\ w.path = r.path /\ w.read = f.mtime
        /\ w.body = f.body /\ w.hit = r.hit
    BY <1>2, <2>2, <2>4, ToRemembering
  <2>6. Passes(r.key, f.body)
    BY <1>1, <1>3, <1>5, <2>1, ReadPasses DEF CatalogIInv
  <2>7. Known(r.path, f.mtime, f.body)
    BY <1>1, <2>1, FileIs DEF Known, FileOK
  <2>8. LoaderOK(w)
    BY <1>2, <1>3, <2>5, <2>6, <2>7 DEF LoaderOK
  <2>9. loader' = [loader EXCEPT ![l] = w]
    BY <1>1, <1>5, <2>2 DEF LoadRead, Remembering
  <2>10. QED
    BY <2>5, <2>8, <2>9, OneMoves DEF LoadRead
<1>6. QED
  BY <1>4, <1>5

LEMMA RememberStatKeeps ==
  ASSUME CatalogIInv, NEW l \in Loaders, RememberStat(l) PROVE CatalogIInv'
<1>1. PICK r, f : r = loader[l] /\ f = files[r.path]
  OBVIOUS
<1>2. r \in Loader /\ LoaderOK(r) /\ r.pc = "remembering"
  BY <1>1 DEF CatalogIInv, TypeOK, RememberStat
<1>3. loader \in [Loaders -> Loader]
  BY DEF CatalogIInv, TypeOK
<1>4. CASE Exists(r.path)
  <2>1. PICK w : w = Storing(r, f.mtime)
    OBVIOUS
  <2>2. f.mtime \in Nat
    <3>1. r.path \in Paths
      BY <1>2 DEF LoaderOK
    <3>2. QED
      BY <1>1, <3>1, FileFields DEF CatalogIInv, TypeOK
  <2>3. /\ w \in Loader /\ w.pc = "storing" /\ w.key = r.key /\ w.path = r.path
        /\ w.read = r.read /\ w.body = r.body /\ w.hit = r.hit
    BY <1>2, <2>1, <2>2, ToStoring
  <2>4. LoaderOK(w)
    BY <1>2, <2>3 DEF LoaderOK
  <2>5. loader' = [loader EXCEPT ![l].pc = "storing", ![l].seen = f.mtime]
    BY <1>1, <1>4 DEF RememberStat
  <2>6. loader' = [loader EXCEPT ![l] = w]
    BY <1>1, <1>2, <1>3, <2>1, <2>5 DEF Storing
  <2>7. QED
    BY <2>3, <2>4, <2>6, OneMoves DEF RememberStat
<1>5. CASE ~Exists(r.path)
  <2>1. PICK w : w = [r EXCEPT !.pc = "returned"]
    OBVIOUS
  <2>2. /\ w \in Loader /\ w.pc = "returned" /\ w.key = r.key /\ w.path = r.path
        /\ w.body = r.body /\ w.hit = r.hit
    BY <1>2, <2>1, ToReturned
  <2>3. LoaderOK(w)
    BY <1>2, <2>2 DEF LoaderOK
  <2>4. loader' = [loader EXCEPT ![l] = w]
    BY <1>1, <1>3, <1>5, <2>1 DEF RememberStat
  <2>5. QED
    BY <2>2, <2>3, <2>4, OneMoves DEF RememberStat
<1>6. QED
  BY <1>4, <1>5

LEMMA RememberStoreKeeps ==
  ASSUME CatalogIInv, NEW l \in Loaders, RememberStore(l) PROVE CatalogIInv'
<1>1. PICK r, k : r = loader[l] /\ k = r.key
  OBVIOUS
<1>2. r \in Loader /\ LoaderOK(r) /\ r.pc = "storing"
  BY <1>1 DEF CatalogIInv, TypeOK, RememberStore
<1>3. loader \in [Loaders -> Loader] /\ cache \in [Keys -> Entry]
  BY DEF CatalogIInv, TypeOK
<1>4. k \in Keys /\ r.path \in Paths /\ InScope(k, r.path) /\ Passes(k, r.body)
      /\ Known(r.path, r.read, r.body)
  BY <1>1, <1>2 DEF LoaderOK
<1>5. PICK w, e : /\ w = [r EXCEPT !.pc = "returned"]
                  /\ e = [path |-> r.path, mtime |-> r.seen, loaded |-> r.body, read |-> r.read]
  OBVIOUS
<1>6. /\ w \in Loader /\ w.pc = "returned" /\ w.key = r.key /\ w.path = r.path
      /\ w.body = r.body /\ w.hit = r.hit
  BY <1>2, <1>5, ToReturned
<1>7. LoaderOK(w)
  BY <1>2, <1>6 DEF LoaderOK
<1>8. e \in Entry
  <2>1. r.seen \in Nat /\ r.body \in Bodies /\ r.read \in Nat
    BY <1>2, LoaderFields
  <2>2. QED
    BY <1>4, <1>5, <2>1 DEF Entry
<1>9. EntryOK(k, e)
  BY <1>4, <1>5 DEF EntryOK
<1>10. PICK c : c = [cache EXCEPT ![k] = e]
  OBVIOUS
<1>11. c \in [Keys -> Entry]
  BY <1>3, <1>8, <1>10
<1>12. ASSUME NEW i \in Keys PROVE EntryOK(i, c[i])
  <2>1. c[i] = IF i = k THEN e ELSE cache[i]
    BY <1>3, <1>10
  <2>2. QED
    BY <1>9, <2>1 DEF CatalogIInv
<1>13. loader' = [loader EXCEPT ![l] = w] /\ cache' = c
  BY <1>1, <1>3, <1>5, <1>10 DEF RememberStore
<1>14. QED
  BY <1>6, <1>7, <1>11, <1>12, <1>13, OneLoads DEF RememberStore

LEMMA LoadDoneKeeps ==
  ASSUME CatalogIInv, NEW l \in Loaders, LoadDone(l) PROVE CatalogIInv'
  BY IdleIs, IdleIsOK, OneMoves DEF LoadDone

LEMMA CrashKeeps ==
  ASSUME CatalogIInv, Crash PROVE CatalogIInv'
<1>1. /\ cache' = [k \in Keys |-> NotCached] /\ loader' = [l \in Loaders |-> IdleLoader]
      /\ saver' = [s \in Savers |-> IdleSaver]
      /\ UNCHANGED <<files, tmp, past, writes, config, overlapped>>
  BY DEF Crash
<1>2. cache' \in [Keys -> Entry] /\ loader' \in [Loaders -> Loader] /\ saver' \in [Savers -> Saver]
  BY <1>1, EntryFields, IdleIs
<1>3. crashes' \in 0..MaxCrashes
  <2>1. crashes \in 0..MaxCrashes /\ MaxCrashes \in Nat
    BY CatalogAssumption DEF CatalogIInv, TypeOK
  <2>2. QED
    BY <2>1 DEF Crash
<1>4. TypeOK'
  BY <1>1, <1>2, <1>3 DEF CatalogIInv, TypeOK
<1>5. ASSUME NEW k \in Keys PROVE EntryOK(k, cache[k])'
  BY <1>1, EntryFields DEF EntryOK
<1>6. ASSUME NEW l \in Loaders PROVE LoaderOK(loader[l])'
  BY <1>1, IdleIs DEF LoaderOK, IdleLoader
<1>7. ASSUME NEW s \in Savers PROVE SaverOK(s)'
  BY <1>1, IdleIs DEF SaverOK
<1>8. ASSUME NEW p \in Paths PROVE FileOK(p)' /\ (p \notin overlapped' => Alone(p)')
  <2>1. FileOK(p)' /\ (p \notin overlapped' => files'[p].body # Torn)
    BY <1>1 DEF CatalogIInv, FileOK, Alone
  <2>2. \A s \in Savers : saver'[s].path # p
    BY <1>1, IdleIs, Numbers
  <2>3. QED
    BY <2>1, <2>2 DEF Alone
<1>9. QED
  BY <1>4, <1>5, <1>6, <1>7, <1>8 DEF CatalogIInv
-----------------------------------------------------------------------------
(* The theorems *)

LEMMA InitIsOK == ASSUME Init PROVE CatalogIInv
<1>1. /\ files = [p \in Paths |-> Absent] /\ tmp = [p \in Paths |-> Absent] /\ past = [p \in Paths |-> {}]
      /\ cache = [k \in Keys |-> NotCached] /\ loader = [l \in Loaders |-> IdleLoader]
      /\ saver = [s \in Savers |-> IdleSaver] /\ overlapped = {}
  BY DEF Init
<1>2. ASSUME NEW p \in Paths PROVE FileOK(p) /\ Alone(p)
  <2>1. files[p] = Absent /\ tmp[p] = Absent
    BY <1>1
  <2>2. \A s \in Savers : saver[s].path # p
    BY <1>1, IdleIs, Numbers
  <2>3. QED
    BY <2>1, <2>2, FileFields, Numbers DEF FileOK, Alone
<1>3. TypeOK
  <2>1. files \in [Paths -> File] /\ tmp \in [Paths -> File] /\ past \in [Paths -> SUBSET File]
    BY <1>1, FileFields
  <2>2. cache \in [Keys -> Entry] /\ loader \in [Loaders -> Loader] /\ saver \in [Savers -> Saver]
    BY <1>1, EntryFields, IdleIs
  <2>3. crashes \in 0..MaxCrashes /\ writes \in 0..MaxWrites
    <3>1. MaxCrashes \in Nat /\ MaxWrites \in Nat
      BY CatalogAssumption, Zenon
    <3>2. crashes = 0 /\ writes = 0
      BY DEF Init
    <3>3. QED
      BY <3>1, <3>2
  <2>4. QED
    BY <1>1, <2>1, <2>2, <2>3 DEF TypeOK, Init
<1>4. ASSUME NEW k \in Keys PROVE EntryOK(k, cache[k])
  BY <1>1, EntryFields DEF EntryOK
<1>5. ASSUME NEW l \in Loaders PROVE LoaderOK(loader[l])
  BY <1>1, IdleIsOK
<1>6. ASSUME NEW s \in Savers PROVE SaverOK(s)
  BY <1>1, IdleIs DEF SaverOK
<1>7. QED
  BY <1>2, <1>3, <1>4, <1>5, <1>6 DEF CatalogIInv

LEMMA StutterKeeps == ASSUME CatalogIInv, UNCHANGED vars PROVE CatalogIInv'
<1> USE DEF vars
<1>1. TypeOK'
  BY DEF CatalogIInv, TypeOK
<1>2. ASSUME NEW k \in Keys PROVE EntryOK(k, cache[k])'
  BY DEF CatalogIInv, EntryOK, InScope, Passes, Known
<1>3. ASSUME NEW l \in Loaders PROVE LoaderOK(loader[l])'
  BY DEF CatalogIInv, LoaderOK, InScope, Passes, Known
<1>4. ASSUME NEW s \in Savers PROVE SaverOK(s)'
  BY DEF CatalogIInv, SaverOK
<1>5. ASSUME NEW p \in Paths PROVE FileOK(p)' /\ (p \notin overlapped' => Alone(p)')
  BY DEF CatalogIInv, FileOK, Alone
<1>6. QED
  BY <1>1, <1>2, <1>3, <1>4, <1>5 DEF CatalogIInv

\* Every step of files, saves, loads and crashes keeps the inductive invariant.
LEMMA NextKeeps == ASSUME CatalogIInv, [Next]_vars PROVE CatalogIInv'
<1>1. ASSUME NEW p \in Paths, Unlink(p) PROVE CatalogIInv'
  BY <1>1, UnlinkKeeps
<1>2. ASSUME NEW p \in Paths, NEW n \in Parsed, NEW t \in Times, Put(p, n, t) PROVE CatalogIInv'
  BY <1>2, PutKeeps
<1>3. ASSUME NEW s \in Savers, NEW k \in SavedKeys, NEW d \in DOMAIN Doc, NEW t \in Times, SaveOpen(s, k, d, t)
      PROVE  CatalogIInv'
  BY <1>3, SaveOpenKeeps
<1>4. ASSUME NEW s \in Savers, NEW whole \in BOOLEAN, NEW t \in Times, SaveWrite(s, whole, t) PROVE CatalogIInv'
  BY <1>4, SaveWriteKeeps
<1>5. ASSUME NEW s \in Savers, SaveRename(s) PROVE CatalogIInv'
  BY <1>5, SaveRenameKeeps
<1>6. ASSUME NEW l \in Loaders, NEW k \in Keys, LoadStart(l, k) PROVE CatalogIInv'
  BY <1>6, LoadStartKeeps
<1>7. ASSUME NEW l \in Loaders, LoadResolve(l) \/ LoadRead(l) \/ RememberStat(l) \/ RememberStore(l) \/ LoadDone(l)
      PROVE  CatalogIInv'
  BY <1>7, LoadResolveKeeps, LoadReadKeeps, RememberStatKeeps, RememberStoreKeeps, LoadDoneKeeps
<1>8. ASSUME Crash PROVE CatalogIInv'
  BY <1>8, CrashKeeps
<1>9. QED
  BY <1>1, <1>2, <1>3, <1>4, <1>5, <1>6, <1>7, <1>8, StutterKeeps DEF Next

LEMMA CatalogIsInductive == Spec => []CatalogIInv
<1>1. Init => CatalogIInv
  BY InitIsOK
<1>2. CatalogIInv /\ [Next]_vars => CatalogIInv'
  BY NextKeeps
<1>3. QED
  BY <1>1, <1>2, PTL DEF Spec

\* What a load returns passed every check, and its stamp is true.
LEMMA ReturnedIsSound == ASSUME CatalogIInv PROVE LoadFailsClosed /\ StampStaysTrue /\ HitIsTheFile
<1>1. ASSUME NEW l \in Returned
      PROVE  /\ LoaderOK(loader[l]) /\ loader[l].pc = "returned" /\ loader[l].key \in Keys
             /\ InScope(loader[l].key, loader[l].path) /\ Passes(loader[l].key, loader[l].body)
  BY DEF CatalogIInv, Returned, LoaderOK
<1>2. LoadFailsClosed
  <2> SUFFICES ASSUME NEW l \in Returned, NEW r, r = loader[l], NEW key, key = KeyAt[r.key]
               PROVE  /\ r.body # Torn
                      /\ key.mode.to = "" => PathAt[r.path].loc.sub \in {"", Subdir(key.scope)}
                      /\ key.base # NoBase => Prepared(r.body).lineage = key.base
                      /\ ~config.degraded /\ RanksAsVersion(config.floor) =>
                           LET b == LoadedBase(Prepared(r.body), key.base)
                           IN  b = NoBase \/ AtLeast(config.floor, FloorRequired(b))
    BY DEF LoadFailsClosed
  <2>1. InScope(r.key, r.path) /\ Passes(r.key, r.body)
    BY <1>1
  <2>2. r.body # Torn
    BY <2>1, Numbers DEF Passes
  <2>3. QED
    BY <2>1, <2>2 DEF InScope, Passes
<1>3. StampStaysTrue
  <2>1. ASSUME NEW l \in Returned, NEW n, n = loader[l].body, NEW raw, raw = Shaped(n),
               OwnStamp(raw) = ComputeContractHash(raw)
        PROVE  /\ Bind(Prepared(n), NoHash) = ComputeContractHash(Prepared(n))
               /\ Bind(MergeScopeBrief(Prepared(n)), NoHash) =
                    ResolveSessionContractHash(NoHash, NoHash,
                      ComputeContractHash(MergeScopeBrief(Prepared(n))))
    <3>1. raw \in Documents
      BY <1>1, <2>1, ShapedIs DEF Passes
    <3>2. QED
      BY <2>1, <3>1, StampHolds DEF Prepared
  <2>2. ASSUME NEW n, NEW raw, raw = Shaped(n), ExtractStampedHash(raw) \notin {NoHash, ComputeContractHash(raw)}
        PROVE  /\ ExtractStampedHash(Prepared(n)) = ExtractStampedHash(raw)
               /\ ExtractStampedHash(Prepared(n)) # ComputeContractHash(Prepared(n))
    <3>1. Prepared(n) = raw
      BY <2>2, WrongStays DEF Prepared
    <3>2. QED
      BY <2>2, <3>1
  <2>3. QED
    BY <2>1, <2>2 DEF StampStaysTrue
<1>4. HitIsTheFile
  <2> SUFFICES ASSUME NEW l \in Returned, NEW r, r = loader[l], r.hit, r.read = r.seen, TimesTellApart(r.path)
               PROVE  r.body = r.raw
    BY DEF HitIsTheFile
  <2>1. Known(r.path, r.read, r.body) /\ Known(r.path, r.seen, r.raw)
    BY <1>1 DEF LoaderOK
  <2>2. PICK f, g \in past[r.path] : /\ f = [mtime |-> r.read, body |-> r.body]
                                      /\ g = [mtime |-> r.seen, body |-> r.raw]
    BY <2>1 DEF Known
  <2>3. f.mtime = r.read /\ f.body = r.body /\ g.mtime = r.seen /\ g.body = r.raw
    BY <2>2
  <2>4. f = g
    BY <2>3 DEF TimesTellApart
  <2>5. QED
    BY <2>3, <2>4
<1>5. QED
  BY <1>2, <1>3, <1>4

\* Any number of loads, saves, crashes and replaced files, any floor and any mode: what Load
\* returns is a whole document of the scope (unless the mode has separators), of the lineage asked
\* for and within the floor (unless it is one below 6 with a minor part); its own stamp stays right
\* or wrong as it was, and the file a Load would take is one that List shows.
THEOREM LoadsAreSafe == Spec => []CatalogInv
<1>1. ASSUME CatalogIInv PROVE CatalogInv
  <2>1. TypeOK
    BY <1>1 DEF CatalogIInv
  <2>2. LoadFailsClosed /\ StampStaysTrue
    BY <1>1, ReturnedIsSound
  <2>3. LoadableIsListed
    BY ResolvedIs DEF LoadableIsListed
  <2>4. QED
    BY <2>1, <2>2, <2>3 DEF CatalogInv
<1>2. QED
  BY <1>1, CatalogIsInductive, PTL

\* A catalog file is whole through every crash in a save, unless two saves of its path overlapped.
THEOREM FilesStayWhole == Spec => []TornOnlyByOverlap
<1>1. ASSUME CatalogIInv PROVE TornOnlyByOverlap
  BY <1>1 DEF CatalogIInv, Alone, TornOnlyByOverlap
<1>2. QED
  BY <1>1, CatalogIsInductive, PTL

\* Whatever times files are given: a hit of the cache is the text of the file, unless two texts of
\* that path had one file time or the file was replaced between the read and the os.Stat of the
\* load that stored it.
THEOREM HitsAreTheFile == Spec => []HitIsTheFile
<1>1. ASSUME CatalogIInv PROVE HitIsTheFile
  BY <1>1, ReturnedIsSound
<1>2. QED
  BY <1>1, CatalogIsInductive, PTL
=============================================================================
