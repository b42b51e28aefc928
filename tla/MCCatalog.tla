----------------------------- MODULE MCCatalog ------------------------------
(* A small instance of Catalog for TLC. *)
EXTENDS Catalog, TLC

CONSTANTS l1, l2, s1, s2

Base61 == [fam |-> "base", maj |-> 6, min |-> 1]
Base5 == [fam |-> "base", maj |-> 5, min |-> 0]

Mode(name) == [name |-> name, single |-> TRUE, to |-> ""]
Analytics == Mode("analytics")

\* The mode x/../../bucket__b/chat_request_analytics.
ToSibling == [name |-> "chat_request_analytics", single |-> FALSE, to |-> "bucket__b"]

ScopeA == [under |-> TRUE, tail |-> "a"]
ScopeB == [under |-> FALSE, tail |-> "b"]
Path(root, sub, name) == [loc |-> Dir(root, sub, FALSE), name |-> name]
V2 == ChatRequestFilename(Analytics, NoBase)
OfBase61 == ChatRequestFilename(Analytics, Base61)

\* The scope's own two and its manifest, the sibling's, a general and a bundled one.
MCPathAt == << Path("user", Subdir(ScopeA), V2), Path("user", Subdir(ScopeA), OfBase61),
               Path("user", Subdir(ScopeB), OfBase61), Path("user", Subdir(ScopeA), ManifestName),
               Path("user", "", V2), Path("bundled", "", V2) >>

MCKeyAt == << [mode |-> Analytics, scope |-> ScopeA, base |-> NoBase],
              [mode |-> Analytics, scope |-> ScopeA, base |-> Base61],
              [mode |-> ToSibling, scope |-> ScopeA, base |-> Base61],
              [mode |-> Mode("manifest"), scope |-> ScopeA, base |-> NoBase] >>

Stamped(contract, hash, wrapped) ==
  [s \in Places |-> CASE s = "contract" -> contract [] s = "_hash" -> hash
                      [] s = "wrapped" -> wrapped [] OTHER -> NoHash]

\* Stamped with trailing white space, of base 6.1; stamped for another text, of base 5 and with
\* a brief in it, in a wrapper that has the right stamp.
MCDoc ==
  << [id |-> 1, ws |-> {"message"}, brief |-> {},
      stamps |-> Stamped(ToBeFilled, [id |-> 1, ws |-> {"message"}], NoHash),
      lineage |-> Base61, base |-> NoBase],
     [id |-> 2, ws |-> {"prompt"}, brief |-> {"message"},
      stamps |-> Stamped([id |-> 1, ws |-> {}], NoHash, [id |-> 2, ws |-> {"prompt"}]),
      lineage |-> NoBase, base |-> Base5] >>

\* A client below base 6.1, which refuses it or lets it through.
MCConfigs == {[floor |-> [maj |-> 6, min |-> 0], degraded |-> d] : d \in BOOLEAN}

Symmetry == Permutations(Loaders) \cup Permutations(Savers)
=============================================================================
