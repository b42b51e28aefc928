------------------------------ MODULE Contract ------------------------------
(***************************************************************************)
(* Chat requests as the contract sees them: src/domain/contract.go,        *)
(* src/domain/catalog.go, src/domain/floor.go and the bind of              *)
(* src/api/catalog.go.                                                     *)
(*                                                                         *)
(* A document has locked content (one id stands for all of it), two system *)
(* prompt surfaces that may end in white space (ws) or carry a brief or a  *)
(* mini schema behind a marker (brief), stamps of the Hub, and a lineage.  *)
(* The MD5 of a document is taken to be injective on what it covers, and to*)
(* have no fixed point: the key hash is covered, so a stamp there is never *)
(* the hash of the document it is in.                                      *)
(***************************************************************************)
EXTENDS Integers

\* messages[0].content and instructions.system_prompt
Surfaces == {"message", "prompt"}

NoHash == [id |-> 0, ws |-> {}]
ToBeFilled == [id |-> -1, ws |-> {}]

\* Where a stamp may be: three keys of the document, and the wrappers stamped_chat_request and
\* stamped, of which the first that has a real stamp counts.
Places == {"contract", "_hash", "hash", "wrapped"}

\* Base ids: base-<maj>.<min>, cus-... (and base- with what is no version), others, or none.
Bases == [fam : {"", "base", "cus", "other"}, maj : Nat, min : Nat]
NoBase == [fam |-> "", maj |-> 0, min |-> 0]
-----------------------------------------------------------------------------
\* ComputeContractHash: stamps and lineage are left out, and of a surface with a
\* marker all that comes after it, with the white space before it.
ComputeContractHash(doc) == [id |-> doc.id, ws |-> doc.ws \ doc.brief]

Documents ==
  {d \in [id : Int \ {NoHash.id, ToBeFilled.id}, ws : SUBSET Surfaces, brief : SUBSET Surfaces,
          stamps : [Places -> [id : Int, ws : SUBSET Surfaces]], lineage : Bases, base : Bases] :
     d.stamps["hash"] # ComputeContractHash(d)}

RealHash(h) == IF h = ToBeFilled THEN NoHash ELSE h

\* The stamp of a document's own: contract.hash first, then _hash, then hash.
OwnStamp(doc) ==
  LET real(s) == RealHash(doc.stamps[s])
  IN  IF real("contract") # NoHash THEN real("contract")
      ELSE IF real("_hash") # NoHash THEN real("_hash") ELSE real("hash")

\* ExtractStampedHash: the document's own stamp, else that of a wrapper.
ExtractStampedHash(doc) ==
  IF OwnStamp(doc) # NoHash THEN OwnStamp(doc) ELSE RealHash(doc.stamps["wrapped"])

\* rstripSystemPromptSurfaces: surfaces with a marker stay as they are.
RstripSurfaces(doc) == [doc EXCEPT !.ws = @ \cap doc.brief]

\* rewriteEmbeddedHash: a wrapper keeps its stamp.
RewriteEmbeddedHash(doc, old, new) ==
  [doc EXCEPT !.stamps = [s \in DOMAIN @ |-> IF s # "wrapped" /\ @[s] = old THEN new ELSE @[s]]]

\* Mutant: the white space goes, the stamp stays.
HealTrailingWSStampDrift_KeepStamp(doc) ==
  IF ExtractStampedHash(doc) = ComputeContractHash(doc) THEN RstripSurfaces(doc) ELSE doc

\* HealTrailingWSStampDrift: only a stamp that was right is moved to the stripped text.
HealTrailingWSStampDrift(doc) ==
  LET stamped == ExtractStampedHash(doc)
      norm == RstripSurfaces(doc)
  IN  IF \/ stamped = NoHash \/ stamped # ComputeContractHash(doc)
         \/ norm = doc \/ ComputeContractHash(norm) = stamped
      THEN doc
      ELSE RewriteEmbeddedHash(norm, stamped, ComputeContractHash(norm))

\* MergeScopeBrief: each surface without a marker is trimmed and gets the brief.
MergeScopeBrief(doc) == [doc EXCEPT !.ws = @ \cap doc.brief, !.brief = Surfaces]

\* Bind: the stamp of the document, else the binding of the configuration; NoHash
\* stands for the error "invent forbidden".
Bind(doc, bound) ==
  IF ExtractStampedHash(doc) # NoHash THEN ExtractStampedHash(doc) ELSE RealHash(bound)

\* ResolveSessionContractHash: what goes to /v2/session is the hash of the payload.
ResolveSessionContractHash(bound, stamped, payload) ==
  IF payload # NoHash THEN payload ELSE IF stamped # NoHash THEN stamped ELSE bound
-----------------------------------------------------------------------------
(* Lineage and floors *)

DocumentBaseID(doc) == IF doc.lineage # NoBase THEN doc.lineage ELSE doc.base

\* CheckLineage with requireLineage, as Load calls it.
CheckLineage(doc, want) == want.fam \in {"base", "cus"} /\ doc.lineage = want

\* EnrichLoaded: the base id of a loaded catalog.
LoadedBase(doc, want) == IF want # NoBase THEN want ELSE DocumentBaseID(doc)

\* floorRankTable: the floors that a base may require.
Floors == {[maj |-> 1, min |-> 0], [maj |-> 4, min |-> 0], [maj |-> 5, min |-> 0],
           [maj |-> 6, min |-> 0], [maj |-> 6, min |-> 1]}

DefaultFloor == [maj |-> 5, min |-> 0]

\* FloorRank: 6.1 is 61, and a floor without a minor version is its major.  What is no
\* version ranks as DefaultFloor.
FloorRank(f) == IF f.min # 0 THEN f.maj * 10 + f.min ELSE f.maj

\* FloorRequiredForBaseID
FloorRequired(b) ==
  CASE b.fam # "base"            -> DefaultFloor
    [] b.fam = "base" /\ b.maj <= 1 -> [maj |-> 1, min |-> 0]
    [] b.fam = "base" /\ b.maj \in 2..4 -> [maj |-> 4, min |-> 0]
    [] b.fam = "base" /\ b.maj = 5 -> [maj |-> 5, min |-> 0]
    [] b.fam = "base" /\ b.maj = 6 /\ b.min >= 1 -> [maj |-> 6, min |-> 1]
    [] OTHER                     -> [maj |-> 6, min |-> 0]

\* FloorViolation = nil
FloorAllows(f, b) == b = NoBase \/ FloorRank(f) >= FloorRank(FloorRequired(b))

\* The order of versions, which the ranks stand for.
AtLeast(f, g) == f.maj > g.maj \/ (f.maj = g.maj /\ f.min >= g.min)

\* A version below 6 with a minor part ranks in the tens: 5.5 above 6.
RanksAsVersion(f) == f.min = 0 \/ f.maj >= 6
=============================================================================
