--------------------------- MODULE CatalogMatching --------------------------
(***************************************************************************)
(* Which catalog product a detected tool is (apps/catalog/matching.py,     *)
(* with normalization.py and the unique identifiers of models.py).         *)
(*                                                                         *)
(* A raw value is a name, its letters and a dot at its end; blanks around  *)
(* it are dropped by every normalizer and are left out.  Urls, whose       *)
(* classes are the same, are left out too.                                 *)
(***************************************************************************)
EXTENDS FiniteSets, FiniteSetsExt, Sequences

\* MATCH_PRIORITY; a type that is not here is not matched by
Priority ==
  [microsoft_app_id |-> 1, google_client_id |-> 1, hostname |-> 2, domain |-> 2,
   oauth_client_id |-> 3, product_name |-> 4]

Types == DOMAIN Priority

\* the name of a raw value of blanks only
Blank == "blank"

\* canonicalize raises no IdentifierNormalizationError
Normalizes(type, raw) ==
  raw.name # Blank /\ (type = "microsoft_app_id" => ~raw.dotted)

Canonicalize(type, raw) ==
  CASE type \in {"google_client_id", "oauth_client_id"} -> raw
    [] type \in {"microsoft_app_id", "product_name"} -> [raw EXCEPT !.cased = FALSE]
    [] type \in {"hostname", "domain"} -> [raw EXCEPT !.cased = FALSE, !.dotted = FALSE]

\* ProductIdentifier.save
Identifier(type, raw, scope, product, verified) ==
  [type |-> type, canonical |-> Canonicalize(type, raw), scope |-> scope,
   product |-> product, verified |-> verified]

\* unique_catalog_identifier, no scope being a scope as any other
Unique(catalog) ==
  \A i, j \in catalog :
    <<i.type, i.canonical, i.scope>> = <<j.type, j.canonical, j.scope>> => i = j

Identifies(i, candidate) ==
  /\ i.type = candidate.type /\ i.scope = candidate.scope
  /\ i.canonical = Canonicalize(candidate.type, candidate.raw)
  /\ i.verified

Usable(candidate) ==
  candidate.type \in Types /\ Normalizes(candidate.type, candidate.raw)

\* the products the candidates of one priority identify
Identified(catalog, candidates, priority) ==
  {i.product : i \in {j \in catalog : \E c \in candidates :
     Usable(c) /\ Priority[c.type] = priority /\ Identifies(j, c)}}

\* mutant of Deciding: the weakest priority that identifies anything decides
DecidingWeakest(priorities) == Max(priorities)

Deciding(priorities) == Min(priorities)

MatchProduct(catalog, candidates) ==
  LET priorities == {p \in 1..4 : Identified(catalog, candidates, p) # {}}
      found == Identified(catalog, candidates, Deciding(priorities))
  IN  CASE priorities = {} -> [status |-> "unknown"]
        [] priorities # {} /\ Cardinality(found) = 1 ->
             [status |-> "known", product |-> CHOOSE p \in found : TRUE]
        [] OTHER -> [status |-> "review"]

=============================================================================
