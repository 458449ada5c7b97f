------------------------------ MODULE WikiLint ------------------------------
(***************************************************************************)
(* The page rules of wiki-lint (wiki_lint.py) as functions of the pages    *)
(* and the claims; its contradiction rule is in WikiSteward.  A page is    *)
(*   [place: its folder under domains/, or "shared" outside of them,       *)
(*    domain: what its frontmatter says, or "", name: the slug of its file *)
(*    name, links: the slugs it links to, confidence, age: days since it   *)
(*    was written, declared: the claim_ids of its frontmatter, expired:    *)
(*    t_valid_to is past, successor: there is a superseded_by],            *)
(* the pages are a sequence in the order of their paths, and a claim is    *)
(* [id, page: the number of its target, open].  What a domain says of the  *)
(* rules (domain_schemas.py) is a record [stale: its days, overrides: the  *)
(* severity it gives a rule, or "skip"].                                   *)
(***************************************************************************)
EXTENDS Integers, Sequences, FiniteSets, TLC

AbandonedAfter == 180
DefaultStale == 30

\* Mutant: a lint of one domain forgets the pages that belong to none.
LoadPagesOfDomain(pages, domain) == {n \in DOMAIN pages : domain \in {"all", pages[n].place}}

\* A lint of one domain reads its pages and those outside of every domain.
LoadPages(pages, domain) == {n \in DOMAIN pages : domain = "all" \/ pages[n].place \in {domain, "shared"}}

-----------------------------------------------------------------------------
(* DOMAIN_SCHEMAS. *)

Says(days, overrides) == [stale |-> days, overrides |-> overrides]

KnowledgeDomains ==
    [research |-> Says(730, "broken_cross_ref" :> "high" @@ "missing_concept" :> "medium"),
     engineering |-> Says(180, "data_gap" :> "medium"),
     photography |-> Says(365, "broken_cross_ref" :> "high" @@ "data_gap" :> "low"),
     fashion |-> Says(90, "stale_fact" :> "high" @@ "data_gap" :> "skip"),
     chat_relationships |-> Says(180, "data_gap" :> "skip" @@ "stale_fact" :> "low")]

PolicyDomains ==
    [finance |-> Says(30, "stale_fact" :> "high" @@ "broken_cross_ref" :> "high" @@ "data_gap" :> "high"),
     us_policy |-> Says(90, "contradiction" :> "high" @@ "missing_concept" :> "high"),
     cn_policy |-> Says(90, "contradiction" :> "high" @@ "missing_concept" :> "high" @@ "broken_cross_ref" :> "high"),
     international_relations |-> Says(7, "stale_fact" :> "high" @@ "contradiction" :> "low" @@ "data_gap" :> "high")]

TechnologyDomains ==
    [ai_progress |-> Says(14, "data_gap" :> "medium" @@ "missing_concept" :> "high"),
     agent_systems |-> Says(30, "broken_cross_ref" :> "high" @@ "data_gap" :> "medium"),
     social_en |-> Says(14, "data_gap" :> "skip" @@ "broken_cross_ref" :> "medium"),
     social_zh |-> Says(14, "data_gap" :> "skip" @@ "broken_cross_ref" :> "medium"),
     meta |-> Says(60, "broken_cross_ref" :> "high" @@ "data_gap" :> "low")]

AppliedDomains ==
    [fitness_wellness |-> Says(365, "contradiction" :> "high" @@ "missing_concept" :> "high" @@ "broken_cross_ref" :> "medium"),
     cooking |-> Says(730, "data_gap" :> "low" @@ "broken_cross_ref" :> "low"),
     travel |-> Says(180, "stale_fact" :> "medium" @@ "broken_cross_ref" :> "high"),
     marketing |-> Says(60, "stale_fact" :> "medium" @@ "broken_cross_ref" :> "high"),
     enterprise |-> Says(90, "stale_fact" :> "high" @@ "broken_cross_ref" :> "high" @@ "data_gap" :> "high")]

DomainSchemas == KnowledgeDomains @@ PolicyDomains @@ TechnologyDomains @@ AppliedDomains

-----------------------------------------------------------------------------

\* Of two pages of one name the later is the one that links are taken to mean.
Means(pages, loaded, name) ==
    LET same == {n \in loaded : pages[n].name = name}
    IN {n \in same : \A m \in same : m <= n}

Inbound(pages, loaded, name) == {n \in loaded : name \in pages[n].links /\ pages[n].name # name}

\* on: the affected pages in the order the rule names them; about: what else it names.
Finding(rule, on, about, severity) == [rule |-> rule, on |-> on, about |-> about, severity |-> severity]

StaleFact(pages, loaded) ==
    {Finding("stale_fact", <<n>>, "", "medium") : n \in {m \in loaded : pages[m].expired /\ ~pages[m].successor}}

OrphanPage(pages, loaded) ==
    {Finding("orphan_page", <<n>>, "", "low") :
        n \in {m \in loaded : m \in Means(pages, loaded, pages[m].name) /\ Inbound(pages, loaded, pages[m].name) = {}}}

MissingConcept(pages, loaded) ==
    {Finding("missing_concept", <<x[1]>>, x[2], "low") :
        x \in {y \in loaded \X UNION {pages[m].links : m \in loaded} :
                   y[2] \in pages[y[1]].links /\ Means(pages, loaded, y[2]) = {}}}

BrokenCrossRef(pages, loaded, claims) ==
    {Finding("broken_cross_ref", <<n>>, "", "high") : n \in {m \in loaded : ~(pages[m].declared \subseteq {c.id : c \in claims})}}

\* The option counts unless it has the value of its default.
Threshold(domains, domain, option) ==
    IF option # DefaultStale THEN option
    ELSE IF domain \in DOMAIN domains THEN domains[domain].stale ELSE DefaultStale

DataGap(pages, loaded, domains, option) ==
    {Finding("data_gap", <<n>>, "", "low") :
        n \in {m \in loaded : pages[m].confidence = "low" /\ pages[m].age > Threshold(domains, pages[m].domain, option)}}

CrossRefAsymmetry(pages, loaded) ==
    {Finding("cross_ref_asymmetry", <<x[1], x[2]>>, "", "medium") :
        x \in {y \in loaded \X loaded :
            /\ pages[y[1]].confidence = "high"
            /\ pages[y[2]].name \in pages[y[1]].links \ {pages[y[1]].name}
            /\ y[2] \in Means(pages, loaded, pages[y[2]].name)
            \* One finding for each pair of names, that of the first page.
            /\ \A c \in loaded : (c < y[1] /\ pages[c].name = pages[y[1]].name /\ pages[c].confidence = "high")
                                  => pages[y[2]].name \notin pages[c].links
            /\ pages[y[1]].name \notin pages[y[2]].links
            /\ pages[y[1]].declared \cap pages[y[2]].declared = {}}}

AbandonedPage(pages, loaded) ==
    {Finding("abandoned_page", <<n>>, "", "low") :
        n \in {m \in loaded : /\ pages[m].confidence = "low" /\ pages[m].age > AbandonedAfter
                              /\ Inbound(pages, loaded, pages[m].name) = {}}}

\* The domain of a finding is that of the first of its pages that names one; it may
\* drop the finding or change how severe it is.
DomainOf(f, pages) == LET named == SelectSeq(f.on, LAMBDA n : pages[n].domain # "")
                      IN IF named = <<>> THEN "" ELSE pages[Head(named)].domain

Overridden(found, pages, domains) ==
    LET Severity(f) == LET d == DomainOf(f, pages) IN
                   IF d \in DOMAIN domains /\ f.rule \in DOMAIN domains[d].overrides THEN domains[d].overrides[f.rule] ELSE f.severity
    IN  {[f EXCEPT !.severity = Severity(f)] : f \in {g \in found : Severity(g) # "skip"}}

LintPages(pages, claims, domains, domain, option) ==
    LET loaded == LoadPages(pages, domain)
    IN Overridden(StaleFact(pages, loaded) \cup OrphanPage(pages, loaded) \cup MissingConcept(pages, loaded)
                  \cup BrokenCrossRef(pages, loaded, claims) \cup DataGap(pages, loaded, domains, option)
                  \cup CrossRefAsymmetry(pages, loaded) \cup AbandonedPage(pages, loaded), pages, domains)

-----------------------------------------------------------------------------

\* The lint of one domain sees fewer pages and so fewer links.  It may call a page
\* an orphan that another domain links to, but it misses nothing that the lint of
\* the whole wiki finds on a page that it reads - unless the finding is on a link
\* into another domain.
DomainLintLosesNothing(pages, claims, domains, option) ==
    \A domain \in {pages[n].place : n \in DOMAIN pages} \ {"shared"} :
        {f \in LintPages(pages, claims, domains, "all", option) :
            /\ pages[f.on[1]].place \in {domain, "shared"}
            /\ f.rule = "cross_ref_asymmetry" => pages[f.on[2]].place \in {domain, "shared"}}
            \subseteq LintPages(pages, claims, domains, domain, option)
=============================================================================
