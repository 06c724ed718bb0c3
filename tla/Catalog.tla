------------------------------ MODULE Catalog ------------------------------
(* The product catalog: documents in the repository, baked into images, are *)
(* applied to the database by the init container of a rollout, while        *)
(* administrators write the same rows (services/catalog.py, products.py,    *)
(* templates.py). An apply is one transaction under an advisory lock; its   *)
(* flushed rows are locked, what it has only read is not.                   *)
EXTENDS Naturals, Sequences

CONSTANTS
  Rollouts,        \* init containers that apply a catalog
  Admins,          \* administrators, one request each at a time
  ProductNames,    \* up to case
  SlugOf,          \* the slug made of each; slugs are numbers in alphabetical order
  Documents,       \* records [slug, name, listing, icon, shots, spec, versions, releases]
  FirstImage,      \* the documents of the first image
  InitialProducts, \* rows before the first rollout, by id
  InitialTemplates,
  MaxProducts, MaxTemplates, MaxImages, MaxStarts, MaxAdminWrites

Null == 0

LiveIn(rows) == {i \in DOMAIN rows : ~rows[i].deleted}

\* A set of documents that load_catalog accepts: one for each slug.
IsImage(docs) ==
  /\ \A d \in docs : d.slug \in Nat \ {Null} /\ d.name \in ProductNames
  /\ \A d, e \in docs : d.slug = e.slug => d = e

\* The partial unique indexes on lower(name) and slug, over all rows.
AreUnique(rows) ==
  \A p, q \in LiveIn(rows) :
    p # q => rows[p].name # rows[q].name /\ (rows[p].slug # Null => rows[p].slug # rows[q].slug)

\* Appliers insert a template only where the product has none of its spec.
HaveNoDuplicates(rows) ==
  \A s, t \in LiveIn(rows) :
    (s # t /\ rows[s].catalog /\ rows[t].catalog /\ rows[s].product = rows[t].product)
      => rows[s].spec # rows[t].spec

\* Rows of the two tables: a product is curated if it has a slug.
ProductColumns == {"name", "listing", "slug", "curated", "visibility", "template", "icon", "shots", "deleted"}
IsProduct(row) ==
  /\ row = [c \in ProductColumns |-> row[c]]
  /\ row.name \in ProductNames /\ row.slug \in Nat /\ row.curated = (row.slug # Null)
  /\ row.deleted \in BOOLEAN

TemplateColumns == {"product", "spec", "version", "catalog", "deleted"}
IsTemplate(row) == row = [c \in TemplateColumns |-> row[c]]

ASSUME CatalogAssumption ==
  /\ Null \notin Rollouts /\ SlugOf \in [ProductNames -> Nat \ {Null}]
  /\ {MaxProducts, MaxTemplates, MaxImages, MaxStarts, MaxAdminWrites} \subseteq Nat
  /\ IsImage(FirstImage) /\ \A d \in Documents : IsImage({d})
  /\ InitialProducts = [p \in DOMAIN InitialProducts |-> InitialProducts[p]]
  /\ InitialTemplates = [t \in DOMAIN InitialTemplates |-> InitialTemplates[t]]
  /\ DOMAIN InitialProducts \union DOMAIN InitialTemplates \subseteq Nat \ {Null}
  /\ \A p \in DOMAIN InitialProducts :
       LET t == InitialProducts[p].template IN
       IsProduct(InitialProducts[p]) /\ (t # Null => t \in DOMAIN InitialTemplates /\ InitialTemplates[t].product = p)
  /\ \A t \in DOMAIN InitialTemplates : IsTemplate(InitialTemplates[t])
  /\ AreUnique(InitialProducts) /\ HaveNoDuplicates(InitialTemplates)

VARIABLES
  merged,    \* one set of documents per merged commit, newest last
  products, templates, releaseNotes, \* committed rows by id; by product their release notes
  storage,      \* pictures in static storage
  advisoryLock, \* the rollout that holds it, or Null
  draft,     \* what its transaction has flushed: rows over the committed ones
  rollout,       \* each init container
  admin,     \* each administrator's request that has read and not yet written
  touched,   \* products an administrator wrote since the lock was taken
  settled,   \* the image last applied, until an administrator writes
  copied,    \* the last document written by curate, until a row changes
  starts, adminWrites

catalogVars == <<merged, products, templates, releaseNotes, storage, advisoryLock, draft, rollout, admin,
                 touched, settled, copied, starts, adminWrites>>

\* f where it has a value, else g; and the value x at i alone.
Over(f, g) == [i \in DOMAIN f \union DOMAIN g |-> IF i \in DOMAIN f THEN f[i] ELSE g[i]]
Single(i, x) == [j \in {i} |-> x]
Nowhere == [i \in {} |-> Null]

NoDraft == [products |-> Nowhere, templates |-> Nowhere, releases |-> Nowhere]
IdleRun == [step |-> "idle", image |-> Null, dry |-> FALSE, todo |-> {}, doc |-> Null,
            product |-> Null, seen |-> Null]
NoAdminRequest == [op |-> "none"]
NotCopied == [product |-> Null, image |-> Null]

\* A row as _resolve_product creates it: hidden, and with nothing of the document yet.
NewProduct(doc) ==
  [name |-> doc.name, listing |-> Null, slug |-> doc.slug, curated |-> TRUE, visibility |-> "admin",
   template |-> Null, icon |-> Null, shots |-> <<>>, deleted |-> FALSE]

NewTemplate(p, spec, version, byCatalog) ==
  [product |-> p, spec |-> spec, version |-> version, catalog |-> byCatalog, deleted |-> FALSE]

CatalogInit ==
  /\ merged = <<FirstImage>>
  /\ products = InitialProducts /\ templates = InitialTemplates
  /\ releaseNotes = [p \in DOMAIN InitialProducts |-> <<>>]
  /\ storage \in SUBSET ({InitialProducts[p].icon : p \in DOMAIN InitialProducts} \ {Null})
  /\ advisoryLock = Null /\ draft = NoDraft /\ rollout = [r \in Rollouts |-> IdleRun]
  /\ admin = [a \in Admins |-> NoAdminRequest] /\ touched = {} /\ settled = {} /\ copied = NotCopied
  /\ starts = 0 /\ adminWrites = 0

\* What the transaction that holds the lock sees.
ProductsSeen == Over(draft.products, products)
TemplatesSeen == Over(draft.templates, templates)
ReleasesSeen == Over(draft.releases, releaseNotes)

FreshIn(rows, limit) == {i \in 1..limit : i \notin DOMAIN rows /\ \A j \in 1..(i - 1) : j \in DOMAIN rows}

\* The partial unique indexes on lower(name) and slug.
Collides(rows, p, row) ==
  /\ ~row.deleted
  /\ \E q \in LiveIn(rows) \ {p} :
       rows[q].name = row.name \/ (row.slug # Null /\ rows[q].slug = row.slug)

\* Mutant of Flushed: a flush that writes the row as it was loaded and changed, whole.
Flushed_WholeRow(stored, loaded, row) == row

\* The columns of `row' that differ from what was loaded are written, no others.
Flushed(stored, loaded, row) ==
  [c \in DOMAIN stored |-> IF row[c] = loaded[c] THEN stored[c] ELSE row[c]]

\* Documents in the order load_catalog reads them.
FirstOf(docs) == CHOOSE d \in docs : \A e \in docs : d.slug <= e.slug

\* A template is recognised by its spec alone.
Specs == {d.spec : d \in Documents}

----------------------------------------------------------------------------
(* Rollouts *)

Turns(r, changes) == rollout' = [rollout EXCEPT ![r] = Over(changes, @)]
ByRollout == UNCHANGED <<merged, admin, adminWrites>>
KeepsRows == UNCHANGED <<products, templates, releaseNotes, settled, copied>>

\* catalog apply: the files are read before the database is touched. A pod
\* of the previous commit may start again after a newer one.
StartApply(r) ==
  /\ rollout[r].step = "idle" /\ starts < MaxStarts
  /\ starts' = starts + 1
  /\ \E i \in DOMAIN merged, dry \in BOOLEAN :
       /\ i >= Len(merged) - 1
       /\ Turns(r, [step |-> "loaded", image |-> i, dry |-> dry, todo |-> merged[i]])
  /\ KeepsRows /\ UNCHANGED <<storage, advisoryLock, draft, touched>> /\ ByRollout

TakeLock(r) ==
  /\ rollout[r].step = "loaded" /\ advisoryLock = Null
  /\ advisoryLock' = r /\ touched' = {}
  /\ Turns(r, [step |-> "resolve"])
  /\ KeepsRows /\ UNCHANGED <<storage, draft, starts>> /\ ByRollout

\* The curated row of that slug; else a row to adopt; else none.
Candidates(doc) ==
  LET live == LiveIn(ProductsSeen)
      own == {p \in live : ProductsSeen[p].curated /\ ProductsSeen[p].slug = doc.slug}
      adoptable == {p \in live : /\ ~ProductsSeen[p].curated /\ ProductsSeen[p].slug = Null
                                 /\ ProductsSeen[p].name = doc.name}
  IN IF own # {} THEN own ELSE IF adoptable # {} THEN adoptable ELSE {Null}

ResolveProduct(r) ==
  /\ rollout[r].step = "resolve" /\ rollout[r].todo # {}
  /\ LET doc == FirstOf(rollout[r].todo)
     IN \E p \in Candidates(doc) :
          Turns(r, [step |-> "write", doc |-> doc, product |-> p, todo |-> rollout[r].todo \ {doc},
                   seen |-> IF p = Null THEN NewProduct(doc) ELSE ProductsSeen[p]])
  /\ KeepsRows /\ UNCHANGED <<storage, advisoryLock, draft, touched, starts>> /\ ByRollout

\* What a document says of its product's row; never its visibility.
Described(row, doc) ==
  [row EXCEPT !.name = doc.name, !.listing = doc.listing, !.curated = TRUE, !.slug = doc.slug]

Rollback(r) ==
  /\ advisoryLock' = Null /\ draft' = NoDraft /\ Turns(r, IdleRun)
  /\ KeepsRows /\ UNCHANGED touched

\* The row is flushed, and locked if that changed it; an index may refuse it.
WriteProduct(r) ==
  /\ rollout[r].step = "write"
  /\ LET seen == rollout[r].seen
         row == Described(seen, rollout[r].doc)
         new == rollout[r].product = Null
     IN \E p \in IF new THEN FreshIn(ProductsSeen, MaxProducts) ELSE {rollout[r].product} :
          LET stored == IF new THEN row ELSE Flushed(ProductsSeen[p], seen, row)
              changed == new \/ row # seen
          IN IF changed /\ Collides(ProductsSeen, p, stored)
             THEN Rollback(r)
             ELSE /\ draft' = IF changed THEN [draft EXCEPT !.products = Over(Single(p, stored), @)] ELSE draft
                  /\ Turns(r, [step |-> "match", product |-> p, seen |-> row])
                  /\ KeepsRows /\ UNCHANGED <<advisoryLock, touched>>
  /\ UNCHANGED <<storage, starts>> /\ ByRollout

\* Declared pictures are written to storage where they are missing there; an
\* icon that is not declared stays, screenshots that are not declared go.
Pictures(doc) == ({doc.icon} \ {Null}) \union {doc.shots[i] : i \in DOMAIN doc.shots}
Pictured(row, doc) ==
  [row EXCEPT !.icon = IF doc.icon = Null THEN @ ELSE doc.icon, !.shots = doc.shots]

\* Any live template of the product with the document's spec, however it
\* came to exist; a new one only if there is none.
Matching(p, doc) ==
  {t \in LiveIn(TemplatesSeen) : TemplatesSeen[t].product = p /\ TemplatesSeen[t].spec = doc.spec}

\* Versions are filled in where there is none.
Stamped(rows, p, doc) ==
  LET due == {t \in LiveIn(rows) : /\ rows[t].product = p /\ rows[t].version = Null
                                   /\ doc.versions[rows[t].spec] # Null}
  IN [t \in due |-> [rows[t] EXCEPT !.version = doc.versions[rows[t].spec]]]

DescribeProduct(r) ==
  /\ rollout[r].step = "match"
  /\ LET doc == rollout[r].doc
         p == rollout[r].product
         found == Matching(p, doc)
     IN \E t \in IF found = {} THEN FreshIn(TemplatesSeen, MaxTemplates) ELSE found :
          LET inserted == [i \in {t} \ found |-> NewTemplate(p, doc.spec, doc.versions[doc.spec], TRUE)]
              row == [Pictured(rollout[r].seen, doc) EXCEPT !.template = t]
          IN draft' = [products |-> IF row = rollout[r].seen THEN draft.products
                                    ELSE Over(Single(p, Flushed(ProductsSeen[p], rollout[r].seen, row)), draft.products),
                       templates |-> Over(Stamped(Over(inserted, TemplatesSeen), p, doc),
                                          Over(inserted, draft.templates)),
                       releases |-> Over(Single(p, doc.releases), draft.releases)]
  /\ storage' = IF rollout[r].dry THEN storage ELSE storage \union Pictures(rollout[r].doc)
  /\ Turns(r, [step |-> "resolve", doc |-> Null, product |-> Null, seen |-> Null])
  /\ KeepsRows /\ UNCHANGED <<advisoryLock, touched, starts>> /\ ByRollout

\* Curated rows that no document declares are let go, and nothing else of them changes.
Released(r) ==
  LET declared == {d.slug : d \in merged[rollout[r].image]}
  IN {p \in LiveIn(ProductsSeen) : ProductsSeen[p].curated /\ ProductsSeen[p].slug \notin declared}

\* The end of apply: commit, or for a dry run a rollback.
FinishApply(r) ==
  /\ rollout[r].step = "resolve" /\ rollout[r].todo = {}
  /\ IF rollout[r].dry
     THEN Rollback(r)
     ELSE /\ products' = Over([p \in Released(r) |-> [ProductsSeen[p] EXCEPT !.curated = FALSE, !.slug = Null]],
                              ProductsSeen)
          /\ templates' = TemplatesSeen /\ releaseNotes' = ReleasesSeen
          /\ advisoryLock' = Null /\ draft' = NoDraft /\ Turns(r, IdleRun)
          /\ settled' = IF touched = {} THEN {rollout[r].image} ELSE {}
          /\ copied' = NotCopied /\ UNCHANGED touched
  /\ UNCHANGED <<storage, starts>> /\ ByRollout

\* An error of any statement, or the end of the container, rolls back.
AbortApply(r) ==
  /\ advisoryLock = r /\ Rollback(r)
  /\ UNCHANGED <<storage, starts>> /\ ByRollout

----------------------------------------------------------------------------
(* Administrators *)

ByAdmin == UNCHANGED <<merged, advisoryLock, draft, rollout, starts>>
Asks(a, request) == admin' = [admin EXCEPT ![a] = request]

Mutable(p, force) == ~products[p].curated \/ force
Deletable(p) == ~products[p].curated

Creates(a) ==
  \E n \in ProductNames : Asks(a, [op |-> "create", name |-> n])

\* Visibility alone may always be changed; a template must be a live one of
\* the product. Updates that would write what is there are left out.
Updates(a) ==
  \E p \in LiveIn(products), force \in BOOLEAN :
    \/ \E v \in {"admin", "public"} \ {products[p].visibility} :
         Asks(a, [op |-> "update", product |-> p, column |-> "visibility", value |-> v])
    \/ Mutable(p, force) /\ \E n \in ProductNames \ {products[p].name} :
         Asks(a, [op |-> "update", product |-> p, column |-> "name", value |-> n])
    \/ Mutable(p, force) /\ \E t \in {t \in LiveIn(templates) \ {products[p].template} : templates[t].product = p} :
         Asks(a, [op |-> "update", product |-> p, column |-> "template", value |-> t])

UploadsIcon(a) ==
  \E p \in LiveIn(products) :
    /\ Mutable(p, FALSE)
    /\ Asks(a, [op |-> "update", product |-> p, column |-> "icon", value |-> 9])

Deletes(a) ==
  \E p \in LiveIn(products) : Deletable(p) /\ Asks(a, [op |-> "delete", product |-> p])

CreatesTemplate(a) ==
  \E p \in LiveIn(products), force \in BOOLEAN, s \in Specs :
    Mutable(p, force) /\ Asks(a, [op |-> "template", product |-> p, spec |-> s])

DeletesTemplate(a) ==
  \E t \in DOMAIN templates :
    /\ templates[t].product \in LiveIn(products) /\ Deletable(templates[t].product)
    /\ Asks(a, [op |-> "drop", product |-> templates[t].product, template |-> t])

\* The first half of a request: what it reads, and its refusals.
AdminReads(a) ==
  /\ admin[a].op = "none" /\ adminWrites < MaxAdminWrites
  /\ adminWrites' = adminWrites + 1
  /\ \/ Creates(a) \/ Updates(a) \/ UploadsIcon(a) \/ Deletes(a) \/ CreatesTemplate(a) \/ DeletesTemplate(a)
  /\ KeepsRows /\ ByAdmin /\ UNCHANGED <<storage, touched>>

\* A write waits for the rows, and the index entries, that an apply has flushed.
Waits(p, row) == p \in DOMAIN draft.products \/ Collides(draft.products, p, row)

Writes(p) ==
  /\ touched' = touched \union {p} /\ settled' = {} /\ copied' = NotCopied

\* The second half: the write and its commit, or the index's refusal.
InsertProduct(a, p) ==
  LET row == [NewProduct([name |-> admin[a].name, slug |-> Null]) EXCEPT !.curated = FALSE]
  IN /\ admin[a].op = "create" /\ p \in FreshIn(ProductsSeen, MaxProducts)
     /\ ~Waits(p, row)
     /\ IF Collides(products, p, row) THEN UNCHANGED <<products, releaseNotes, touched, settled, copied>>
        ELSE products' = Over(Single(p, row), products) /\ releaseNotes' = Over(Single(p, <<>>), releaseNotes) /\ Writes(p)
     /\ UNCHANGED <<templates, storage>>

UpdateProduct(a) ==
  LET p == admin[a].product
      row == [products[p] EXCEPT ![admin[a].column] = admin[a].value]
  IN /\ admin[a].op = "update" /\ ~Waits(p, row)
     /\ storage' = IF admin[a].column = "icon" THEN storage \union {admin[a].value} ELSE storage
     /\ IF Collides(products, p, row) THEN UNCHANGED <<products, touched, settled, copied>>
        ELSE products' = [products EXCEPT ![p] = row] /\ Writes(p)
     /\ UNCHANGED <<templates, releaseNotes>>

DeleteProduct(a) ==
  /\ admin[a].op = "delete" /\ admin[a].product \notin DOMAIN draft.products
  /\ products' = [products EXCEPT ![admin[a].product].deleted = TRUE] /\ Writes(admin[a].product)
  /\ UNCHANGED <<templates, releaseNotes, storage>>

InsertTemplate(a, t) ==
  /\ admin[a].op = "template" /\ t \in FreshIn(TemplatesSeen, MaxTemplates)
  /\ templates' = Over(Single(t, NewTemplate(admin[a].product, admin[a].spec, Null, FALSE)), templates)
  /\ Writes(admin[a].product)
  /\ UNCHANGED <<products, releaseNotes, storage>>

DeleteTemplate(a) ==
  /\ admin[a].op = "drop" /\ admin[a].template \notin DOMAIN draft.templates
  /\ templates' = [templates EXCEPT ![admin[a].template].deleted = TRUE] /\ Writes(admin[a].product)
  /\ UNCHANGED <<products, releaseNotes, storage>>

AdminWrites(a) ==
  /\ \/ \E p \in 1..MaxProducts : InsertProduct(a, p)
     \/ UpdateProduct(a) \/ DeleteProduct(a)
     \/ \E t \in 1..MaxTemplates : InsertTemplate(a, t)
     \/ DeleteTemplate(a)
  /\ Asks(a, NoAdminRequest)
  /\ ByAdmin /\ UNCHANGED adminWrites

----------------------------------------------------------------------------
(* The repository *)

Newest == merged[Len(merged)]
ByHand == UNCHANGED <<products, templates, releaseNotes, storage, advisoryLock, draft, rollout, admin, touched,
                      settled, starts, adminWrites>>

\* A pull request adds or replaces a product's document, or removes it.
Merge ==
  /\ Len(merged) < MaxImages
  /\ \E image \in {{d \in Newest : d.slug # e.slug} \union {e} : e \in Documents}
                  \union {Newest \ {e} : e \in Newest} :
       image # Newest /\ merged' = Append(merged, image)
  /\ ByHand /\ UNCHANGED copied

\* The document that catalog curate writes. It has the stored icon, no
\* screenshots and no upstream yet, and replaces the file of that slug; the
\* releases file beside it stays.
DocumentOf(p, slug) ==
  LET before == {d \in Newest : d.slug = slug}
  IN [slug |-> slug, name |-> products[p].name, listing |-> products[p].listing,
      icon |-> products[p].icon, shots |-> <<>>, spec |-> templates[products[p].template].spec,
      versions |-> [s \in Specs |-> Null],
      releases |-> IF before = {} THEN <<>> ELSE (CHOOSE d \in before : TRUE).releases]

\* caelus catalog curate, committed and merged. The database is only read.
Curate ==
  /\ Len(merged) < MaxImages
  /\ \E p \in LiveIn(products) :
       LET slug == IF products[p].slug # Null THEN products[p].slug ELSE SlugOf[products[p].name]
       IN /\ products[p].template \in LiveIn(templates)
          /\ products[p].icon \in storage \union {Null}
          /\ merged' = Append(merged, {d \in Newest : d.slug # slug} \union {DocumentOf(p, slug)})
          /\ copied' = [product |-> p, image |-> Len(merged) + 1]
  /\ ByHand

RolloutStep(r) ==
  \/ StartApply(r) \/ TakeLock(r) \/ ResolveProduct(r) \/ WriteProduct(r) \/ DescribeProduct(r)
  \/ FinishApply(r) \/ AbortApply(r)

CatalogNext ==
  \/ \E r \in Rollouts : RolloutStep(r)
  \/ \E a \in Admins : AdminReads(a) \/ AdminWrites(a)
  \/ Merge \/ Curate

CatalogSpec == CatalogInit /\ [][CatalogNext]_catalogVars

----------------------------------------------------------------------------
(* Properties *)

Commits(r) == advisoryLock = r /\ FinishApply(r) /\ ~rollout[r].dry

\* An apply never decides what users are offered: whatever an administrator
\* made of a product's visibility, before it or while it ran, survives it
\* ("an administrator's change survives every subsequent rollout").
VisibilityIsKept ==
  [][(advisoryLock # Null /\ advisoryLock' = Null) =>
       \A p \in DOMAIN products : products'[p].visibility = products[p].visibility]_catalogVars

Lasting(t) == [product |-> t.product, spec |-> t.spec, catalog |-> t.catalog]

\* Templates are history: product and spec never change, a version is only
\* ever filled in, and an apply deletes none.
TemplatesAreHistory ==
  [][\A t \in DOMAIN templates :
       /\ t \in DOMAIN templates'
       /\ Lasting(templates'[t]) = Lasting(templates[t])
       /\ templates[t].version # Null => templates'[t].version = templates[t].version
       /\ (templates'[t].deleted /\ ~templates[t].deleted) => \E a \in Admins : admin[a].op = "drop"]_catalogVars

\* Two live templates of one product that appliers inserted never have one
\* spec, however many containers start at once.
NoDuplicates == HaveNoDuplicates(templates)

IsApplied(p, doc) ==
  LET row == products'[p]
  IN /\ ~row.deleted /\ row.name = doc.name /\ row.listing = doc.listing /\ row.shots = doc.shots
     /\ doc.icon # Null => row.icon = doc.icon
     /\ Pictures(doc) \subseteq storage'
     /\ row.template \in LiveIn(templates')
     /\ templates'[row.template].spec = doc.spec /\ templates'[row.template].product = p
     /\ releaseNotes'[p] = doc.releases

\* What an apply commits is the image: every document has its one curated
\* row, as declared, and no other row is curated, save where an
\* administrator wrote to that product meanwhile.
AppliedIsDeclared ==
  [][\A r \in Rollouts : Commits(r) =>
       LET image == merged[rollout[r].image]
           rows == {p \in LiveIn(products') \ touched : products'[p].curated}
       IN /\ \A d \in image : \E p \in DOMAIN products' :
               products'[p].slug = d.slug /\ (p \in touched \/ IsApplied(p, d))
          /\ \A p \in rows : \E d \in image : d.slug = products'[p].slug]_catalogVars

SameUpToPointer(p) == [products'[p] EXCEPT !.template = Null] = [products[p] EXCEPT !.template = Null]

\* Applying an image again is not refused and changes nothing (a pointer may
\* move between templates of one spec), and a document that curate wrote and nothing has
\* outdated adopts its product as it is, without a new template.
AppliesOnce ==
  [][/\ \A r \in Rollouts : (WriteProduct(r) /\ advisoryLock' = Null) =>
          touched # {} \/ merged[rollout[r].image] \notin {merged[i] : i \in settled}
     /\ \A r \in Rollouts : (Commits(r) /\ touched = {}) =>
       /\ (merged[rollout[r].image] \in {merged[i] : i \in settled}) =>
            templates' = templates /\ releaseNotes' = releaseNotes /\ \A p \in DOMAIN products : SameUpToPointer(p)
       /\ rollout[r].image = copied.image =>
            LET p == copied.product
            IN /\ \A c \in {"name", "listing", "icon", "visibility", "deleted"} : products'[p][c] = products[p][c]
               /\ \A t \in DOMAIN templates' \ DOMAIN templates : templates'[t].product # p]_catalogVars

\* The parts of what the catalog promises.
CatalogHolds == VisibilityIsKept /\ TemplatesAreHistory /\ []NoDuplicates /\ AppliedIsDeclared /\ AppliesOnce
============================================================================
