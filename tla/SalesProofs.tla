----------------------------- MODULE SalesProofs ------------------------------
(***************************************************************************)
(* The catalogue of Sales for every set of categories, farmers, products   *)
(* and requests: that its tree has two levels and everything is in it.     *)
(***************************************************************************)
EXTENDS Sales, TLAPS

SlugsDiffer == \A c, d \in Created : category[c].slug = category[d].slug => c = d

\* Every parent is at the top, also those that requests in flight have looked
\* at and not yet used: nothing ever moves a category.
TwoLevels ==
  /\ \A c \in Created : category[c].parent # None => category[c].parent \in TopLevel
  /\ \A a \in Authors : nesting[a] # None /\ nesting[a].parent # None
                        => nesting[a].parent \in TopLevel

IInv == CatalogueTypeOK /\ SlugsDiffer /\ TwoLevels

LEMMA CategoryShape ==
  ASSUME CatalogueTypeOK, NEW c \in Created
  PROVE  /\ c \in Categories /\ c # None
         /\ category[c] \in Category
         /\ category[c].slug \in Slugs
         /\ category[c].parent \in Categories \cup {None}
  BY CatalogueAssumption DEF CatalogueTypeOK, Created, Category

\* The invariant is as strong as the property: in two levels with slugs that
\* differ, a product is listed by one category of the top.
LEMMA CompleteTree ==
  ASSUME IInv
  PROVE  CatalogueComplete
<1>1. ASSUME NEW c \in Created \ TopLevel
      PROVE  \E top \in TopLevel : c \in Children(top)
  <2>1. category[c].parent \in TopLevel
    BY DEF TopLevel, IInv, TwoLevels
  <2>2. QED
    BY <2>1 DEF Children
<1>2. ASSUME NEW p \in Products, Offered(p)
      PROVE  \E top \in TopLevel :
               \A t \in TopLevel : p \in ListedUnder(category[t].slug) <=> t = top
  <2> DEFINE c == product[p].category
             Lists(t) == \/ category[c].slug = category[t].slug
                         \/ \E parent \in Created : /\ category[parent].slug = category[t].slug
                                                    /\ category[c].parent = parent
  <2>1. c \in Created
    BY <1>2 DEF IInv, CatalogueTypeOK, Offered
  <2>2. \A t \in TopLevel : p \in ListedUnder(category[t].slug) <=> Lists(t)
    BY <1>2 DEF ListedUnder
  <2>3. TopLevel \subseteq Created
    BY DEF TopLevel
  <2>4. \A t \in Created : Lists(t) <=> c = t \/ category[c].parent = t
    BY <2>1 DEF IInv, SlugsDiffer
  <2> HIDE DEF Lists
  <2>5. CASE category[c].parent = None
    <3>1. c \in TopLevel
      BY <2>1, <2>5 DEF TopLevel
    <3>2. \A t \in TopLevel : category[c].parent # t
      BY <2>3, <2>5, CategoryShape DEF IInv
    <3>3. \A t \in TopLevel : p \in ListedUnder(category[t].slug) <=> t = c
      BY <2>2, <2>3, <2>4, <3>2
    <3>4. QED
      BY <3>1, <3>3
  <2>6. CASE category[c].parent # None
    <3>1. category[c].parent \in TopLevel /\ c \notin TopLevel
      BY <2>1, <2>6 DEF TopLevel, IInv, TwoLevels
    <3>2. \A t \in TopLevel : p \in ListedUnder(category[t].slug) <=> t = category[c].parent
      BY <2>2, <2>3, <2>4, <3>1
    <3>3. QED
      BY <3>1, <3>2
  <2>7. QED
    BY <2>5, <2>6
<1>3. QED
  BY <1>1, <1>2 DEF CatalogueComplete

-----------------------------------------------------------------------------
(***************************************************************************)
(* The steps.                                                              *)
(***************************************************************************)

LEMMA BeginCategoryKeeps ==
  ASSUME IInv, NEW a \in Authors, NEW slug \in Slugs, NEW parent \in Categories \cup {None},
         BeginCategory(a, slug, parent)
  PROVE  IInv'
<1> DEFINE row == [slug |-> slug, parent |-> parent]
<1>1. row \in Category /\ row.parent = parent
  BY DEF Category
<1>2. nesting' = [nesting EXCEPT ![a] = row] /\ UNCHANGED <<category, product>>
  BY DEF BeginCategory
<1> HIDE DEF row
<1>3. Created' = Created /\ TopLevel' = TopLevel
  BY <1>2 DEF Created, TopLevel
<1>4. parent # None => parent \in TopLevel
  BY DEF BeginCategory, MayHaveChildren, TopLevel, Created
<1>5. CatalogueTypeOK' /\ SlugsDiffer'
  BY <1>1, <1>2, <1>3 DEF IInv, CatalogueTypeOK, SlugsDiffer
<1>6. TwoLevels'
  BY <1>1, <1>2, <1>3, <1>4 DEF IInv, CatalogueTypeOK, TwoLevels
<1>7. QED
  BY <1>5, <1>6 DEF IInv

LEMMA InsertCategoryKeeps ==
  ASSUME IInv, NEW a \in Authors, InsertCategory(a)
  PROVE  IInv'
<1> DEFINE row == nesting[a]
<1>1. /\ row # None /\ row \in Category /\ nesting' = [nesting EXCEPT ![a] = None]
      /\ product' = product
  BY DEF InsertCategory, IInv, CatalogueTypeOK
<1>2. row.parent # None => row.parent \in TopLevel
  BY <1>1 DEF IInv, TwoLevels
<1>3. CASE UNCHANGED category
  <2>1. Created' = Created /\ TopLevel' = TopLevel
    BY <1>3 DEF Created, TopLevel
  <2>2. CatalogueTypeOK' /\ SlugsDiffer' /\ TwoLevels'
    BY <1>1, <1>3, <2>1 DEF IInv, CatalogueTypeOK, SlugsDiffer, TwoLevels
  <2>3. QED
    BY <2>2 DEF IInv
<1>4. CASE SlugFree(row.slug) /\ \E c \in Categories :
             category[c] = None /\ category' = [category EXCEPT ![c] = row]
  <2>1. PICK c \in Categories : category[c] = None /\ category' = [category EXCEPT ![c] = row]
    BY <1>4
  <2> HIDE DEF row
  <2>2. /\ category' \in [Categories -> Category \cup {None}]
        /\ category'[c] = row
        /\ \A d \in Categories \ {c} : category'[d] = category[d]
    BY <1>1, <2>1 DEF IInv, CatalogueTypeOK
  <2>3. c \notin Created /\ Created' = Created \cup {c}
    BY <1>1, <2>1, <2>2 DEF Created
  <2>4. Created \subseteq Categories /\ TopLevel \subseteq Created
    BY DEF Created, TopLevel
  <2>5. TopLevel \subseteq TopLevel'
    BY <2>2, <2>3, <2>4 DEF TopLevel
  <2>6. CatalogueTypeOK'
    BY <1>1, <2>2, <2>3 DEF IInv, CatalogueTypeOK
  <2>7. \A d \in Created : category[d].slug # row.slug
    BY <1>4 DEF SlugFree, Created
  <2>8. SlugsDiffer'
    BY <2>2, <2>3, <2>4, <2>7 DEF IInv, SlugsDiffer
  <2>9. ASSUME NEW d \in Created', category'[d].parent # None
        PROVE  category'[d].parent \in TopLevel'
    <3>1. CASE d = c
      BY <1>2, <2>2, <2>5, <2>9, <3>1
    <3>2. CASE d # c
      BY <2>2, <2>3, <2>4, <2>5, <2>9, <3>2 DEF IInv, TwoLevels
    <3>3. QED
      BY <3>1, <3>2
  <2>10. ASSUME NEW b \in Authors, nesting'[b] # None, nesting'[b].parent # None
         PROVE  nesting'[b].parent \in TopLevel'
    BY <1>1, <2>5, <2>10 DEF IInv, CatalogueTypeOK, TwoLevels
  <2>11. QED
    BY <2>6, <2>8, <2>9, <2>10 DEF IInv, TwoLevels
<1>5. QED
  BY <1>3, <1>4 DEF InsertCategory

LEMMA DropCategoryKeeps ==
  ASSUME IInv, NEW a \in Authors, DropCategory(a)
  PROVE  IInv'
<1>1. Created' = Created /\ TopLevel' = TopLevel
  BY DEF DropCategory, Created, TopLevel
<1>2. CatalogueTypeOK' /\ SlugsDiffer' /\ TwoLevels'
  BY <1>1 DEF DropCategory, IInv, CatalogueTypeOK, SlugsDiffer, TwoLevels
<1>3. QED
  BY <1>2 DEF IInv

\* A write to products keeps the invariant if the product stays in a category
\* that there is.
LEMMA ProductKeeps ==
  ASSUME IInv, NEW p \in Products, NEW row \in Product, row.category \in Created,
         product' = [product EXCEPT ![p] = row], UNCHANGED <<category, nesting>>
  PROVE  IInv'
<1>1. Created' = Created /\ TopLevel' = TopLevel
  BY DEF Created, TopLevel
<1>2. /\ product' \in [Products -> Product \cup {None}]
      /\ product'[p] = row
      /\ \A q \in Products \ {p} : product'[q] = product[q]
  BY DEF IInv, CatalogueTypeOK
<1>3. CatalogueTypeOK'
  BY <1>1, <1>2 DEF IInv, CatalogueTypeOK
<1>4. SlugsDiffer' /\ TwoLevels'
  BY <1>1 DEF IInv, SlugsDiffer, TwoLevels
<1>5. QED
  BY <1>3, <1>4 DEF IInv

LEMMA CreateProductKeeps ==
  ASSUME IInv, NEW p \in Products, NEW f \in Farmers, NEW c \in Categories, NEW price \in Prices,
         CreateProduct(p, f, c, price)
  PROVE  IInv'
<1> DEFINE row == [farmer |-> f, category |-> c, price |-> price, offered |-> TRUE]
<1>1. row \in Product /\ row.category = c
  BY DEF Product
<1>2. c \in Created
  BY DEF CreateProduct, Created
<1>3. product' = [product EXCEPT ![p] = row]
  BY DEF CreateProduct
<1> HIDE DEF row
<1>4. QED
  BY <1>1, <1>2, <1>3, ProductKeeps DEF CreateProduct

LEMMA UpdateProductKeeps ==
  ASSUME IInv, NEW p \in Products, NEW c \in Categories \cup {None},
         NEW price \in Prices \cup {None}, UpdateProduct(p, c, price)
  PROVE  IInv'
<1> DEFINE row == [product[p] EXCEPT !.category = IF c = None THEN @ ELSE c,
                                     !.price    = IF price = None THEN @ ELSE price]
<1>1. product[p] \in Product /\ product[p].category \in Created
  BY DEF UpdateProduct, Offered, IInv, CatalogueTypeOK
<1>2. c # None => c \in Created
  BY DEF UpdateProduct, Created
<1>3. row \in Product /\ row.category = IF c = None THEN product[p].category ELSE c
  BY <1>1 DEF Product
<1>4. product' = [product EXCEPT ![p] = row]
  BY DEF UpdateProduct, IInv, CatalogueTypeOK
<1> HIDE DEF row
<1>5. QED
  BY <1>1, <1>2, <1>3, <1>4, ProductKeeps DEF UpdateProduct

LEMMA DeleteProductKeeps ==
  ASSUME IInv, NEW p \in Products, DeleteProduct(p)
  PROVE  IInv'
<1> DEFINE row == [product[p] EXCEPT !.offered = FALSE]
<1>1. product[p] \in Product /\ product[p].category \in Created
  BY DEF DeleteProduct, Offered, IInv, CatalogueTypeOK
<1>2. row \in Product /\ row.category = product[p].category
  BY <1>1 DEF Product
<1>3. product' = [product EXCEPT ![p] = row]
  BY DEF DeleteProduct
<1> HIDE DEF row
<1>4. QED
  BY <1>1, <1>2, <1>3, ProductKeeps DEF DeleteProduct

-----------------------------------------------------------------------------
(***************************************************************************)
(* The theorems.                                                           *)
(***************************************************************************)

LEMMA InitHolds == Init => IInv
<1> SUFFICES ASSUME Init PROVE IInv
  OBVIOUS
<1>1. Created = {}
  BY DEF Init, InitCatalogue, Created
<1>2. QED
  BY <1>1 DEF Init, InitCatalogue, IInv, CatalogueTypeOK, SlugsDiffer, TwoLevels

LEMMA StepKeeps == IInv /\ [Next]_vars => IInv'
<1> SUFFICES ASSUME IInv, [Next]_vars PROVE IInv'
  OBVIOUS
<1>1. CASE CategoryStep
  BY <1>1, BeginCategoryKeeps, InsertCategoryKeeps, DropCategoryKeeps DEF CategoryStep
<1>2. CASE ProductStep
  BY <1>2, CreateProductKeeps, UpdateProductKeeps, DeleteProductKeeps DEF ProductStep
<1>3. CASE UNCHANGED catalogueVars
  BY <1>3 DEF catalogueVars, IInv, CatalogueTypeOK, SlugsDiffer, TwoLevels, Created, TopLevel
<1>4. SalesStep => UNCHANGED catalogueVars
  BY DEF SalesStep, ReadCart, StoreSale, DropBuying, SetCancelled, Tick
<1>5. QED
  BY <1>1, <1>2, <1>3, <1>4 DEF Next, vars

\* Categories and products stay well formed, and products in categories that
\* there are (create_category, create_product, update_product).
THEOREM CatalogueTypeCorrect == Spec => []CatalogueTypeOK
<1>1. IInv => CatalogueTypeOK
  BY DEF IInv
<1>2. QED
  BY <1>1, InitHolds, StepKeeps, PTL DEF Spec

\* Every category is in the tree that list_categories answers with, and every
\* offered product on the page of one top-level category, although the parent
\* is looked at one statement before the child is stored.
THEOREM CatalogueStaysComplete == Spec => []CatalogueComplete
  BY CompleteTree, InitHolds, StepKeeps, PTL DEF Spec
=============================================================================
