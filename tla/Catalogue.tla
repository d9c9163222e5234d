------------------------------ MODULE Catalogue ------------------------------
(***************************************************************************)
(* What is offered: the tree of categories and the products in it, as      *)
(* farmers write them and as the shop lists them.                          *)
(***************************************************************************)
EXTENDS Integers, FiniteSets

CONSTANTS
  Farmers,
  Categories,   \* ids: bounds how many categories are ever created
  Slugs,        \* slugs of categories, those that pass the format check
  Authors,      \* POST /categories requests that may be in flight together
  Products,     \* ids: bounds how many products are ever created
  Prices,       \* prices of a unit, in pence
  None

VARIABLES
  category,   \* id -> its row in categories, or None
  nesting,    \* author -> the category it is about to insert, or None
  product     \* id -> its row in products, or None

catalogueVars == <<category, nesting, product>>

Category == [slug : Slugs, parent : Categories \cup {None}]

\* "offered" is is_active AND NOT is_deleted: the two change together.
Product == [farmer : Farmers, category : Categories, price : Prices, offered : BOOLEAN]

ASSUME CatalogueAssumption ==
  /\ Prices \subseteq Nat
  /\ None \notin Categories \cup Prices \cup Category \cup Product

InitCatalogue ==
  /\ category = [c \in Categories |-> None]
  /\ nesting = [a \in Authors |-> None]
  /\ product = [p \in Products |-> None]

-----------------------------------------------------------------------------
(***************************************************************************)
(* POST /categories.  Nothing changes or removes a category.               *)
(***************************************************************************)

\* Mutant of MayHaveChildren: any category may.
AnyExisting(c) == category[c] # None

\* The parent that the request names exists and is at the top.
MayHaveChildren(c) == category[c] # None /\ category[c].parent = None

BeginCategory(a, slug, parent) ==
  /\ nesting[a] = None
  /\ parent # None => MayHaveChildren(parent)
  /\ nesting' = [nesting EXCEPT ![a] = [slug |-> slug, parent |-> parent]]
  /\ UNCHANGED <<category, product>>

\* UNIQUE slug.
SlugFree(slug) == \A c \in Categories : category[c] # None => category[c].slug # slug

\* The INSERT: a new row, or a conflict.
InsertCategory(a) ==
  /\ nesting[a] # None
  /\ \/ /\ SlugFree(nesting[a].slug)
        /\ \E c \in Categories :
             /\ category[c] = None
             /\ category' = [category EXCEPT ![c] = nesting[a]]
     \/ ~SlugFree(nesting[a].slug) /\ UNCHANGED category
  /\ nesting' = [nesting EXCEPT ![a] = None]
  /\ UNCHANGED product

DropCategory(a) ==
  /\ nesting[a] # None
  /\ nesting' = [nesting EXCEPT ![a] = None]
  /\ UNCHANGED <<category, product>>

-----------------------------------------------------------------------------
(***************************************************************************)
(* POST, PATCH and DELETE /products.  Each is one statement, or one        *)
(* transaction with the stock row that Stock is about.                     *)
(***************************************************************************)

\* Mutant of CreateProduct: category_id is no foreign key.
CreateUnchecked(p, f, c, price) ==
  /\ product[p] = None
  /\ product' = [product EXCEPT ![p] =
       [farmer |-> f, category |-> c, price |-> price, offered |-> TRUE]]
  /\ UNCHANGED <<category, nesting>>

CreateProduct(p, f, c, price) ==
  /\ product[p] = None
  /\ category[c] # None
  /\ product' = [product EXCEPT ![p] =
       [farmer |-> f, category |-> c, price |-> price, offered |-> TRUE]]
  /\ UNCHANGED <<category, nesting>>

Offered(p) == product[p] # None /\ product[p].offered

\* COALESCE: what the request does not name stays as it is.
UpdateProduct(p, c, price) ==
  /\ Offered(p)
  /\ c # None => category[c] # None
  /\ product' = [product EXCEPT
       ![p].category = IF c = None THEN @ ELSE c,
       ![p].price    = IF price = None THEN @ ELSE price]
  /\ UNCHANGED <<category, nesting>>

DeleteProduct(p) ==
  /\ Offered(p)
  /\ product' = [product EXCEPT ![p].offered = FALSE]
  /\ UNCHANGED <<category, nesting>>

CategoryStep ==
  \E a \in Authors :
    \/ \E slug \in Slugs, parent \in Categories \cup {None} : BeginCategory(a, slug, parent)
    \/ InsertCategory(a)
    \/ DropCategory(a)

ProductStep ==
  \E p \in Products :
    \/ \E f \in Farmers, c \in Categories, price \in Prices : CreateProduct(p, f, c, price)
    \/ \E c \in Categories \cup {None}, price \in Prices \cup {None} : UpdateProduct(p, c, price)
    \/ DeleteProduct(p)

-----------------------------------------------------------------------------
(***************************************************************************)
(* What GET /categories and GET /products?category_slug= answer.           *)
(***************************************************************************)

Created == {c \in Categories : category[c] # None}

TopLevel == {c \in Created : category[c].parent = None}

\* The children that list_categories attaches to a top-level category.
Children(top) == {c \in Created : category[c].parent = top}

\* The products that a category's page lists: its own and its children's.
ListedUnder(slug) ==
  {p \in Products : Offered(p) /\
     LET c == product[p].category
     IN  \/ category[c].slug = slug
         \/ \E parent \in Created : category[parent].slug = slug /\ category[c].parent = parent}

-----------------------------------------------------------------------------
CatalogueTypeOK ==
  /\ category \in [Categories -> Category \cup {None}]
  /\ nesting \in [Authors -> Category \cup {None}]
  /\ product \in [Products -> Product \cup {None}]
  /\ \A p \in Products : product[p] # None => product[p].category \in Created

\* Nothing that was created is out of a shopper's reach: each category is in
\* one place of the tree that GET /categories answers with, and each product
\* on offer is on the page of exactly one of the tree's top-level categories,
\* although a parent is looked at before the child is stored.
CatalogueComplete ==
  /\ \A c \in Created \ TopLevel : \E top \in TopLevel : c \in Children(top)
  /\ \A p \in Products : Offered(p) =>
       \E top \in TopLevel :
         \A t \in TopLevel : p \in ListedUnder(category[t].slug) <=> t = top
=============================================================================
