----------------------------- MODULE Catalogue ------------------------------
(***************************************************************************)
(* The taxonomy by its slugs, as one who reads the tables sees it grow     *)
(* (infrastructure/db/models.py): a slug names at most one category or     *)
(* tag, a tag is filed under one category for good, and a rule belongs to  *)
(* one tag for good.  Deletion of rules is left to RuleTable.              *)
(***************************************************************************)
CONSTANTS CategorySlugs, TagSlugs, RuleIds

VARIABLES
    categories,   \* the slugs of the categories
    filed,        \* the tags, each a slug with the slug of its category
    rules         \* the rules, each an id with the slug of its tag

catalogueVars == <<categories, filed, rules>>

CatalogueInit == categories = {} /\ filed = {} /\ rules = {}

AddCategory(c) ==
    /\ c \notin categories
    /\ categories' = categories \cup {c}
    /\ UNCHANGED <<filed, rules>>

AddTag(t, c) ==
    /\ \A entry \in filed : entry[1] # t
    /\ c \in categories
    /\ filed' = filed \cup {<<t, c>>}
    /\ UNCHANGED <<categories, rules>>

AddRule(r, t) ==
    /\ \A entry \in rules : entry[1] # r
    /\ \E entry \in filed : entry[1] = t
    /\ rules' = rules \cup {<<r, t>>}
    /\ UNCHANGED <<categories, filed>>

CatalogueNext ==
    \/ \E c \in CategorySlugs : AddCategory(c)
    \/ \E t \in TagSlugs, c \in CategorySlugs : AddTag(t, c)
    \/ \E r \in RuleIds, t \in TagSlugs : AddRule(r, t)

CatalogueSpec == CatalogueInit /\ [][CatalogueNext]_catalogueVars
=============================================================================
