---------------------------- MODULE MCPagination ----------------------------
(* The listings that the runs of Pagination consider.                      *)
EXTENDS Pagination

Empty == [place \in Places |-> IF place = "body" THEN "object" ELSE "missing"]

Whole == 99  \* no row of a page is left out, no item is too many

\* A reply that every extractor finds its rows in.
InData == [Empty EXCEPT !["data"] = "list"]
InResources == [Empty EXCEPT !["Resources"] = "list"]

Plain(kind) ==
  IF kind = "scim" THEN [extractor |-> "scim", body |-> InResources, envelope |-> "Resources"]
                   ELSE [extractor |-> "extract_list", body |-> InData, envelope |-> "data"]

With(kind, how, size, items, n, most, changed) ==
  [paginator |-> kind, page_size |-> size, max_items |-> items,
   extractor |-> how.extractor, body |-> how.body, envelope |-> how.envelope,
   rows |-> n, cap |-> most, changes |-> changed]

\* Other clients insert and delete rows.
Busy ==
  {With(kind, Plain(kind), size, items, n, Whole, 2) :
     kind \in {"offset", "scim"}, size \in {1, 2}, items \in {2, Whole}, n \in 0 .. 4}

\* Nobody does, and there are pages and items of many sizes.
Quiet ==
  {With(kind, Plain(kind), size, items, n, Whole, 0) :
     kind \in {"offset", "scim"}, size \in 1 .. 3, items \in {1, 2, 5, Whole}, n \in 0 .. 7}

\* The server puts fewer rows in a page than it was asked for.
Capped ==
  {With(kind, Plain(kind), size, Whole, n, most, 0) :
     kind \in {"offset", "scim"}, size \in {2, 3}, n \in 0 .. 7, most \in {1, 2}}

\* Every extractor, and replies of every shape with up to two keys.
SmallBodies ==
  {body \in Bodies :
     Cardinality({place \in Places \ {"body"} : body[place] # "missing"}) <= 2}

Envelopes(body) ==
  LET lists == {place \in Places : body[place] = "list"}
  IN  IF lists = {} THEN {"elsewhere"} ELSE lists

Shapes ==
  UNION {
    {With(IF how \in {"scim", "scim_default"} THEN "scim" ELSE "offset",
          [extractor |-> how, body |-> body, envelope |-> place], 2, Whole, n, Whole, 0) :
       how \in Extractors, place \in Envelopes(body), n \in 0 .. 3} :
    body \in SmallBodies}

AllListings == Busy \union Quiet \union Capped \union Shapes

ZeroItems == {With("offset", Plain("offset"), 2, 0, n, Whole, 0) : n \in 0 .. 2}

=============================================================================
