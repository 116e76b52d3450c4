---------------------------- MODULE MCRetrieval ----------------------------
EXTENDS Retrieval, TLC
CONSTANTS a1, a2, b2, c3, r1, h1, h2, g1, g2, g3

MCRow(a, p) == [kind |-> "row", article |-> a, part |-> p]

\* Three laws, of which rerank_top_n has room for two.  The first has a long article 1 and an
\* article 2 that refers to it; the second has an article 2 that opens like the first law's
\* and then differs, the third an article 3 that begins like the first law's article 2.
MCArticle == {a1, a2, b2, c3}
MCSourceOf == (a1 :> "a.md") @@ (a2 :> "a.md") @@ (b2 :> "b.md") @@ (c3 :> "c.md")
MCMentions == (a1 :> {1}) @@ (a2 :> {1, 2}) @@ (b2 :> {2}) @@ (c3 :> {3})
MCBeginning == (a1 :> g1) @@ (a2 :> g2) @@ (b2 :> g3) @@ (c3 :> g2)
MCOpening == (a1 :> h1) @@ (a2 :> h2) @@ (b2 :> h2) @@ (c3 :> h2)
MCRankings == {<<MCRow(a1, "tail"), MCRow(a1, "head"), MCRow(b2, "head"), MCRow(c3, "head")>>,
               <<MCRow(b2, "head"), MCRow(a2, "head"), MCRow(c3, "head"), MCRow(a1, "tail")>>}
MCKeywordOrders == {<<a1, c3, a2, b2>>, <<b2, a1>>}
MCCorpus == <<"a.md", "b.md", "c.md">>
\* A question asks for two articles by number, or for none.
MCQuestions == [r \in Request |-> {{1, 2}, {}}]
=============================================================================
