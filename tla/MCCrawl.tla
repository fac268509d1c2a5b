------------------------------ MODULE MCCrawl -------------------------------
(* Instances of Crawl for TLC: one host, sites that redirect or do not, sizes of documents. *)
EXTENDS Crawl, TLC

CONSTANTS h1

OneHost == [u \in Urls |-> h1]

\* No site redirects.
Staying == [u \in Urls |-> u]

\* Every site redirects permanently to one of them.
Moving == [u \in Urls |-> CHOOSE v \in Urls : TRUE]

\* One entry per document.
Short == [v \in 1..MaxVersion |-> 1]

\* The first version has one entry more than a fetch takes, the later ones have one entry.
Shrinking == [v \in 1..MaxVersion |-> IF v = 1 THEN MaxEntries + 1 ELSE 1]

FeedSymmetry == Permutations(Tasks) \union Permutations(Feeds)
====
