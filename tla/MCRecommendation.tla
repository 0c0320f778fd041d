-------------------------- MODULE MCRecommendation --------------------------
(* A user with two tags: his weights decide whether a feed searches for both, or for *)
(* one of them or none and for popular articles too.                                 *)
EXTENDS Recommendation

CONSTANTS s1, feed1, click1

MCTags == {1, 2}
MCTagsOf == [s \in {s1} |-> {1}]
MCClicks == {{}, {2}}

Art(url, source, tags, likes, age) ==
    [url |-> url, source |-> source, tags |-> tags, likes |-> likes, age |-> age]

\* Windows of 1, 2 and 3: for tag 1 Zenn has only 5, which is old, and for 2 also 3, which
\* is fresh; 4 is found without a tag only.
MCArticles == {
    Art(1, "qiita", {1}, 5, 0),
    Art(2, "qiita", {2}, 1, 1),
    Art(3, "zenn", {2}, 1, 1),
    Art(4, "zenn", {}, 2, 2),
    Art(5, "zenn", {1, 2}, 3, 3)}

=============================================================================
