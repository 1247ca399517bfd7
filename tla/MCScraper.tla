------------------------------- MODULE MCScraper -------------------------------
EXTENDS Scraper

CONSTANTS s1, s2, u1, u2

SiteSet   == {s1, s2}
UrlSet    == {u1, u2}
\* s1 has an API, s2 a feed; both may fall through to the HTML crawl.
MethodsOf == [s \in SiteSet |-> IF s = s1 THEN {"json"} ELSE {"rss"}]
\* Both sites list u2, which is too old for their window.
LinksOf   == [s \in SiteSet |-> IF s = s1 THEN {u1, u2} ELSE {u2}]
OldOnes   == {u2}
================================================================================
