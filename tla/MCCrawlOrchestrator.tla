------------------------ MODULE MCCrawlOrchestrator ------------------------
(* Small sites for CrawlOrchestrator. *)
EXTENDS CrawlOrchestrator, TLC

CONSTANTS r, a, b, c, d

\* The root r, pages that link to each other, and a page d that is blocked.
Site == (r :> <<a, b>>) @@ (a :> <<c, r>>) @@ (b :> <<d, a, c>>) @@ (c :> <<a>>) @@ (d :> <<>>)

\* A sitemap that names one or two pages, then the root.
SmallSitemap == <<b, r>>
LargeSitemap == <<b, a, b, r>>
=============================================================================
