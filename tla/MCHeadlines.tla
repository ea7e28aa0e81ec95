---------------------------- MODULE MCHeadlines -----------------------------
(***************************************************************************)
(* Small tables for TLC: two abc and three us headlines around two days,   *)
(* with ties of rank within and across the corpora.                        *)
(***************************************************************************)
EXTENDS Headlines

Headline(source, time, ticker, rank) ==
    [source |-> source, time |-> time, ticker |-> ticker, rank |-> rank]

FiveHeadlines ==
    {Headline("abc", 2, "none", 1), Headline("abc", 4, "none", 2),
     Headline("analyst", 3, "AAPL", 2), Headline("partner", 4, "AAPL", 3),
     Headline("partner", 5, "MSFT", 1)}
=============================================================================
