------------------------------ MODULE Universe ------------------------------
(***************************************************************************)
(* The miner StockCluster: it asks a provider for the number of its listed   *)
(* tickers, for all pages of the list at once, for the details of every      *)
(* ticker at once, and saves those of active companies in ticker_data, from  *)
(* which scanners and strategies choose by sector or industry.               *)
(*                                                                         *)
(* Requests that end in a ConnectionError and saves that find too many       *)
(* connections are made again until they succeed: an answer that comes later. *)
(***************************************************************************)
EXTENDS Integers, Sequences, FiniteSets, SequencesExt

CONSTANTS
  MaxTicker,   \* tickers 1 .. MaxTicker, in the order of a list
  PerPage,     \* tickers on a page
  Sectors,     \* of companies; "" for none
  MaxChanges,  \* bound: listings and delistings
  MaxRuns,     \* bound: runs of the miner
  None

ConstantsAssumption ==
  /\ MaxTicker \in Nat /\ PerPage \in Nat \ {0}
  /\ MaxChanges \in Nat /\ MaxRuns \in Nat
  /\ None \notin Sectors

VARIABLES
  listing,      \* the provider's tickers
  sector,       \* the provider's details of a ticker
  relisted,      \* of the listing
  runs,         \* of the miner
  phase,        \* of the run
  fetched,      \* of each page: None or its tickers
  tickers,      \* all tickers fetched
  asked,        \* places in tickers whose details are still to come
  info,         \* places whose details are to be saved
  ticker_data,  \* the table: the sector of a symbol, None without a row
  steady,       \* history: the list is the one that was counted
  unknown       \* history: tickers without details in this run

provider == <<listing, sector, relisted>>
vars == <<provider, runs, phase, fetched, tickers, asked, info, ticker_data, steady, unknown>>

Tickers == 1 .. MaxTicker

Init ==
  /\ listing \in SUBSET Tickers /\ sector \in [Tickers -> Sectors] /\ relisted = 0
  /\ runs = 0 /\ phase = "idle"
  /\ fetched = <<>> /\ tickers = <<>> /\ asked = {} /\ info = {}
  /\ ticker_data = [t \in Tickers |-> None]
  /\ steady = FALSE /\ unknown = {}

\* The provider lists a ticker or ends its listing: the pages after it shift.
Relist(t) ==
  /\ relisted < MaxChanges /\ relisted' = relisted + 1
  /\ listing' = IF t \in listing THEN listing \ {t} ELSE listing \cup {t}
  /\ steady' = FALSE
  /\ UNCHANGED <<sector, runs, phase, fetched, tickers, asked, info, ticker_data, unknown>>

\* The list is in the order of the tickers: before the k-th are k - 1 others.
Listed ==
  [k \in 1 .. Cardinality(listing) |->
     CHOOSE t \in listing : Cardinality({u \in listing : u <= t}) = k]

Smaller(a, b) == IF a < b THEN a ELSE b
Page(p) ==
  SubSeq(Listed, (p - 1) * PerPage + 1, Smaller(p * PerPage, Len(Listed)))

\* _get_count; the pages are range(1, count // 50 + 1).
Pages_EndExcluded(count) == 1 .. (count \div PerPage) - 1
Pages(count) == 1 .. count \div PerPage

GetCount ==
  /\ phase \in {"idle", "done", "failed"} /\ runs < MaxRuns
  /\ runs' = runs + 1
  /\ phase' = "pages"
  /\ fetched' = [p \in Pages(Cardinality(listing)) |-> None]
  /\ steady' = TRUE /\ unknown' = {}
  /\ UNCHANGED <<provider, tickers, asked, info, ticker_data>>

Fetch(p) ==
  /\ phase = "pages" /\ fetched[p] = None
  /\ fetched' = [fetched EXCEPT ![p] = Page(p)]
  /\ UNCHANGED <<provider, runs, phase, tickers, asked, info, ticker_data, steady, unknown>>

\* gather: the pages in their order.
PagesGathered ==
  /\ phase = "pages" /\ \A p \in DOMAIN fetched : fetched[p] # None
  /\ phase' = "details"
  /\ tickers' = FlattenSeq(fetched)
  /\ asked' = DOMAIN tickers' /\ info' = {}
  /\ UNCHANGED <<provider, runs, fetched, ticker_data, steady, unknown>>

\* _fetch_symbol_details: nothing is kept of a company that is not active or
\* whose details are not found.
FetchDetails(i) ==
  /\ phase = "details" /\ i \in asked
  /\ asked' = asked \ {i}
  /\ \E found \in BOOLEAN :
       /\ info' = IF found /\ tickers[i] \in listing THEN info \cup {i} ELSE info
       /\ unknown' = IF found THEN unknown ELSE unknown \cup {tickers[i]}
  /\ UNCHANGED <<provider, runs, phase, fetched, tickers, ticker_data, steady>>

DetailsGathered ==
  /\ phase = "details" /\ asked = {}
  /\ phase' = "saving"
  /\ UNCHANGED <<provider, runs, fetched, tickers, asked, info, ticker_data, steady, unknown>>

\* TickerData.save: an insert or an update of the row.
Save(i) ==
  /\ phase = "saving" /\ i \in info
  /\ ticker_data' = [ticker_data EXCEPT ![tickers[i]] = sector[tickers[i]]]
  /\ info' = info \ {i}
  /\ UNCHANGED <<provider, runs, phase, fetched, tickers, asked, steady, unknown>>

SavesGathered ==
  /\ phase = "saving" /\ info = {}
  /\ phase' = "done"
  /\ UNCHANGED <<provider, runs, fetched, tickers, asked, info, ticker_data, steady, unknown>>

\* Anything else that is raised, as by an answer that is not JSON, ends the run;
\* what was saved until then stays.
Fail ==
  /\ phase \in {"pages", "details", "saving"}
  /\ phase' = "failed"
  /\ UNCHANGED <<provider, runs, fetched, tickers, asked, info, ticker_data, steady, unknown>>

Next ==
  \/ \E t \in Tickers : Relist(t)
  \/ GetCount \/ PagesGathered \/ DetailsGathered \/ SavesGathered \/ Fail
  \/ \E p \in DOMAIN fetched : Fetch(p)
  \/ \E i \in DOMAIN tickers : FetchDetails(i) \/ Save(i)

Spec == Init /\ [][Next]_vars

-----------------------------------------------------------------------------
(* What is read of the table.  A name that is empty or NULL is left out.     *)

Rows == {t \in Tickers : ticker_data[t] # None}
SectorTickers(s) == {t \in Rows : ticker_data[t] = s}
SectorsTickers(names) == UNION {SectorTickers(s) : s \in names}
MarketSectors == {ticker_data[t] : t \in Rows} \ {""}

-----------------------------------------------------------------------------

\* Every variable has its type.
TypeOK ==
  /\ listing \subseteq Tickers /\ sector \in [Tickers -> Sectors]
  /\ relisted \in 0 .. MaxChanges /\ runs \in 0 .. MaxRuns
  /\ phase \in {"idle", "pages", "details", "saving", "done", "failed"}
  /\ fetched \in Seq({None} \cup Seq(Tickers)) /\ tickers \in Seq(Tickers)
  /\ asked \subseteq DOMAIN tickers /\ info \subseteq DOMAIN tickers
  /\ ticker_data \in [Tickers -> Sectors \cup {None}] /\ steady \in BOOLEAN
  /\ unknown \subseteq Tickers

\* After a run during which the list did not change, the table has what is
\* listed and has details, and each company with a sector is found by it among
\* the market's sectors.  But not the companies of a last page that is not
\* full: that page is never fetched.
OnFullPage(k) == (k - 1) \div PerPage < Len(Listed) \div PerPage
Found(t) ==
  /\ ticker_data[t] = sector[t]
  /\ sector[t] # "" => t \in SectorsTickers(MarketSectors)
MinedIsFound ==
  phase = "done" /\ steady =>
    \A k \in DOMAIN Listed :
      OnFullPage(k) /\ Listed[k] \notin unknown => Found(Listed[k])
=============================================================================
