--------------------------------- MODULE Feed ---------------------------------
(***************************************************************************)
(* The market data bridge, src/app/market_data.py: a thread asks yfinance  *)
(* for the watchlist, leaves out tickers that failed three times, and the  *)
(* loop hands each quote to the strategy and to the browsers on /ws/market *)
(* one after the other, while discovery adds tickers and browsers come and *)
(* go at every await.                                                      *)
(***************************************************************************)
EXTENDS Integers, SequencesExt

CONSTANTS
    Tickers,        \* tickers with an .NS or .BO ending
    First,          \* STRATEGY_TICKERS, a sequence
    Clients,        \* sockets; each is opened once
    Prices,         \* last trades of the market
    None,           \* no price yet
    Failures,       \* 3, market_data.py:118
    MaxFaults,      \* bound: answers of the source that lack something
    MaxEvents       \* bound: arrivals, departures, discoveries and price moves

ASSUME FirstAssumption == First \in Seq(Tickers)
ASSUME PricesAssumption == None \notin Prices
ASSUME BoundsAssumption ==
    Failures \in Nat \ {0} /\ MaxFaults \in Nat /\ MaxEvents \in Nat

VARIABLES
    pc,         \* "sleep", "download" (in the thread), "quote" or "send"
    watch,      \* NSE_TICKERS
    asked,      \* tickers in the request under way
    failures,   \* _ticker_failures
    bad,        \* _bad_tickers
    quotes,     \* quotes the loop has yet to hand out, the present one first
    latest,     \* _latest, price by ticker
    fed,        \* what the strategy has been called back with last
    clients,    \* self.clients
    next,       \* the list iterator
    sending,    \* the client whose send is awaited, as a set
    shown,      \* what a browser shows of each ticker
    market,     \* last trade of each ticker
    refused,    \* history: answers that lacked a ticker that had been asked for
    streak,     \* history: answers in a row that lacked it, asked for or not
    faults, events

vars == <<pc, watch, asked, failures, bad, quotes, latest, fed, clients, next, sending,
          shown, market, refused, streak, faults, events>>
pollVars == <<watch, asked, failures, bad, refused, streak, faults>>
handVars == <<quotes, latest, fed, next, sending>>
sideVars == <<clients, shown, market, events>>

Blank == [t \in Tickers |-> None]

Init ==
    /\ pc = "sleep" /\ watch = First /\ asked = {}
    /\ failures = [t \in Tickers |-> 0] /\ bad = {}
    /\ refused = [t \in Tickers |-> 0] /\ streak = [t \in Tickers |-> 0]
    /\ quotes = <<>> /\ latest = Blank /\ fed = Blank
    /\ clients = <<>> /\ next = 1 /\ sending = {}
    /\ shown = [c \in Clients |-> Blank]
    /\ market \in [Tickers -> Prices]
    /\ faults = 0 /\ events = 0

-------------------------------------------------------------------------------
(* _poll_yfinance, in a thread of its own.                                   *)

\* " ".join(NSE_TICKERS)
Ask ==
    /\ pc = "sleep"
    /\ pc' = "download" /\ asked' = ToSet(watch)
    /\ UNCHANGED <<watch, failures, bad, refused, streak, faults, handVars, sideVars>>

\* The download raises or is empty: no failure of anyone.
DownloadFails ==
    /\ pc = "download" /\ faults < MaxFaults
    /\ faults' = faults + 1
    /\ pc' = "sleep"
    /\ UNCHANGED <<watch, asked, failures, bad, refused, streak, handVars, sideVars>>

\* Mutant of Drops: a single failure is enough.
DropsAtOnce(n) == n >= 1

\* _ticker_failures[t] >= 3
Drops(n) == n >= Failures

\* Mutant of Quoted: a ticker that failed before is left out.
QuotedUnfailed(blank, missing) ==
    SelectSeq(watch, LAMBDA t : t \notin blank \cup missing /\ failures[t] = 0)

\* What a poll yields: no bad tickers, none that are not in the answer, and
\* none whose last row is empty, below zero or NaN (int(NaN) raises).
Quoted(blank, missing) ==
    SelectSeq(watch, LAMBDA t : t \notin bad \cup blank \cup missing)

\* The answer is read with the watchlist of now: what discovery has added since
\* the request is missing too.  No success takes a failure back.  When a single
\* ticker is watched, the answer is about it.
Answer ==
    /\ pc = "download"
    /\ \E lacking, blank \in SUBSET asked :
       LET missing == lacking \cup (ToSet(watch) \ asked)
           failing == missing \ bad
           served  == Quoted(blank, missing)
       IN  /\ Len(watch) = 1 => lacking = {}
           /\ faults' = faults + Cardinality(lacking \cup blank) /\ faults' <= MaxFaults
           /\ failures' = [t \in Tickers |-> failures[t] + (IF t \in failing THEN 1 ELSE 0)]
           /\ refused' = [t \in Tickers |-> refused[t] + (IF t \in lacking THEN 1 ELSE 0)]
           /\ streak' = [t \in Tickers |-> IF t \in missing THEN streak[t] + 1 ELSE 0]
           /\ bad' = bad \cup {t \in failing : Drops(failures'[t])}
           /\ quotes' = [i \in DOMAIN served |->
                            [ticker |-> served[i], price |-> market[served[i]]]]
    /\ pc' = "quote"
    /\ UNCHANGED <<watch, asked, latest, fed, next, sending, sideVars>>

-------------------------------------------------------------------------------
(* start(): the quotes, one by one, to the callbacks and to every client.    *)

\* Mutant of NextQuote: a price that has not moved is not sent.
NextQuoteIfNew ==
    /\ pc = "quote"
    /\ IF quotes = <<>>
       THEN pc' = "sleep" /\ UNCHANGED <<quotes, latest, fed, next>>
       ELSE LET q == Head(quotes) IN
            /\ IF latest[q.ticker] = q.price
               THEN quotes' = Tail(quotes) /\ UNCHANGED <<pc, next>>
               ELSE pc' = "send" /\ next' = 1 /\ UNCHANGED quotes
            /\ latest' = [latest EXCEPT ![q.ticker] = q.price]
            /\ fed' = [fed EXCEPT ![q.ticker] = q.price]
    /\ UNCHANGED <<sending, pollVars, sideVars>>

NextQuote ==
    /\ pc = "quote"
    /\ IF quotes = <<>>
       THEN pc' = "sleep" /\ UNCHANGED <<latest, fed, next>>
       ELSE LET q == Head(quotes) IN
            /\ pc' = "send" /\ next' = 1
            /\ latest' = [latest EXCEPT ![q.ticker] = q.price]
            /\ fed' = [fed EXCEPT ![q.ticker] = q.price]
    /\ UNCHANGED <<quotes, sending, pollVars, sideVars>>

\* `for ws in self.clients`: the next of the list as it is now.
SendNext ==
    /\ pc = "send" /\ sending = {}
    /\ IF next <= Len(clients)
       THEN sending' = {clients[next]} /\ next' = next + 1 /\ UNCHANGED <<pc, quotes>>
       ELSE pc' = "quote" /\ quotes' = Tail(quotes) /\ UNCHANGED <<next, sending>>
    /\ UNCHANGED <<latest, fed, pollVars, sideVars>>

\* The send returns, or raises, which is passed over: the client stays listed.
Sent ==
    /\ sending # {}
    /\ sending' = {}
    /\ LET q == Head(quotes) IN
       shown' = [c \in Clients |-> IF c \in sending \cap ToSet(clients)
                                   THEN [shown[c] EXCEPT ![q.ticker] = q.price]
                                   ELSE shown[c]]
    /\ UNCHANGED <<pc, quotes, latest, fed, next, clients, market, events, pollVars>>

-------------------------------------------------------------------------------
(* The other tasks.                                                          *)

Event == events < MaxEvents /\ events' = events + 1

\* market_ws: accept, add_client.
Join(c) ==
    /\ Event /\ c \notin ToSet(clients) /\ shown[c] = Blank
    /\ clients' = Append(clients, c)
    /\ UNCHANGED <<pc, shown, market, pollVars, handVars>>

\* WebSocketDisconnect: remove_client, also under the iterator.
Leave(c) ==
    /\ Event /\ c \in ToSet(clients)
    /\ clients' = SelectSeq(clients, LAMBDA d : d # c)
    /\ UNCHANGED <<pc, shown, market, pollVars, handVars>>

\* POST /tickers/discover: _add_tickers; a ticker once listed stays listed.
Discover(t) ==
    /\ Event /\ t \notin ToSet(watch)
    /\ watch' = Append(watch, t)
    /\ UNCHANGED <<pc, asked, failures, bad, refused, streak, faults, handVars, clients, shown,
                   market>>

Trade(t, price) ==
    /\ Event /\ price # market[t]
    /\ market' = [market EXCEPT ![t] = price]
    /\ UNCHANGED <<pc, clients, shown, pollVars, handVars>>

Loop == Ask \/ DownloadFails \/ Answer \/ NextQuote \/ SendNext \/ Sent

Next ==
    \/ Loop
    \/ \E c \in Clients : Join(c) \/ Leave(c)
    \/ \E t \in Tickers : Discover(t) \/ \E price \in Prices : Trade(t, price)

Spec == Init /\ [][Next]_vars

\* The loop goes on: a download ends, and a send that no browser reads ends with
\* its connection (keep-alive pings of the server).
FairSpec == Spec /\ WF_vars(Loop)

-------------------------------------------------------------------------------
Quote == [ticker : Tickers, price : Prices]

TypeOK ==
    /\ pc \in {"sleep", "download", "quote", "send"}
    /\ watch \in Seq(Tickers) /\ asked \in SUBSET Tickers
    /\ failures \in [Tickers -> Nat] /\ bad \in SUBSET Tickers
    /\ refused \in [Tickers -> Nat] /\ streak \in [Tickers -> Nat]
    /\ quotes \in Seq(Quote)
    /\ latest \in [Tickers -> Prices \cup {None}]
    /\ fed \in [Tickers -> Prices \cup {None}]
    /\ clients \in Seq(Clients) /\ next \in Nat \ {0} /\ sending \in SUBSET Clients
    /\ shown \in [Clients -> [Tickers -> Prices \cup {None}]]
    /\ market \in [Tickers -> Prices]
    /\ faults \in Nat /\ events \in Nat

(* A ticker is dropped for good only when the source has left it out of its *)
(* answers twice at least: the failure that discovery causes by adding it   *)
(* between request and answer is never enough.                              *)
DroppedForCause == \A t \in bad : refused[t] >= Failures - 1

(* The strategy is called back with the last price of every ticker watched  *)
(* that is not dropped, however often answers lacked it before.             *)
FedInTheEnd ==
    \A t \in Tickers :
        (t \in ToSet(watch)) ~> (t \in bad \/ fed[t] = market[t])

(* A browser that stays comes to show the last price of every such ticker,  *)
(* though a departure under the iterator makes it miss a quote.             *)
ShownInTheEnd ==
    \A c \in Clients, t \in Tickers :
        (c \in ToSet(clients) /\ t \in ToSet(watch))
            ~> (t \in bad \/ c \notin ToSet(clients) \/ shown[c][t] = market[t])

-------------------------------------------------------------------------------
(* market_data.py:120, "3 consecutive failures": no answer in between had  *)
(* the ticker that is dropped.                                              *)
DroppedInARow == [][\A t \in bad' \ bad : streak'[t] >= Failures]_vars

===============================================================================
