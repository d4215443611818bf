----------------------------- MODULE Deployment -----------------------------
(***************************************************************************)
(* The whole deployment, seen by the way a symbol takes through it: from   *)
(* SYMBOLS in the environment (config.py) into the pipeline's buffers      *)
(* (pipeline.py) and the URL of the stream (binance_ws.py), from Binance's *)
(* messages into the rows of three tables (repository.py), and over        *)
(* /api/config, /api/candles and /ws/live (routes_rest.py, eventbus.py) to *)
(* the tabs of an open page (App.tsx, liveState.ts).  The pipeline runs in *)
(* the container of Migration, which may stop, restart with another        *)
(* SYMBOLS, or find the schema gone, while pages stay open.                *)
(*                                                                         *)
(* The parts are taken as CandleIngestion, TradeIngestion, LiveSocket and  *)
(* Dashboard show them: here a sync, a flush or a delivery is one step.    *)
(***************************************************************************)
EXTENDS Migration

CONSTANTS
  Coins,     \* what is traded
  Fallback,  \* the coins of FALLBACK_SYMBOLS
  Values     \* the values SYMBOLS may have, sets of tokens

\* A symbol is a coin in some spelling; SYMBOLS is split at commas into tokens,
\* which may be blank or have blanks around them.  Their order, which is that of
\* the tabs, is left out.
Symbol == [coin : Coins, spelled : {"upper", "lower"}]
Blank == [blank |-> TRUE]
Token == [symbol : Symbol, padded : BOOLEAN] \cup {Blank}

ASSUME DeploymentAssumption ==
  /\ Fallback \subseteq Coins
  /\ Values \subseteq SUBSET Token

Upper(symbol) == [symbol EXCEPT !.spelled = "upper"]
Lower(symbol) == [symbol EXCEPT !.spelled = "lower"]
Capital(coin) == [coin |-> coin, spelled |-> "upper"]

VARIABLES
  symbols_env,  \* SYMBOLS, as the next start of the container will read it
  symbol_list,  \* get_settings().symbol_list of the running server
  buffers,      \* the keys of the pipeline's _buffers
  streams,      \* the streams that the open socket asked for
  connected,    \* whether the socket is open
  rows,         \* [table, symbol] of the rows in the database
  raised,       \* a handler has raised something else than a database error
  tabs,         \* the symbols of the open page, or NoPage
  live,         \* whether the page's socket to /ws/live is open
  fed           \* the tabs that have had a live kline

server == <<symbol_list, buffers, streams, connected>>
page   == <<tabs, live, fed>>
vars   == <<migration, symbols_env, server, rows, raised, page>>

NoPage == {Blank}

-----------------------------------------------------------------------------
(* Configuration and streams. *)

\* Mutant: stripped, but kept as spelled.
AsSpelled(token) == token.symbol

\* strip().upper() of a token.
Normalized(token) == Upper(token.symbol)

\* Settings.symbol_list: blank tokens are skipped.
SymbolList(value) == {Normalized(token) : token \in value \ {Blank}}

\* Mutant: stream names as the symbols are spelled.
StreamAsIs(symbol, kind) == [symbol |-> symbol, kind |-> kind]

StreamName(symbol, kind) == [symbol |-> Lower(symbol), kind |-> kind]

\* build_stream_url: two streams per symbol.
BuildStreamUrl(symbols) ==
  {StreamName(s, kind) : s \in symbols, kind \in {"trade", "kline"}}

\* Binance knows streams in lower case only, and says nothing of the others.
Served(stream) == stream.symbol.spelled = "lower"

Init ==
  /\ MigrationInit
  /\ symbols_env \in Values
  /\ symbol_list = {} /\ buffers = {} /\ streams = {} /\ connected = FALSE
  /\ rows = {} /\ raised = FALSE
  /\ tabs = NoPage /\ live = FALSE /\ fed = {}

-----------------------------------------------------------------------------
(* The container. *)

Serving == container = "serve" /\ database = "up"

Row(table, symbol) == [table |-> table, symbol |-> symbol]

\* The server starts: settings are read once (lru_cache) and lifespan builds the
\* pipeline for them.
Serve ==
  /\ Commit
  /\ symbol_list' = SymbolList(symbols_env)
  /\ buffers' = symbol_list'
  /\ UNCHANGED <<symbols_env, streams, connected, rows, raised, page>>

\* The container stops at any step, and its sockets with it.
ServerStops ==
  /\ Stop
  /\ symbol_list' = {} /\ buffers' = {} /\ streams' = {} /\ connected' = FALSE
  /\ live' = FALSE
  /\ UNCHANGED <<symbols_env, rows, raised, tabs, fed>>

Reconfigure ==
  /\ container = "down"
  /\ symbols_env' \in Values
  /\ UNCHANGED <<migration, server, rows, raised, page>>

DropTables ==
  /\ Downgrade
  /\ rows' = {}
  /\ UNCHANGED <<symbols_env, server, raised, page>>

Starts ==
  /\ Launch \/ Execute \/ DatabaseTurns
  /\ UNCHANGED <<symbols_env, server, rows, raised, page>>

-----------------------------------------------------------------------------
(* The pipeline. *)

\* sync of one symbol under the spelling it is configured with; Binance's REST
\* API knows upper case only, and answers anything else with an error.
Backfill(symbol) ==
  /\ Serving /\ symbol.spelled = "upper"
  /\ rows' = rows \cup {Row("candles_1m", symbol), Row("pipeline_status", symbol)}
  /\ UNCHANGED <<migration, symbols_env, server, raised, page>>

\* The socket opens and handle_connected marks every symbol.
Connect ==
  /\ Serving /\ ~connected
  /\ connected' = TRUE
  /\ streams' = BuildStreamUrl(symbol_list)
  /\ rows' = rows \cup {Row("pipeline_status", s) : s \in symbol_list}
  /\ UNCHANGED <<migration, symbols_env, symbol_list, buffers, raised, page>>

\* run() leaves the socket and will connect again.
CloseSocket == connected' = FALSE /\ streams' = {}

Drop ==
  /\ connected
  /\ CloseSocket
  /\ UNCHANGED <<migration, symbols_env, symbol_list, buffers, rows, raised, page>>

\* What Binance sends on a stream: its name in lower case, the symbol in the
\* payload in upper case.  Other events have no symbol to look at.
Payload(stream, event) == [e |-> event, s |-> Upper(stream.symbol)]

\* Mutant: the symbol of the stream name, not of the payload.
OfStreamName(payload) ==
  IF payload.e \in {"trade", "kline"}
  THEN {[type |-> payload.e, symbol |-> Lower(payload.s)]} ELSE {}

\* parse_message: nothing (None) for any event but trades and klines.
ParseMessage(payload) ==
  IF payload.e \in {"trade", "kline"}
  THEN {[type |-> payload.e, symbol |-> payload.s]} ELSE {}

\* handle_trade: self._buffers[symbol] raises for a key it does not have, which
\* costs the connection; this trade may or may not flush the batch.
HandleTrade(symbol) ==
  IF symbol \in buffers
  THEN /\ rows' \in {rows, rows \cup {Row("trades", symbol),
                                      Row("pipeline_status", symbol)}}
       /\ UNCHANGED <<raised, streams, connected>>
  ELSE /\ raised' = TRUE
       /\ CloseSocket
       /\ UNCHANGED rows

\* Mutant: the reducer makes a state for every symbol that it is sent.
ReduceAny(symbol) == {symbol}

\* withSymbol: events of symbols without a tab are ignored.
Reduce(symbol) == {symbol} \cap tabs

\* handle_kline stores it and announces it to the page.
HandleKline(symbol) ==
  /\ rows' = rows \cup {Row("candles_1m", symbol)}
  /\ fed' = IF live THEN fed \cup Reduce(symbol) ELSE fed

\* _dispatch of a message of a stream, or of an event of another type.
Dispatch(stream, event) ==
  /\ Serving /\ connected /\ stream \in streams /\ Served(stream)
  /\ event \in {stream.kind, "other"}
  /\ LET parsed == ParseMessage(Payload(stream, event)) IN
     \/ parsed = {} /\ UNCHANGED <<rows, raised, streams, connected, fed>>
     \/ \E m \in parsed :
          \/ m.type = "trade" /\ HandleTrade(m.symbol) /\ UNCHANGED fed
          \/ m.type = "kline" /\ HandleKline(m.symbol)
                              /\ UNCHANGED <<raised, streams, connected>>
  /\ UNCHANGED <<migration, symbols_env, symbol_list, buffers, tabs, live>>

-----------------------------------------------------------------------------
(* The page. *)

\* get_config.
GetConfig == symbol_list

FallbackSymbols == {Capital(c) : c \in Fallback}

\* The page is loaded from the server and asks for /api/config; an empty list, or
\* an answer that does not come, gives the fallback.
OpenPage ==
  /\ container = "serve" /\ tabs = NoPage
  /\ \/ tabs' = IF GetConfig # {} THEN GetConfig ELSE FallbackSymbols
     \/ tabs' = FallbackSymbols
  /\ live' = FALSE /\ fed' = {}
  /\ UNCHANGED <<migration, symbols_env, server, rows, raised>>

\* useLiveFeed opens its socket, loses it, and opens it again.
LiveTurns ==
  /\ tabs # NoPage /\ (~live => container = "serve")
  /\ live' = ~live
  /\ UNCHANGED <<migration, symbols_env, server, rows, raised, tabs, fed>>

ClosePage ==
  /\ tabs # NoPage
  /\ tabs' = NoPage /\ live' = FALSE /\ fed' = {}
  /\ UNCHANGED <<migration, symbols_env, server, rows, raised>>

\* GET /api/candles, whose query may be spelled in any way.
GetCandles(query) ==
  {r \in rows : r.table = "candles_1m" /\ r.symbol = Upper(query)}

-----------------------------------------------------------------------------
Next ==
  \/ Serve \/ ServerStops \/ Reconfigure \/ DropTables \/ Starts
  \/ \E s \in symbol_list : Backfill(s)
  \/ Connect \/ Drop
  \/ \E stream \in streams, event \in {"trade", "kline", "other"} :
       Dispatch(stream, event)
  \/ OpenPage \/ LiveTurns \/ ClosePage

\* Binance keeps sending the klines of what is subscribed to, and they are
\* dispatched while the connection lasts.
Spec ==
  /\ Init /\ [][Next]_vars
  /\ \A c \in Coins :
       WF_vars(\E stream \in streams :
                 stream.symbol.coin = c /\ Dispatch(stream, "kline"))

-----------------------------------------------------------------------------
(* Properties. *)

TypeOK ==
  /\ MigrationTypeOK
  /\ symbols_env \in Values /\ symbol_list \subseteq Symbol
  /\ buffers \subseteq Symbol
  /\ streams \subseteq [symbol : Symbol, kind : {"trade", "kline"}]
  /\ connected \in BOOLEAN /\ raised \in BOOLEAN /\ live \in BOOLEAN
  /\ rows \subseteq [table : Tables, symbol : Symbol]
  /\ tabs = NoPage \/ tabs \subseteq Symbol
  /\ fed \subseteq tabs

\* However SYMBOLS is written, the buffers are found under what Binance sends,
\* for every message of every stream that was asked for: no message costs the
\* connection, which every trade would do again after every reconnection.
NothingRaised == ~raised

\* One coin never has rows under two spellings, although backfill, hooks and
\* stream name them from different sources: whatever was stored of a coin, in any
\* process and under any SYMBOLS, is what a query in any spelling finds.
OneSpelling ==
  \A r \in rows :
    /\ r.symbol = Capital(r.symbol.coin)
    /\ r.table = "candles_1m" =>
         \A spelled \in {"upper", "lower"} :
           r \in GetCandles([coin |-> r.symbol.coin, spelled |-> spelled])

\* Both sockets are up, and all tabs of the open page are collected.
Steady ==
  Serving /\ connected /\ live /\ tabs # NoPage /\ tabs \subseteq symbol_list

\* As README.md:122 says of SYMBOLS and /api/config: once things are steady every
\* tab is fed, whatever SYMBOLS was before and however it is written now.  A tab
\* that the running server does not collect (from a configuration before a
\* restart, or from the fallback) is not promised anything.
PageFed == <>[]Steady => <>[](tabs \subseteq fed)
=============================================================================
