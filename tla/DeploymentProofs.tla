-------------------------- MODULE DeploymentProofs --------------------------
(***************************************************************************)
(* Proofs about Migration and Deployment: for every set of coins and every *)
(* way to write SYMBOLS, over any number of interruptions and restarts.    *)
(***************************************************************************)
EXTENDS Deployment, TLAPS

-----------------------------------------------------------------------------
(* The migration.  Under way, the transaction sees what was committed and   *)
(* the objects of the statements it has executed; the revision is the last. *)

MigrationInv ==
  /\ MigrationTypeOK
  /\ SchemaWhole
  /\ container = "upgrade" =>
       working = schema \cup {Upgrade[i] : i \in 1..executed}

LEMMA ObjectsOfUpgrade ==
  /\ Len(Upgrade) = 7
  /\ Objects = {Upgrade[i] : i \in 1..7}
  /\ \A i \in 1..7 : Upgrade[i] \in Objects /\ (Upgrade[i] = "0001" => i = 7)
  /\ "0001" \in Objects /\ Tables \subseteq Dropped /\ "0001" \in Dropped
<1>1. Len(Upgrade) = 7 /\ DOMAIN Upgrade = 1..7
  BY DEF Upgrade
<1>2. /\ Upgrade[1] = "timescaledb" /\ Upgrade[2] = "trades"
      /\ Upgrade[3] = "trades_hypertable" /\ Upgrade[4] = "candles_1m"
      /\ Upgrade[5] = "candles_1m_hypertable" /\ Upgrade[6] = "pipeline_status"
      /\ Upgrade[7] = "0001"
  BY DEF Upgrade
<1>3. \A i \in 1..7 : i \in {1, 2, 3, 4, 5, 6, 7}
  OBVIOUS
<1>4. Objects = {Upgrade[i] : i \in 1..7}
  BY <1>1 DEF Objects
<1>5. \A i \in 1..7 : Upgrade[i] = "0001" => i = 7
  BY <1>2, <1>3
<1>6. {"trades", "candles_1m", "pipeline_status", "0001"} \subseteq Objects
  BY <1>2, <1>4
<1> QED
  BY <1>1, <1>4, <1>5, <1>6 DEF Tables, Dropped

LEMMA MigrationInitInv == MigrationInit => MigrationInv
BY ObjectsOfUpgrade
   DEF MigrationInit, MigrationInv, MigrationTypeOK, SchemaWhole, Objects, Tables,
       Upgrade

LEMMA MigrationNextInv ==
  MigrationInv /\ [MigrationNext]_migration => MigrationInv'
<1> SUFFICES ASSUME MigrationInv, [MigrationNext]_migration PROVE MigrationInv'
  OBVIOUS
<1> USE DEF MigrationInv, MigrationTypeOK, SchemaWhole
<1>1. CASE Launch
  BY <1>1, ObjectsOfUpgrade DEF Launch
<1>2. CASE Execute
  <2>1. /\ working' = working \cup {Upgrade[executed + 1]}
        /\ schema' = schema /\ container' = "upgrade" /\ container = "upgrade"
        /\ executed' = executed + 1 /\ database' = database
        /\ "0001" \notin working
    BY <1>2 DEF Execute, Pending, Durable
  <2>2. executed # 7
    BY <2>1, ObjectsOfUpgrade
  <2>3. executed + 1 \in 1..7 /\ Upgrade[executed + 1] \in Objects
    BY <2>2, ObjectsOfUpgrade
  <2>4. working' = schema' \cup {Upgrade[i] : i \in 1..executed'}
    BY <2>1, <2>3
  <2> QED
    BY <2>1, <2>3, <2>4, ObjectsOfUpgrade
<1>3. CASE Commit
  <2>1. /\ schema' = working /\ container' = "serve" /\ container = "upgrade"
        /\ "0001" \in working /\ working' = {} /\ executed' = 0
        /\ database' = database
    BY <1>3 DEF Commit
  <2>2. working = Objects
    <3>1. CASE "0001" \in schema
      BY <2>1, <3>1
    <3>2. CASE "0001" \notin schema
      <4>1. PICK i \in 1..executed : Upgrade[i] = "0001"
        BY <2>1, <3>2
      <4>2. executed = 7
        BY <4>1, ObjectsOfUpgrade
      <4> QED
        BY <2>1, <4>2, ObjectsOfUpgrade
    <3> QED
      BY <3>1, <3>2
  <2> QED
    BY <2>1, <2>2, ObjectsOfUpgrade
<1>4. CASE Stop
  BY <1>4 DEF Stop
<1>5. CASE DatabaseTurns
  BY <1>5 DEF DatabaseTurns
<1>6. CASE Downgrade
  BY <1>6, ObjectsOfUpgrade DEF Downgrade, Dropped
<1>7. CASE UNCHANGED migration
  BY <1>7 DEF migration
<1> QED
  BY <1>1, <1>2, <1>3, <1>4, <1>5, <1>6, <1>7 DEF MigrationNext

\* What the deployment does to the database and the container are steps of the
\* migration, so that what is proved of the one holds in the other.
LEMMA DeploymentMigrates == [Next]_vars => [MigrationNext]_migration
BY DEF Next, vars, MigrationNext, Serve, ServerStops, Reconfigure, DropTables,
       Starts, Backfill, Connect, Drop, Dispatch, OpenPage, LiveTurns, ClosePage

LEMMA MigrationHolds == Spec => []MigrationInv
<1>1. Init => MigrationInv
  BY MigrationInitInv DEF Init
<1>2. MigrationInv /\ [Next]_vars => MigrationInv'
  BY DeploymentMigrates, MigrationNextInv
<1> QED
  BY <1>1, <1>2, PTL DEF Spec

\* An interrupted migration leaves nothing behind, wherever it is interrupted,
\* and the server never runs on a part of the schema.
THEOREM SchemaIsWhole == Spec => []SchemaWhole
<1>1. MigrationInv => SchemaWhole
  BY DEF MigrationInv
<1> QED
  BY <1>1, MigrationHolds, PTL

-----------------------------------------------------------------------------
(* Routing.  All names in the server and in the database are the capital    *)
(* ones, and the open socket asked for streams of configured symbols only.  *)

Capitals == {s \in Symbol : s.spelled = "upper"}

RoutingInv ==
  /\ symbol_list \subseteq Capitals /\ buffers = symbol_list
  /\ streams \subseteq BuildStreamUrl(symbol_list)
  /\ container # "serve" => streams = {}
  /\ rows \subseteq [table : Tables, symbol : Capitals]
  /\ raised = FALSE
  /\ symbols_env \in Values /\ connected \in BOOLEAN /\ live \in BOOLEAN
  /\ tabs = NoPage \/ tabs \subseteq Symbol
  /\ fed \subseteq tabs

\* Whatever the spelling of a token, its name is a capital one.
LEMMA ListIsCapital ==
  ASSUME NEW value \in Values
  PROVE  SymbolList(value) \subseteq Capitals
<1>1. \A t \in value \ {Blank} : t.symbol \in Symbol
  BY DeploymentAssumption DEF Token
<1>2. \A s \in Symbol : Upper(s) \in Capitals
  BY DEF Symbol, Upper, Capitals
<1> QED
  BY <1>1, <1>2 DEF SymbolList, Normalized

\* The symbol of a payload is the one its stream was asked for with.
LEMMA StreamSymbol ==
  ASSUME NEW list \in SUBSET Capitals, NEW stream \in BuildStreamUrl(list)
  PROVE  Upper(stream.symbol) \in list
<1>1. PICK s \in list, kind \in {"trade", "kline"} : stream = StreamName(s, kind)
  BY DEF BuildStreamUrl
<1>2. stream.symbol = Lower(s)
  BY <1>1 DEF StreamName
<1>3. s \in [coin : Coins, spelled : {"upper", "lower"}] /\ s.spelled = "upper"
  BY DEF Capitals, Symbol
<1>4. Upper(Lower(s)) = s
  BY <1>3 DEF Upper, Lower
<1> QED
  BY <1>2, <1>4

LEMMA RowType ==
  ASSUME NEW table \in Tables, NEW s \in Capitals
  PROVE  Row(table, s) \in [table : Tables, symbol : Capitals]
BY DEF Row

LEMMA FallbackType == FallbackSymbols \subseteq Symbol
BY DeploymentAssumption DEF FallbackSymbols, Capital, Symbol

LEMMA NextRouting == RoutingInv /\ [Next]_vars => RoutingInv'
<1> SUFFICES ASSUME RoutingInv, [Next]_vars PROVE RoutingInv'
  OBVIOUS
<1> USE DEF RoutingInv, migration, server, page
<1>a. {"trades", "candles_1m", "pipeline_status"} \subseteq Tables
  BY DEF Tables
<1>b. Capitals \subseteq Symbol
  BY DEF Capitals
<1>1. CASE Serve
  <2>1. SymbolList(symbols_env) \subseteq Capitals
    BY ListIsCapital
  <2>2. streams = {} /\ container' = "serve"
    BY <1>1 DEF Serve, Commit
  <2> QED
    BY <1>1, <2>1, <2>2 DEF Serve
<1>2. CASE ServerStops
  BY <1>2 DEF ServerStops
<1>3. CASE Reconfigure
  BY <1>3 DEF Reconfigure
<1>4. CASE DropTables
  BY <1>4 DEF DropTables, Downgrade
<1>5. CASE Starts
  <2>1. container' # "serve" => container # "serve"
    BY <1>5 DEF Starts, Launch, Execute, Pending, DatabaseTurns
  <2>2. container # "serve" => container' # "serve"
    BY <1>5 DEF Starts, Launch, Execute, Pending, DatabaseTurns
  <2> QED
    BY <1>5, <2>1, <2>2 DEF Starts
<1>6. ASSUME NEW s \in symbol_list, Backfill(s) PROVE RoutingInv'
  <2>1. rows' \subseteq [table : Tables, symbol : Capitals]
    BY <1>6, <1>a, RowType DEF Backfill
  <2> QED
    BY <1>6, <2>1 DEF Backfill
<1>7. CASE Connect
  <2>1. rows' \subseteq [table : Tables, symbol : Capitals]
    BY <1>7, <1>a, RowType DEF Connect
  <2> QED
    BY <1>7, <2>1 DEF Connect, Serving
<1>8. CASE Drop
  BY <1>8 DEF Drop, CloseSocket
<1>9. ASSUME NEW stream \in streams, NEW event \in {"trade", "kline", "other"},
             Dispatch(stream, event)
      PROVE  RoutingInv'
  <2>1. Upper(stream.symbol) \in symbol_list
    BY StreamSymbol
  <2>2. \A m \in ParseMessage(Payload(stream, event)) : m.symbol \in symbol_list
    BY <2>1 DEF ParseMessage, Payload
  <2>3. UNCHANGED <<migration, symbols_env, symbol_list, buffers, tabs, live>>
    BY <1>9 DEF Dispatch
  <2>4. CASE UNCHANGED <<rows, raised, streams, connected, fed>>
    BY <2>3, <2>4
  <2>5. ASSUME NEW m \in ParseMessage(Payload(stream, event)),
               HandleTrade(m.symbol), UNCHANGED fed
        PROVE  RoutingInv'
    <3>1. rows' \in {rows, rows \cup {Row("trades", m.symbol),
                                     Row("pipeline_status", m.symbol)}}
          /\ UNCHANGED <<raised, streams, connected>>
      BY <2>2, <2>5 DEF HandleTrade
    <3>2. rows' \subseteq [table : Tables, symbol : Capitals]
      BY <1>a, <2>2, <3>1, RowType
    <3> QED
      BY <2>3, <2>5, <3>1, <3>2
  <2>6. ASSUME NEW m \in ParseMessage(Payload(stream, event)),
               HandleKline(m.symbol), UNCHANGED <<raised, streams, connected>>
        PROVE  RoutingInv'
    <3>1. rows' \subseteq [table : Tables, symbol : Capitals]
      BY <1>a, <2>2, <2>6, RowType DEF HandleKline
    <3>2. fed' \subseteq tabs'
      BY <2>3, <2>6 DEF HandleKline, Reduce
    <3> QED
      BY <2>3, <2>6, <3>1, <3>2
  <2> QED
    BY <1>9, <2>4, <2>5, <2>6 DEF Dispatch
<1>10. CASE OpenPage
  BY <1>10, <1>b, FallbackType DEF OpenPage, GetConfig
<1>11. CASE LiveTurns
  BY <1>11 DEF LiveTurns
<1>12. CASE ClosePage
  BY <1>12 DEF ClosePage
<1>13. CASE UNCHANGED vars
  BY <1>13 DEF vars
<1> QED
  BY <1>1, <1>2, <1>3, <1>4, <1>5, <1>6, <1>7, <1>8, <1>9, <1>10, <1>11, <1>12,
     <1>13 DEF Next

LEMMA RoutingHolds == Spec => []RoutingInv
<1>1. Init => RoutingInv
  BY DEF Init, MigrationInit, RoutingInv
<1> QED
  BY <1>1, NextRouting, PTL DEF Spec

\* No message of a stream that was asked for is ever without its buffer, for
\* every set of coins and every way to write SYMBOLS.
THEOREM NothingIsRaised == Spec => []NothingRaised
<1>1. RoutingInv => NothingRaised
  BY DEF RoutingInv, NothingRaised
<1> QED
  BY <1>1, RoutingHolds, PTL

\* Whatever was written of a coin, from whichever source it was named, is found
\* by a query in any spelling.
THEOREM OneSpellingHolds == Spec => []OneSpelling
<1>1. RoutingInv => OneSpelling
  <2> SUFFICES ASSUME RoutingInv, NEW r \in rows
               PROVE  /\ r.symbol = Capital(r.symbol.coin)
                      /\ \A spelled \in {"upper", "lower"} :
                           Upper([coin |-> r.symbol.coin, spelled |-> spelled])
                             = r.symbol
    BY DEF OneSpelling, GetCandles
  <2>1. r.symbol \in [coin : Coins, spelled : {"upper", "lower"}]
        /\ r.symbol.spelled = "upper"
    BY DEF RoutingInv, Capitals, Symbol
  <2> QED
    BY <2>1 DEF Capital, Upper
<1> QED
  BY <1>1, RoutingHolds, PTL

\* Type correctness of the deployment.
THEOREM TypeCorrect == Spec => []TypeOK
<1>1. \A s \in Symbol : Lower(s) \in Symbol
  BY DEF Symbol, Lower
<1>2. MigrationInv /\ RoutingInv => TypeOK
  <2> SUFFICES ASSUME MigrationInv, RoutingInv PROVE TypeOK
    OBVIOUS
  <2>1. Capitals \subseteq Symbol
    BY DEF Capitals
  <2>2. BuildStreamUrl(symbol_list)
          \subseteq [symbol : Symbol, kind : {"trade", "kline"}]
    BY <1>1, <2>1 DEF BuildStreamUrl, StreamName, RoutingInv
  <2>3. [table : Tables, symbol : Capitals] \subseteq [table : Tables, symbol : Symbol]
    BY <2>1
  <2>4. rows \subseteq [table : Tables, symbol : Symbol]
    BY <2>3 DEF RoutingInv
  <2>5. streams \subseteq [symbol : Symbol, kind : {"trade", "kline"}]
    BY <2>2 DEF RoutingInv
  <2>6. symbol_list \subseteq Symbol /\ buffers \subseteq Symbol
    BY <2>1 DEF RoutingInv
  <2>7. /\ MigrationTypeOK /\ raised \in BOOLEAN
        /\ symbols_env \in Values /\ connected \in BOOLEAN /\ live \in BOOLEAN
        /\ tabs = NoPage \/ tabs \subseteq Symbol
        /\ fed \subseteq tabs
    BY DEF MigrationInv, RoutingInv
  <2> QED
    BY <2>4, <2>5, <2>6, <2>7, Zenon DEF TypeOK
<1> QED
  BY <1>2, MigrationHolds, RoutingHolds, PTL
=============================================================================
