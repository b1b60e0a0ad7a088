# A TLA+ model of the trading system

The repository is a back-testing platform in C++ with two engines.  The newer one
replays market-by-order (MBO) messages: a producer process puts a recording into a
ring in shared memory, an engine process rebuilds the market's order book from it
and runs a market maker against a simulated exchange, with latency in between.  The
older one replays daily bars through an event queue.  The newer engine can also read
its recording from mapped files, and choose among three order books.  This directory
holds TLA+ modules of both engines, configurations that TLC checks on small
instances, and theorems that TLAPS proves for all instances.  Paths below are relative to
`src/src/` unless they begin with `src/`.

## 1. The system

### Components, their state and their operations

| Component | Source | State | Operations |
|---|---|---|---|
| Ring buffer | `SharedMemory/SharedRingBuffer.h` | `head_`, `tail_` (atomics), the slots | `push`, `pop` |
| Feed between processes | `SharedMemory/SharedMemory.h`, `IPCInteractor.h`, `DataProducers/.../DataBentoProducer.cpp`, `IPCBackTestEngineExample.cpp` | the named segment, its size, the magic number | open, size, construct, push records, end marker, wait, poll, unlink |
| Events, network | `Events/Mbo/MboEvent.h`, `NetworkSimulator/NetworkSimulator.h` | a priority queue of timed, numbered events | send outbound, send inbound, top |
| Order management (OMS) | `OrderManagementSystem/*` | table of orders with status and quantities; holdings, cash | create, cancel, and the three acknowledgements |
| Risk manager | `RiskManager/Mbo/MBORiskManager.h` | filled position | check_order, on_fill |
| Market maker | `Strategies/MBOStrategies/MarketMaker/*`, `MBOStrategyBase.h` | tracked id and price per side, position | on_book_update, on_order_filled, on_order_canceled |
| Order book, three versions | `LimitOrderBook/*` | orders, levels per side | update_book (add, modify, cancel, clear), get_bbo, get_level_qty |
| Hash map, object pool | `Common/Containers/*` | buckets; stack of free indices | insert, find, erase, clear; allocate, deallocate |
| Virtual exchange | `VirtualExchange/VirtualExchange.h` | per side a sorted list of levels, each a list of virtual orders with the volume ahead of them | on_create_order, on_cancel_order, on_fill |
| MBO engine | `Events/Mbo/MBOSimulationEngine.h` | the loop: message polled, `engine_time` | run, route_internal_event |
| Mapped consumer | `DataConsumers/DataBentoMappedConsumer/*` | file list, mapping, offset | try_poll, open_next_file |
| Bar engine | `main.cpp`, `ThreadSafeQueue/*` | event queue | one branch per kind of event |
| Bar data handler | `DataHandlers/*` | the bars of each ticker, an index into each | update, get_latest_price_info |
| Moving average strategy | `Strategies/BarStrategies/*` | latest closes and two averages per ticker | on_market_data |
| Bar risk manager, execution handler | `RiskManager/RiskManager.cpp`, `ExecutionHandlers/*` | none of their own | on_signal; on_order |
| Portfolio | `Portfolio/*` | cash, peak equity; quantity, market value and cost basis per ticker | on_fill, on_market_data |
| Statistics, profilers | `Statistics`, `Performance` | measurements | reporting only |

### How they interact

Producer and engine are two processes; all they share is the segment.  The engine
is one thread.  Its loop polls a message, routes every internal event that is due
by the message's timestamp, and then applies the message: to the book, which the
market maker looks at and may answer with cancels and new orders, or, for a fill
of the market, to the exchange.  The market maker calls the OMS, which asks the
risk manager and puts events into the network; when due they reach the exchange,
whose answers go through the network to the OMS and from there to the strategy.
All calls are synchronous, and all concurrency inside the engine is in the
network: at any time a create, a cancel, a fill and their acknowledgements may be
under way for the same order.  The exchange asks the book for the volume at a
price when an order arrives.  With mapped files there is no producer: the engine
polls the consumer, which walks from file to file, until it returns the same empty
message that ends a feed over shared memory.

The bar engine is one thread and one queue.  The data handler pushes the earliest bar
of all tickers; the strategy answers a bar with a signal, the risk manager a signal
with an order, the execution handler an order with a fill, and the portfolio books
it.  Risk manager and execution handler ask the data handler for the latest price,
which has by then moved on to the next bar.

### What is hard

- *Concurrency without locks*: the two sides of the ring act on old values of each
  other's index; the consumer opens the segment while the producer makes it.
- *Messages that cross*: a fill meets a cancel, an acknowledgement comes after the
  order has gone, several events have the same timestamp, and the feed ends while
  events are in the network.
- *State kept twice*: the position in three components, an order in the OMS, the
  exchange and the strategy; a level's total beside the sizes of its orders;
  an order in a list, in the pool and in the hash map.
- *Unsigned arithmetic*: queue positions and totals in the exchange wrap.
- *Limits*: full ring, full order table, exhausted pool, full hash map, the ends of
  the direct-array book and of its search for a best price.
- *The index that has moved on*: in the bar engine cash is checked at one price of the
  coming bar and paid at another, and behind the last bar there is no coming one.
- *Files that fail*: a missing, empty or unmappable file among several.
- *Earlier runs*: a segment that was never unlinked.

`PROJECT.json` lists every such hazard at its line with the properties that watch
over it, or the reason why none does yet.

### What makes each component correct

- Ring: first-in first-out, nothing lost, and never two accesses to a slot at once.
- Feed: the engine gets the recording, all of it, nothing else, and ends after it.
- Network: events leave in order of time, and of creation at equal times.
- OMS, risk, strategy: final statuses are final, positions agree, no tracked order
  is dead and no living order is forgotten, no exception but that of a full table.
- Exchange: price-time priority, exact use of volume, quantities conserved.
- Books: answer as the market's orders would; lists, pool, map and totals agree.
- Mapped consumer: all records of all files in order, and an end after them.
- Bar engine: bars in time, signals at crossings, no trade at a price already seen,
  cash and cost basis explained by the fills.
- Engine: time never runs past an event, and what is in the network is dealt with.

## 2. The modules

| Module | Models | Composes |
|---|---|---|
| `BoundedFifo` | what the ring promises (abstract) | |
| `SharedRingBuffer` | `push` and `pop`, three steps each, with loads that may be old | maps to `BoundedFifo` |
| `SharedRingBufferProofs` | theorems on the ring | |
| `IpcFeed`, `MCIpcFeed` | producer and engine from `shm_open` to `shm_unlink` | the ring as the FIFO it implements |
| `MappedConsumer` | the consumer over files, as operators on its state | |
| `DataConsumers`, `MCDataConsumers` | the engine's reading loop over either consumer | `IpcFeed`, `MappedConsumer` |
| `DataConsumersProofs` | theorems on the feed, over either consumer | `ContainerFacts` |
| `MboEvents` | events, sequence numbers, the network's queue | |
| `OrderManagementSystem` | OMS and risk manager, as operators on the engine's state | `MboEvents` |
| `MarketMaker` | the strategy's callbacks | `OrderManagementSystem` |
| `LimitOrderBook` | a book as its callers see it (`LimitOrderBookConcept`, `DataBentoLOB`) | |
| `VirtualExchange` | the exchange's three handlers | `MboEvents` |
| `VirtualExchangeClient` | the exchange under every legal sequence of calls | `VirtualExchange` |
| `MBOSimulationEngine`, `MCMBOSimulationEngine` | the loop of `run()` with every route | all of the above but the feed |
| `MBOSimulationEngineProofs` | time, the orders the strategy tracks, one order's life in all the components, the accounts: the theorems on the engine | `ContainerFacts` |
| `ContainerFacts` | lemmas on folds and sums over finite sets, on the hash map, and on what the two order books share: pooled nodes linked in queues and found by the map | `FlatHashMap` |
| `VirtualExchangeProofs` | theorems on the exchange, with any number of levels and orders | `ContainerFacts` |
| `ObjectPool`, `FlatHashMap` | the two containers | |
| `OptimizedDataBentoLOB` | pooled nodes, intrusive lists, sorted levels with tombstones | both containers |
| `OrderBooks` | the optimized book, the market's book and its turns on one feed | `OptimizedDataBentoLOB`, `LimitOrderBook` |
| `OrderBooksProofs` | theorems on the optimized book | `ContainerFacts` |
| `DirectArrayLOB` | levels in arrays, pooled nodes, intrusive lists, cached best prices | both containers |
| `DirectArrayBooks` | the direct-array book and the market's book on one feed | `DirectArrayLOB`, `LimitOrderBook` |
| `DirectArrayBooksProofs` | theorems on the direct-array book | `ContainerFacts` |
| `Portfolio` | the account of the bar engine, as operators on its state | |
| `MovingAverageCrossover` | the strategy for one ticker, and what a crossing is | |
| `BarEngine`, `MCBarEngine` | the loop of `main`, data handler, risk manager, execution handler | the two above |
| `BarEngineProofs` | theorems on the bar engine | `ContainerFacts` |

### Correspondence to the code

**Ring.**  `PushCheck`, `PushWrite` and `PushPublish` are the check of the index,
the copy into the slot and the release store of `push`; `PopCheck`, `PopRead` and
`PopPublish` likewise.  An acquire load of the other side's index returns any value
between the one seen last and the current one (`Loads`), which is what coherence of
a single atomic leaves open.  `head_` and `tail_` are then everything the memory
model makes visible late: release and acquire order the slot's content, which is
why a slot is one variable.  A push or pop that returns false is a step that changes
at most the value seen.

**Feed.**  One action per system call or statement that the other process can
observe.  `sized` is the segment's size as `fstat` sees it, `magic` the ring's magic
number.  `ProducerPush` is one pass of the loop that retries; the end marker is one
attempt (`ProducerSignalEnd`).  Push and pop are single steps because the ring is
proved to implement `BoundedFifo`.

**Engine.**  `PollFeed` and `EndOfFeed` are `try_poll`; `RouteCreate`,
`RouteCancel`, `RouteAckCreate`, `RouteAckCancel` and `RouteAckFill` are the
alternatives of `route_internal_event`; `ApplyBookUpdate`, `ApplyFill` and
`ApplyNothing` apply the polled message.  Each does all its calls in one step, as the
one thread does.  The handlers of OMS, risk manager and strategy are operators from a
record of their state to the next; a C++ exception sets `error`, after which nothing
runs.  A queue is a set of events; `IsTop` is the event the heap hands out.  The
code's sequence numbers grow for ever and are compared at equal timestamps only, so
the model numbers an event above those with its timestamp.

**Exchange.**  A side is a sequence of levels and a level has a sequence of orders;
the pools and intrusive links behind them are left out.  `qty_ahead` and
`total_qty_ahead` are words modulo `Word`.

**Optimized book.**  A record of nodes with their links, the free stack, the hash
map's buckets and the levels of each side.  Lists are followed through the links,
not kept as sequences, so that a wrong link shows.  A search in the hash map probes
bucket after bucket.

**Direct-array book.**  Nodes, free stack and map as before; a side is an array of
levels, found by `IndexOf` (`price_to_index`, with division towards zero) from the
first price after a clear.  `Rescanned` is the loop of `recompute_best_bid` and
`recompute_best_ask`, which ends after `ScanTicks` (10,000 in the code).

**Mapped consumer.**  A file is its kind and its records; a record is of type Mbo or
another.  `OpenNextFile` leaves the state in each of the ways the code can: mapped,
unmapped after a file that could not be opened, or with `MAP_FAILED`, which
`unmap_current` does not reset.  One step of `DataConsumers` is one turn of the loop
of `try_poll`; what it returns is taken by the engine in the same step.

**Bar engine.**  `Update` and `EndOfData` are the outer loop, `HandleMarket`,
`HandleSignal`, `HandleOrder` and `HandleFill` the branches of the inner one.  `ahead`
is the bar at `current_index_`, `last` the one before it.  The recording is not fixed
at the start: when a bar is handed out the one behind it is chosen, at any later
time, so that all recordings are explored.  Both averages are multiplied by both
windows and so whole numbers.  Money is whole; only the share of the cost basis
that a partial close removes is rounded.

## 3. The runs

All runs explore their state space completely.

| Run | Bounds | States | What it shows |
|---|---|---|---|
| `ring` | 4 slots, 2 messages | 6,685 | `NoSlotRace`, `StaleIndexIsSafe`, and by `RefinesFifo` and `RefinesFairFifo` that the ring is a bounded queue from which a polling consumer obtains everything |
| `feed` | 14 messages, ring of 7, no earlier segment; or up to 3 files, of 7 sorts | 2,027 | the engine receives the recording (`ReceivesRecording`, `AllDelivered`), from a constructed ring (`PollsConstructedRing`), ends after it (`EndIsAfterData`) and does end when the marker found room (`MarkerEndsRun`) |
| `feed_end` (violation) | 7 messages, ring of 3 | | `EngineEnds` fails: a full ring swallows the end marker |
| `feed_stale` (violation) | as above, with segments of an earlier run | | `PollsConstructedRing` fails: an old magic number is taken for the new one |
| `vx` | 3 orders, 2 prices, words of 3 bits | 134,643 | `LevelsIntact`, `PriceTimePriority`, `VolumeUsed`, `FillsAreAcknowledged`, `CancelKeepsPlaces` |
| `vx_shown` (violation) | as `vx` | | `NoMoreAheadThanShown` fails: the volume ahead of a new order wraps |
| `engine` | 4 orders, 7 messages, times to 4, latencies of 1 | 762,815 | ten properties of the composed engine, see below |
| `engine_liveness` | 3 orders, 5 messages, times to 2 | 14,954 | `CancelsResolve`: every cancel ends in a cancellation or a fill |
| `lob` | 3 orders, 2 bid and 3 ask prices, 4 buckets | 110,787 | the optimized book follows the market's, but for the turns of orders that have grown (`FollowsMarket`, `QueriesAgree`), and its lists, tombstones and map are whole (`ListsIntact`) |
| `lob_leak` (violation) | as `lob` | | `NodesReturn` fails: a clear loses all nodes |
| `direct` | 3 orders, 2 bid and 2 ask prices, arrays of 4, a search of 1 tick | 51,418 | the arrays hold the market's orders within their reach and no others (`FollowsMarket`, `ListsIntact`), and answer as the market would but for a gap (`QueriesAgree`) |
| `bar` | 2 tickers, 5 days, windows of 1 and 2, 3 shapes of bars | 609,941 | `MergedInTimeOrder`, `SignalsAreCrossings`, `FillsAtNextBar`, `OverdraftBounded`, `BasisWithinPrices` |

The engine's properties: the three accounts of a position agree with each other and
with the booked fills, and cash with the limit prices (`AccountsAgree`); only a full
table ends a run (`OnlyCapacityThrows`); what the strategy tracks is alive and what it
has forgotten is being cancelled (`TrackedOrdersAreOpen`, `NoForgottenOrders`); no
quantity is lost or made up between OMS, network and exchange
(`QuantityConserved`); never two of its orders on a side (`OneOrderPerSide`);
agreement when the network is empty (`QuietMeansAgreed`); time, and events before a
message of the same timestamp (`NoEventInThePast`);
final statuses (`TerminalStatusIsFinal`).

Four properties say exactly where the code's promise ends, because the code does not
keep the simpler one:

- `EndIsAfterData` (`feed`): a file that cannot be opened, right after one that was
  mapped or as the first, ends the run as if it were the last.
- `FollowsMarket` (`lob`): an order that has grown at its price may stand before one whose
  turn it is (`grown` remembers those); see section 4.
- `QueriesAgree` (`direct`): across a gap as wide as the search the side is reported
  empty although it has orders, and a worse order that comes later is reported as the
  best.  With the 0.0001 dollar ticks of `MappedBackTestEngineExample.cpp:52` the gap
  is one dollar.
- `OverdraftBounded` and `FillsAtNextBar` (`bar`): cash may fall below zero, by what a
  bar can open above its close and the commission; and an order after a ticker's last
  bar trades at that bar's opening.

Every property of a passing run has a mutant in `PROJECT.json`: a plausible bug in the
code's definition that makes the property fail under the same configuration.

### Why the bounds are enough

- *ring*: with 4 slots the indices go round, the ring fills up with 3 items, and an
  index may be old by any distance; two messages tell items apart.  The theorems do
  without the bound.
- *feed*: the ring is filled and emptied several times over; the number of messages
  is twice what it holds.
- *vx*: three orders give levels with a first, a middle and a last order, or two
  levels; fills of 1 and 4 end inside the volume ahead, inside an order, at its
  exact end, and beyond a level.  With 3-bit words a wrap is seen with small
  numbers, and does occur.
- *engine*: an update makes at most two orders, so four are a quote on both sides
  and a requote, and the table does get full.  Seven messages and five instants are
  enough for a fill to meet a cancel and for events of several handlers to share a
  timestamp; the three market orders move the mid price, empty a side and cross
  the quotes.  A fill of 1 of 2 is partial.  Latencies of 1 let an event be due
  at, before and after the next message.
- *lob*: ids 3 and 7 share the last bucket and push each other, and then id 4, across
  the end of the table; three ask prices make tombstones in the middle, two bid prices
  the opposite order of levels; sizes vary on bids only, where orders shrink, grow and
  are overtaken (the sides differ in nothing else); the pool holds as many orders as
  the feed has ids, so that it is exhausted by clears only.
- *direct*: the ask at 25 is out of reach when the feed begins at 10 or 15, the bid at
  10 when it begins at 25: orders are dropped, cancelled though dropped, and moved in
  and out.  The two bids are neighbours and the
  asks two ticks apart, one more than the search sees.  Three orders on a level have
  a middle one.
- *feed, files*: sequences of up to three files have every pair of kinds next to each
  other, at the beginning and at the end; the example program refuses an empty list.
- *bar*: with windows of one and two closes the averages cross, touch and part within
  three bars, and five days leave room for two trades of a ticker; positions of two
  lots, both long and short, are reached.  A capital of 31 is enough for one order at
  20 and not for two: orders are refused for cash, among them a closing sale, the
  account is overdrawn to the bound, and the drawdown check refuses too.  A trade that
  turns a position round cannot come from this engine, whose orders have one size;
  `BasisWithinPrices` therefore asks what any next fill would do in every state reached.

### Fairness and deadlock

- `ring`: the consumer polls (`consumer.cpp:21`), and a store is visible at last: the
  weak fairness is on the steps of `pop` and on its load seeing a newer index.
- `feed`: the operating system runs both processes.  Nothing makes the producer's
  marker find room, and nothing is assumed.  The reading loop over files runs until it
  ends, which is weak fairness of its steps.
- `engine`: weak fairness of the loop's step as a whole; the recording is finite
  (`EndOfFeed` is taken at last because the feed is bounded by `MaxFeed`).
- Deadlock is checked, except where the program stops or spins: both processes of the
  feed exit or spin on an empty ring, and an exception of the pool ends the program
  of the `lob` and `direct` runs.  The end of either engine is the explicit stutter
  `Stopped`.

## 4. Findings

1. `feed_end`: the end marker is pushed once and the result ignored
   (`DataBentoProducer.cpp:21`); with a full ring it is lost and the engine never ends.
2. `feed_stale`: nothing distinguishes the segment of an earlier run, and the producer
   does not unlink it (`producer.cpp:42` is commented out); the engine polls a ring
   that the producer then constructs anew (`IPCBackTestEngineExample.cpp:25`).
3. `vx_shown`: `VirtualExchange.h:113` subtracts the level's volume ahead from the
   volume shown without comparing them; when the market has shrunk the new order
   waits behind about 2^64 units.
4. `lob_leak`: `clear_book` gives no node back to the pool
   (`OptimizedDataBentoLOB.cpp:204`); after enough clears an add throws.  The same is
   true of `DirectArrayLOB.h:341`.

One divergence of code and comment has no run of its own; `FollowsMarket` (`lob`) makes an
exception of it.  An order that grows at its price keeps its turn in the optimized book
(`OptimizedDataBentoLOB.cpp:194`).  The comment above it says that increasing the size
loses priority in many systems, and that "we follow the original logic which might re-link
or just update".  The original re-links: `DataBentoLOB.cpp:96-100` appends the order at the
back of its level, and so does `DirectArrayLOB.h:308` ("Lose queue priority if size
increases").  The market's turns are the original's in both `OrderBooks` and
`DirectArrayBooks`: the direct-array book keeps them all, the optimized book all but those
of orders that have grown.  Without the exception TLC finds the disagreement after three
messages: two orders are added at one price, and the first is made larger.  No query
returns the order of a level, so today no caller sees which of the two a book has.

The models also show behaviour that no document contradicts, so that it is no
finding, but that a maintainer should know of:

- An account of the bar engine that is short of cash cannot sell either: the risk
  manager asks for the cash of a purchase in both directions (`RiskManager.cpp:17`).
- The peak equity moves only with bars of tickers that were traded before
  (`Portfolio.cpp:77`), and the drawdown is measured from it.
- After the last bar of a ticker an order is filled at that bar's opening, before the
  close that caused it (`HistoricCSVDataHandler.cpp:143`).
- The mapped consumer reads through an invalid pointer when the first file cannot be
  mapped, or a later one is empty, and goes on for ever when the last file has a size
  and cannot be mapped: `unmap_current` leaves a failed mapping in place
  (`DataBentoMappedConsumer.cpp:21`).

## 5. The theorems

TLAPS proves, for all values of the constants that satisfy the named assumptions:

| Theorem | Statement |
|---|---|
| `SharedRingBufferProofs!TypeCorrect` | `Spec => []TypeOK` |
| `SharedRingBufferProofs!StaleIndexSafety` | `Spec => []StaleIndexIsSafe` |
| `SharedRingBufferProofs!SlotSafety` | `Spec => []NoSlotRace` |
| `SharedRingBufferProofs!Refinement` | `Spec => RefinesFifo` |
| `MBOSimulationEngineProofs!TimeSafety` | `Spec => []NoEventInThePast` |
| `MBOSimulationEngineProofs!TrackedSafety` | `Spec => []TrackedOrdersAreOpen` |
| `MBOSimulationEngineProofs!EngineTypes` | `Spec => []TypeOK` |
| `MBOSimulationEngineProofs!QuantitySafety` | `Spec => []QuantityConserved` |
| `MBOSimulationEngineProofs!ErrorSafety` | `Spec => []OnlyCapacityThrows` |
| `MBOSimulationEngineProofs!ExchangeSafety` | `Spec => []OneOrderPerSide` |
| `MBOSimulationEngineProofs!ForgottenSafety` | `Spec => []NoForgottenOrders` |
| `MBOSimulationEngineProofs!AccountSafety` | `Spec => []AccountsAgree` |
| `MBOSimulationEngineProofs!QuietSafety` | `Spec => []QuietMeansAgreed` |
| `MBOSimulationEngineProofs!TerminalSafety` | `Spec => TerminalStatusIsFinal` |
| `VirtualExchangeProofs!LevelsStayIntact` | `Spec => []LevelsIntact` |
| `VirtualExchangeProofs!CancelsKeepPlaces` | `Spec => CancelKeepsPlaces` |
| `VirtualExchangeProofs!PriorityIsKept` | `Spec => PriceTimePriority` |
| `VirtualExchangeProofs!LossesAreAcknowledged` | `Spec => FillsAreAcknowledged` |
| `VirtualExchangeProofs!VolumeIsUsed` | `Spec => VolumeUsed` |
| `DataConsumersProofs!RecordingSafety` | `Leftovers \subseteq {<<>>}` implies `EitherSpec => []ReceivesRecording` |
| `DataConsumersProofs!EndSafety` | `Leftovers \subseteq {<<>>}` implies `EitherSpec => []EndIsAfterData` |
| `DataConsumersProofs!ConstructionSafety` | `Leftovers = {}` implies `EitherSpec => []PollsConstructedRing` |
| `BarEngineProofs!BarTypes` | `Spec => []TypeOK` |
| `BarEngineProofs!MergeSafety` | `Spec => []MergedInTimeOrder` |
| `BarEngineProofs!SignalSafety` | `Spec => SignalsAreCrossings` |
| `BarEngineProofs!FillSafety` | `Spec => []FillsAtNextBar` |
| `BarEngineProofs!OverdraftSafety` | `Spec => []OverdraftBounded` |
| `BarEngineProofs!BasisSafety` | `Spec => []BasisWithinPrices` |
| `OrderBooksProofs!BookAlwaysWhole` | `Spec => []BookWhole`, the inductive invariant |
| `OrderBooksProofs!LobTyped` | `Spec => []TypeOK` |
| `OrderBooksProofs!LobFollows` | `Spec => []FollowsMarket` |
| `OrderBooksProofs!LobAnswers` | `Spec => []QueriesAgree` |
| `OrderBooksProofs!LobIntact` | `Spec => []ListsIntact` |
| `DirectArrayBooksProofs!ArrayAlwaysGood` | `Spec => []ArrayGood`, the inductive invariant |
| `DirectArrayBooksProofs!ArrayTyped` | `Spec => []TypeOK` |
| `DirectArrayBooksProofs!ArrayFollows` | `Spec => []FollowsMarket` |
| `DirectArrayBooksProofs!ArrayAnswers` | `Spec => []QueriesAgree` |
| `DirectArrayBooksProofs!ArrayIntact` | `Spec => []ListsIntact` |
| `ContainerFacts!EraseIs` | what `erase` does to the entries of a hash map of any size |

**Ring.**  Assumption: `CapacityAssumption`, at least one slot (the code's power of
two is not needed: its mask is a modulo).  The properties are not inductive, since
they say nothing of the values the two sides have seen.  The invariant `IInv` adds
`StaleViews` (seen from either side, the ring is at least as full, or at least as
empty, as it is, and a side in the middle of an operation has passed its check) and
`SlotContents` (a slot that was written keeps its message until it is published,
and what was copied is the oldest item).  Distances around the ring are split into
the two cases of a subtraction with and without wrap.  For the refinement each step
maps to a stutter, except the two publishing stores, which are `Put` and `Take`; the
lemmas on the mapped queue show what an increment of one index does to it.

**Engine, time.**  Assumptions: the latencies are naturals.  `TimeInv` adds to the
property that a polled message is not behind the clock.  Between two messages the events
left are even later than the clock, if the latencies are not zero: a message is applied
when no event of its time or before is left, and its own answers are later.  Every
lemma `...Sends` says of one handler that it only adds events at its own time plus a
latency; `Routes` takes the earliest event, so moving the clock there passes none.

**Engine, tracked orders.**  `TrackInv` adds that the table of orders is a table of
order records and the strategy's two functions have both sides as domain, without
which nothing can be said of an update of either.  The lemmas `...Sound` say of one
handler that a state in which both sides track open orders or none leads to another:
a new order has an id no side tracks, a withdrawn one is forgotten in the same call,
a terminal acknowledgement untracks its order, and an acknowledgement of a create
or a partial fill leaves an open status.  No assumption on the exchange is used:
whatever arrives, in whatever order, the strategy tracks no dead order.

**Engine, orders.**  The remaining theorems on the engine share one invariant,
`EngineInv`.  None of the properties is inductive alone: that a fill never exceeds its
order depends on what is still resting at the exchange, which depends on whether a
cancel will arrive before the next order, which depends on the order of the network.
The invariant is built from one description per order, its `View`: the record in the
table, the kinds of event about it in the network, the quantity whose fills are under
way, the quantity at the exchange and the sides on which it is tracked.  `LifeOK` says
what can be true of these together in each status: where every part of the quantity is,
which events can be on their way, and who will hear of the order again.  `Whole` adds
what relates orders to each other:

- `Timely` and `Lined`: no event is further ahead than its latency, no two have the
  same place, and of one order a cancel does not overtake its create, nor an
  acknowledgement of a cancel a fill.  This follows from equal latencies and numbers
  that grow, whatever the two latencies are;
- `Stands`: a side of the exchange has no order or one, of that side and at its price;
- `Succeeds`: as long as the older of two orders of a side may rest when the younger
  arrives, its cancel is in the network and comes first.  `OneOrderPerSide` rests on it.

`Balanced` ties holdings, risk position, strategy position and cash to sums over the
table, and `Fed` says that the polled message is about an order that the market has
(`BookOK`: finitely many, of the recording's orders).  The lemmas `Life...` take one
order through every event, `Hears...`, `Gives...` and the like take `Whole` through
every handler, and the lemmas on a side of at most one order compute what a create, a cancel
and a fill do to a side with at most one order, in words modulo `Word`.  TLC checked
`EngineInv` as an invariant of the run `engine` before its proof was begun.
Assumptions: the latencies are naturals, `Word` is positive, and the recording's
orders have a side, a price and a positive size (`EngineAssumption`); a quote has a
positive size (`MarketMakerAssumption`).

**Exchange.**  The invariant `IInv` gives every side sorted prices, no empty level, orders
in the order of their ids within a level, no id on two levels or two sides, none that was
not created, and on every level a count that is the sum of its orders' volumes ahead modulo
`Word` (`SideGood`).  Nothing bounds the number of levels or orders.

- *Fill.*  The two nested walks of `on_fill` are folds.  Each is unrolled into the sequence
  of its states (`MeetTrace`, `WalkTrace`), and from these `Filling` says of one level, and
  `Passage` of a side, what every order gives to the walk, what remains, and which fills
  are noted.  `FillGood` follows: what the level's count loses is the volume its orders
  lose, since an order leaves only with no volume ahead of it.
- *Create.*  `WithLevelIs` finds the place of the new level among the sorted ones
  (`InsertAtIs`), `GrownIs` that the count grows with the volume of the new order.
- *Cancel.*  The volume of the order that leaves is moved to its neighbour, so the sum of
  the level is unchanged (`SumMoved`); with the last order it leaves the count too.  On
  prefixes of the queue instead of the whole of it, the same lemma gives
  `CancelKeepsPlaces`.
- *What a fill takes.*  `Course` and `Trades` tell a fill place by place, a place being a
  level and a position: `UnitsAt` is what the fill still has when it comes to one.  It
  never grows along the side, and is zero behind an order that is not used up
  (`UnitsFall`); the fills are reported in the order of the places (`Reports`).  With ids
  at one place each (`SpotsDiffer`) this is `PriceTimePriority`.
- *What is lost.*  `Dues` are the pairs of an id and what remains of its order.  A create
  adds one, a cancel removes one (`CreateDues`, `CancelDues`), and a fill takes of each
  what its acknowledgement says (`TakenIsAcknowledged`): `FillsAreAcknowledged`.
- *Volume.*  What a fill uses is summed over the places in their order (`PlaceSum`) and is
  what its size loses (`UseIs`).  It is no more than is there at the places it reaches,
  and all of it if something is left (`UseIsLesser`); the side loses as much
  (`LeftVolume`, along the places that stay open): `VolumeUsed`.

TLC checked `IInv` as an invariant of the run `vx` before its proof was begun.
Assumptions: `Word` is positive, and created orders have a positive size.

**Feed.**  `FeedInv` is the disjunction of `Shares` (over shared memory: the ring holds
the messages sent and not received, in order, and behind them at most the marker) and
`Maps` (files: what was received are the records of all files before the position of
the mapping).  The number of records before a position is a sum over files, of which
`ContainerFacts` and the counting lemmas say how it grows.  The assumptions on `Leftovers`
are where the code stops keeping the promise: `feed_stale` shows what an earlier run's
segment does.  An empty one (`{<<>>}`) breaks `PollsConstructedRing` and not
`ReceivesRecording`.  `FileAssumption`: the list of files is not empty, as the example
program requires.

**Bar engine.**  `OrderInv` (every ticker's next bar is later than all that were
delivered, and the one event in the queue follows from a bar) gives the merge and the
fills; `SignalInv` adds that the strategy has the window of the closes that were
delivered, and that its two sums are the sums of that window; `CashInv` that a trade on
its way could be paid at the close of the bar it trades at; `AccountInv` that a
position is in whole lots and its cost between the bounds that the prices give it
(`Between`), through additions, partial closes with their rounding, and reversals.
Assumptions: shapes of bars are finitely many, with positive prices (so that there is a
lowest and a highest), and the windows are ordered.

**Sums and folds.**  `MapThenSumSet` and `FoldLeft` are recursive functions on the
subsets of a finite set.  `ContainerFacts` proves, by the induction theorem on finite sets
in its set form, that such a function exists and does not depend on the order in which
the elements are picked (`AnyFirst`, `SumUnfolds`, `SumWithout`, `SumSame`), and that a
fold over a sequence that takes each element in turn has a sequence of states.

**Hash map.**  `FlatHashMap` models the probes, so what it holds has to be proved.  A map
is good (`HashGood`) when no key is in it twice and every entry can be reached from its
home without passing an unoccupied bucket.  Of a good map with an unoccupied bucket
`FindIs`, `InsertIs` and `EraseIs` say that the three operations are those of a set of
entries.  A search is a recursion over at most all buckets; that it ends at the first
bucket that is unoccupied or has the key is an induction over numbers in its set form.
For `erase` the buckets are put in a row that begins at the one erased (`Packed`): the
rehash takes up the entries of the cluster one after the other (`TakenUp`), and each
goes to a place of the row between its home and where it was.  `FewEntries` gives the
unoccupied bucket: there are fewer nodes than buckets (`LobAssumption`).

**Shelf.**  What the two pooled books have in common is `Shelf`: the orders `bk` lie in
the nodes `loc`, no two in one and none in a free one (`Located`), the map holds these
pairs and no others (`Indexed`), and every node has its order's data and the links that
the queue of its side and price gives it (`Holding`); the other nodes are bare.
`ShelfWith`, `ShelfWithout`, `ShelfRequeued` and `HoldingSized` take it through the
ways in which a list can change.  `ChainHolds` leads back from the links to the queue:
the nodes met from a level's head on are those of its orders in their turn.  The sum of
the sizes at a price (`TotalAt`) is what a level has to count.

**Optimized book.**  `Whole` is a shelf of the market's orders and on either side a
`Ladder`: the levels are sorted, each is the record of its price (the total, the first
node and the last), and every price with orders has one; emptied levels may stay.
Before an exception the best level also has quantity (`Tidy`), for which the removal of
trailing empty levels is needed.  The lists stand as the orders came to their prices: the
invariant (`BookWhole`) says that there are such arrivals.  The lemmas `...Good` take it
through add, cancel, modify and clear, `Arrivals...` take the arrivals along, and
`...Keeps` put the two together for each action of `Next`.  The market's turns are
compared with the arrivals and not with the links (`InTurn`): the same orders, and of two
that came one after the other the first has its turn first, unless it has grown.  A
message treats both alike (`Standing`: some stay, in their order, and one may be put last),
except that it also puts last the order it makes larger; that order has then been `Passed`,
or was last already (`TurnsStep`).  Assumptions: `LobAssumption`, and ids, prices and sizes are
positive (`FeedAssumption`).

**Direct-array book.**  The array shows a part of the market: the orders whose prices are
within reach of the anchor (`InReach`, `QueuesInReach`).  `Good` says that these, whichever
they are, are on a shelf, that a bucket is the record of the one price of the grid it belongs
to, or nothing (`Buckets`), and what a cached best price is worth (`BestIs`).  `GridIs` is
the arithmetic of `price_to_index` with its division towards zero: the arrays reach
exactly the prices that have an index, and no two have the same.  So the collision
that `add_order` throws for never happens with prices on the grid, which `ArrayTyped`
includes.  For the search for the next best price, `BehindIs` says that on a side without gaps as
wide as the search every other price is found, and `AliveIs` that only prices with orders are.
An order that moves goes in four ways, from in or out of reach to in or out of reach
(`Moves`, `ShowsMoved`), and one that was dropped and is cancelled changes nothing.
Assumptions: `LobAssumption`, and `FeedAssumption`: prices are multiples of the tick
(a price between two ticks shares a bucket with another, and the code throws), ids and
sizes are positive.  The bounds the runs use are not needed: arrays, searches and pools are
of any size.

TLC checked both invariants' consequences in `lob` and `direct`; the invariants speak of
the place of every order (`loc`), for which the proofs give a witness.

**With TLC only.**  The liveness properties (`RefinesFairFifo`, `AllDelivered`,
`MarkerEndsRun`, `CancelsResolve`) and everything that depends on ENABLED, which
this prover does not treat.  Every other property of a passing run is a theorem.

## 6. What is not modelled

- *Top-of-book messages* (`IsTob`) and `get_total_volume` of the books: the recordings
  are of full depth, and the total is for reports.
- *The lists of `DataBentoLOB`*: it is the reference from which the market's book is
  taken, as orders by id, and the turns of the orders at a price (`Queued`, `Grows`).
- *Exhaustion of the exchange's pools and hash maps* (sized for far more orders than
  the OMS table holds), and of the direct-array book's hash map.
- *Failures of system calls* of the shared memory, and a process killed half-way
  through construction.
- *Ids above 2^33* in the hash map, whose bit mixer only changes the home bucket.
- *Limit orders of the bar engine* and the fixed commission: the handler knows them,
  nothing in the program sends or uses them.  `wait_and_pop` likewise has no caller,
  and the queue's lock has one thread.
- *Rounding of doubles* in the bar engine: two averages that are equal as fractions
  are equal in the model.
- *Bars of one ticker with the same time*: the sort would order them anyhow.
- *Prices between two ticks* in the direct-array book: they share a bucket with another
  price, for which the code throws; the feed's prices are whole ticks.
- *Statistics* (one formula) and *profilers*, printing, CSV parsing: no state that
  anything reads back.
- Modifies that change an order's side, and (in the engine) cancels beyond an order's
  size: the market does not send them.

## 7. Plan

Done, in this order: ring with its abstract specification and proofs; feed; network,
OMS, risk manager, strategy, exchange and book composed into the engine; the exchange
alone; the engine's first two theorems; pool, hash map and optimized book; the
direct-array book; the mapped consumer beside the feed; the bar engine with its
portfolio.

Proved since: every safety property of the engine, the feed and the bar engine; of the
exchange under every legal sequence of calls, all that its run checks: levels, places,
priority, acknowledgements and volume; and of both pooled order books, with the hash map
and the pool under them, all that their runs check.

Left, should the code come to need it: top-of-book messages (`IsTob`) in the books, the
exhaustion of the exchange's pools, and a proof of the liveness properties with a prover
that treats fairness.
