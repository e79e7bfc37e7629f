-------------------------- MODULE PriceCacheProofs --------------------------
(* What holds of PriceCache for every number of keys and callers, every    *)
(* list of rules and lines, and every TTL.                                 *)
EXTENDS PriceCache, NumberProofs

Busy(c) == pc[c] \notin {"idle", "reply"}

InRange(c) == item[c] \in (IF job[c] = "scan" THEN DOMAIN RuleKey ELSE DOMAIN LineKey)

LEMMA Numbers == /\ TTL \in Nat \ {0} /\ MaxPages \in Nat
                 /\ Money \subseteq Nat \ {0}
                 /\ \A k \in Keys : Prices[k] \subseteq Money
                 /\ NoEntry \in Files /\ ~Found(NoEntry)
                 /\ \A f \in Files : Found(f) => f.price \in Money /\ f.age \in 0..TTL
  BY PriceConstantsOK DEF Money, NoEntry, Files, Found

LEMMA Lists == /\ Len(RuleKey) \in Nat \ {0} /\ DOMAIN RuleKey = 1..Len(RuleKey)
               /\ Len(LineKey) \in Nat \ {0} /\ DOMAIN LineKey = 1..Len(LineKey)
               /\ \A i \in DOMAIN RuleKey : RuleKey[i] \in Keys
               /\ \A i \in DOMAIN LineKey : LineKey[i] \in Keys
  BY PriceConstantsOK

LEMMA KeyType == ASSUME TypeOK, NEW c \in Callers, Busy(c) PROVE Key(c) \in Keys
  BY Lists DEF TypeOK, Busy, Key

LEMMA InitOK == Init => IInv
<1> SUFFICES ASSUME Init PROVE IInv
  OBVIOUS
<1> USE Numbers
<1>1. TypeOK
  <2>1. listed \in [Keys -> Money] /\ \A k \in Keys : listed[k] \in Prices[k]
    BY DEF Init
  <2>2. since \in [Keys -> [Money -> 0..TTL]]
    BY DEF Init
  <2>3. \A c \in Callers : rows[c] = <<>> /\ rows \in [Callers -> Seq(Quotes \cup {Failed})]
    BY DEF Init, Each
  <2> QED
    BY <2>1, <2>2, <2>3 DEF Init, TypeOK, Each, Labels
<1>2. CacheKept /\ HeldInv
  BY DEF Init, CacheKept, HeldInv, Each
<1>3. AgesInv
  BY DEF Init, AgesInv
<1>4. LinesInv
  BY DEF Init, LinesInv, Each
<1> QED
  BY <1>1, <1>2, <1>3, <1>4 DEF IInv

-----------------------------------------------------------------------------
(* Types.                                                                  *)

(* The part of the types that a step of one caller can disturb.            *)
CallerTypes ==
  /\ pc \in [Callers -> Labels]
  /\ job \in [Callers -> {"scan", "estimate"}]
  /\ item \in [Callers -> Nat]
  /\ \A c \in Callers : Busy(c) => InRange(c)
  /\ page \in [Callers -> 0..(MaxPages + 1)]
  /\ seen \in [Callers -> BOOLEAN]
  /\ held \in [Callers -> Money \cup {0}]
  /\ \A c \in Callers : pc[c] \in {"open", "write"} => held[c] # 0
  /\ rows \in [Callers -> Seq(Quotes \cup {Failed})]

StoreTypes ==
  /\ file \in [Keys -> Files]
  /\ stored \in [Keys -> BOOLEAN] /\ spoilt \in [Keys -> BOOLEAN]

WorldTypes ==
  /\ listed \in [Keys -> Money] /\ \A k \in Keys : listed[k] \in Prices[k]
  /\ pricer \in BOOLEAN /\ up \in BOOLEAN
  /\ since \in [Keys -> [Money -> 0..TTL]]

LEMMA TypeParts == TypeOK => CallerTypes /\ StoreTypes /\ WorldTypes
  BY DEF TypeOK, CallerTypes, StoreTypes, WorldTypes, Busy, InRange

LEMMA PartsType == CallerTypes' /\ StoreTypes' /\ WorldTypes' => TypeOK'
  BY DEF TypeOK, CallerTypes, StoreTypes, WorldTypes, Busy, InRange

LEMMA NextItemTypes ==
  ASSUME TypeOK, NEW c \in Callers, Busy(c), NextItem(c), UNCHANGED job
  PROVE  /\ pc' \in [Callers -> Labels] /\ item' \in [Callers -> Nat]
         /\ \A d \in Callers : Busy(d)' => InRange(d)'
         /\ pc'[c] \in {"reply", "rule", "load"}
         /\ \A d \in Callers \ {c} : pc'[d] = pc[d] /\ item'[d] = item[d]
<1>1. item[c] \in 1..Items(c) /\ Items(c) \in Nat
  BY Lists DEF TypeOK, Busy, Items
<1>2. pc' \in [Callers -> Labels] /\ item' \in [Callers -> Nat]
  BY DEF NextItem, Goto, TypeOK, Labels
<1>3. /\ pc'[c] \in {"reply", "rule", "load"} /\ item'[c] = item[c] + 1
      /\ \A d \in Callers \ {c} : pc'[d] = pc[d] /\ item'[d] = item[d]
  BY DEF NextItem, Goto, TypeOK
<1>4. ASSUME NEW d \in Callers, Busy(d)' PROVE InRange(d)'
  <2>1. CASE d = c
    <3>1. item[c] # Items(c)
      BY <1>4, <2>1 DEF NextItem, Goto, Busy, TypeOK
    <3> QED
      BY <1>1, <1>3, <2>1, <3>1, Lists DEF InRange, Items
  <2>2. CASE d # c
    BY <1>3, <1>4, <2>2 DEF TypeOK, Busy, InRange
  <2> QED
    BY <2>1, <2>2
<1> QED
  BY <1>2, <1>3, <1>4

LEMMA ReturnTypes ==
  ASSUME TypeOK, NEW c \in Callers, Busy(c), NEW q \in Quotes \cup {Failed}, Return(c, q)
  PROVE  CallerTypes'
<1>1. /\ pc' \in [Callers -> Labels] /\ item' \in [Callers -> Nat]
      /\ \A d \in Callers : Busy(d)' => InRange(d)'
      /\ pc'[c] \in {"reply", "rule", "load"}
      /\ \A d \in Callers \ {c} : pc'[d] = pc[d]
  BY NextItemTypes DEF Return
<1>2. /\ page' \in [Callers -> 0..(MaxPages + 1)] /\ seen' \in [Callers -> BOOLEAN]
      /\ held' \in [Callers -> Money \cup {0}]
      /\ \A d \in Callers \ {c} : held'[d] = held[d]
  BY Numbers DEF Return, Forget, TypeOK
<1>3. rows' \in [Callers -> Seq(Quotes \cup {Failed})]
  <2>1. Append(rows[c], q) \in Seq(Quotes \cup {Failed})
    BY DEF TypeOK
  <2> QED
    BY <2>1 DEF Return, TypeOK
<1>4. ASSUME NEW d \in Callers, pc'[d] \in {"open", "write"} PROVE held'[d] # 0
  BY <1>1, <1>2, <1>4 DEF TypeOK
<1>5. job' \in [Callers -> {"scan", "estimate"}]
  BY DEF Return, TypeOK
<1> QED
  BY <1>1, <1>2, <1>3, <1>4, <1>5 DEF CallerTypes

(* A step of Quote that goes from one label to another.                    *)
LEMMA GotoTypes ==
  ASSUME TypeOK, NEW c \in Callers, Busy(c), NEW label \in Labels, Goto(c, label),
         UNCHANGED <<job, item, rows>>,
         page' \in [Callers -> 0..(MaxPages + 1)], seen' \in [Callers -> BOOLEAN],
         NEW p \in Money \cup {0}, held' = [held EXCEPT ![c] = p],
         label \in {"open", "write"} => p # 0
  PROVE  CallerTypes'
<1>1. pc' \in [Callers -> Labels] /\ held' \in [Callers -> Money \cup {0}]
  BY DEF Goto, TypeOK
<1>2. ASSUME NEW d \in Callers, Busy(d)' PROVE InRange(d)'
  BY <1>2 DEF Goto, TypeOK, Busy, InRange
<1>3. ASSUME NEW d \in Callers, pc'[d] \in {"open", "write"} PROVE held'[d] # 0
  BY <1>3 DEF Goto, TypeOK
<1> QED
  BY <1>1, <1>2, <1>3 DEF CallerTypes, TypeOK

LEMMA AllStopTypes ==
  ASSUME TypeOK, AllStop
  PROVE  CallerTypes' /\ spoilt' \in [Keys -> BOOLEAN]
<1>1. spoilt' \in [Keys -> BOOLEAN]
  BY DEF AllStop, TypeOK, Writing
<1>2. /\ pc' \in [Callers -> Labels] /\ job' \in [Callers -> {"scan", "estimate"}]
      /\ item' \in [Callers -> Nat] /\ page' \in [Callers -> 0..(MaxPages + 1)]
      /\ seen' \in [Callers -> BOOLEAN] /\ held' \in [Callers -> Money \cup {0}]
      /\ \A c \in Callers : pc'[c] = "idle"
  BY Numbers DEF AllStop, Each, Labels
<1>3. rows' \in [Callers -> Seq(Quotes \cup {Failed})]
  BY DEF AllStop, Each
<1> QED
  BY <1>1, <1>2, <1>3 DEF CallerTypes, Busy

LEMMA QuoteTypes ==
  ASSUME TypeOK, NEW k \in Keys, Found(file[k]), NEW stale \in BOOLEAN
  PROVE  Quote(file[k], stale) \in Quotes
  BY Numbers DEF TypeOK, Quote, Quotes

LEMMA QuotingTypes ==
  ASSUME TypeOK, NEW c \in Callers, Quoting(c)
  PROVE  CallerTypes' /\ StoreTypes'
<1> USE Numbers
<1>k. ASSUME Busy(c) PROVE Key(c) \in Keys
  BY <1>k, KeyType
<1>1. CASE Hit(c)
  <2>1. Busy(c) /\ Quote(file[Key(c)], FALSE) \in Quotes
    BY <1>1, <1>k, QuoteTypes DEF Hit, At, Busy, Fresh
  <2>2. CallerTypes'
    BY <1>1, <2>1, ReturnTypes DEF Hit
  <2> QED
    BY <1>1, <2>2 DEF Hit, StoreTypes, TypeOK, history
<1>2. CASE Miss(c)
  <2>1. CallerTypes'
    BY <1>2 DEF Miss, At, Goto, CallerTypes, TypeOK, Busy, InRange, Labels, call
  <2> QED
    BY <1>2, <2>1 DEF Miss, StoreTypes, TypeOK, history
<1>3. CASE Fallback(c)
  <2>1. Busy(c) /\ Key(c) \in Keys
    BY <1>3, <1>k DEF Fallback, At, Busy
  <2> DEFINE q == IF Found(file[Key(c)]) THEN Quote(file[Key(c)], TRUE) ELSE Failed
  <2>2. q \in Quotes \cup {Failed}
    BY <2>1, QuoteTypes
  <2>3. Return(c, q)
    BY <1>3 DEF Fallback
  <2>4. CallerTypes'
    BY <2>1, <2>2, <2>3, ReturnTypes
  <2> QED
    BY <1>3, <2>4 DEF Fallback, StoreTypes, TypeOK, history
<1>4. ASSUME NEW has \in {"nothing", "unusable", "price"}, NEW more \in BOOLEAN,
             Page(c, has, more)
      PROVE  CallerTypes' /\ StoreTypes'
  <2> DEFINE some  == seen[c] \/ has # "nothing"
             price == IF held[c] = 0 /\ has = "price" THEN listed[Key(c)] ELSE held[c]
  <2>1. Busy(c) /\ Key(c) \in Keys /\ pc[c] = "ask"
    BY <1>4, <1>k DEF Page, At, Busy
  <2>2. price \in Money \cup {0} /\ some \in BOOLEAN
    BY <2>1 DEF TypeOK
  <2>3. held' = [held EXCEPT ![c] = price] /\ UNCHANGED <<job, item, rows, file, stored, spoilt>>
    BY <1>4 DEF Page, history
  <2>4. CASE more /\ ~LastPage(c)
    <3>1. /\ page' = [page EXCEPT ![c] = @ + 1] /\ page[c] + 1 \in 0..(MaxPages + 1)
          /\ seen' = [seen EXCEPT ![c] = some] /\ pc' = pc
      BY <1>4, <2>4 DEF Page, LastPage, TypeOK
    <3>2. CallerTypes'
      BY <2>1, <2>2, <2>3, <3>1 DEF CallerTypes, TypeOK, Busy, InRange
    <3> QED
      BY <2>3, <3>2 DEF StoreTypes, TypeOK
  <2>5. CASE ~(more /\ ~LastPage(c))
    <3> DEFINE label == AfterPages(Key(c), some, price)
    <3>1. label \in Labels /\ (label \in {"open", "write"} => price # 0)
      BY DEF AfterPages, Labels
    <3>2. /\ Goto(c, label)
          /\ page' = [page EXCEPT ![c] = 0] /\ seen' = [seen EXCEPT ![c] = FALSE]
      BY <1>4, <2>5 DEF Page
    <3>3. page' \in [Callers -> 0..(MaxPages + 1)] /\ seen' \in [Callers -> BOOLEAN]
      BY <3>2 DEF TypeOK
    <3> HIDE DEF label, price
    <3>4. CallerTypes'
      BY <2>1, <2>2, <2>3, <3>1, <3>2, <3>3, GotoTypes
    <3> QED
      BY <2>3, <3>4 DEF StoreTypes, TypeOK
  <2> QED
    BY <2>4, <2>5
<1>5. CASE PageFails(c)
  <2> DEFINE label == AfterPages(Key(c), FALSE, 0)
  <2>1. label \in Labels /\ label \notin {"open", "write"}
    BY DEF AfterPages, Labels
  <2>2. /\ Busy(c) /\ Goto(c, label) /\ held' = [held EXCEPT ![c] = 0]
        /\ UNCHANGED <<job, item, rows, file, stored, spoilt>>
    BY <1>5 DEF PageFails, At, Busy, Forget, history
  <2>3. page' \in [Callers -> 0..(MaxPages + 1)] /\ seen' \in [Callers -> BOOLEAN]
    BY <1>5 DEF PageFails, Forget, TypeOK
  <2> HIDE DEF label
  <2>4. CallerTypes'
    BY <2>1, <2>2, <2>3, GotoTypes
  <2> QED
    BY <2>2, <2>4 DEF StoreTypes, TypeOK
<1>6. CASE BulkFound(c)
  <2>1. Busy(c) /\ Key(c) \in Keys
    BY <1>6, <1>k DEF BulkFound, At, Busy
  <2>2. /\ Goto(c, "open") /\ held' = [held EXCEPT ![c] = listed[Key(c)]]
        /\ listed[Key(c)] \in Money /\ listed[Key(c)] # 0 /\ "open" \in Labels
        /\ UNCHANGED <<job, item, rows, page, seen, file, stored, spoilt>>
    BY <1>6, <2>1 DEF BulkFound, Labels, history, TypeOK
  <2>3. CallerTypes'
    BY <2>1, <2>2, GotoTypes DEF TypeOK
  <2> QED
    BY <2>2, <2>3 DEF StoreTypes, TypeOK
<1>7. CASE BulkFails(c)
  <2>1. CallerTypes'
    BY <1>7 DEF BulkFails, At, Goto, CallerTypes, TypeOK, Busy, InRange, Labels, call
  <2> QED
    BY <1>7, <2>1 DEF BulkFails, StoreTypes, TypeOK, history
<1>8. CASE Open(c)
  <2>1. CallerTypes'
    BY <1>8 DEF Open, At, Goto, CallerTypes, TypeOK, Busy, InRange, Labels, call
  <2> QED
    BY <1>8, <2>1 DEF Open, StoreTypes, TypeOK, history
<1>9. CASE OpenFails(c) \/ Write(c) \/ WriteSpoils(c)
  <2> DEFINE q == [price |-> held[c], stale |-> FALSE]
  <2>1. Busy(c) /\ Key(c) \in Keys /\ held[c] \in Money
    BY <1>9, <1>k DEF OpenFails, Write, WriteSpoils, At, Busy, TypeOK
  <2>2. q \in Quotes \cup {Failed} /\ Entry(held[c]) \in Files
    BY <2>1 DEF Quotes, Entry, Files
  <2>3. Return(c, q)
    BY <1>9 DEF OpenFails, Write, WriteSpoils
  <2>4. CallerTypes'
    BY <2>1, <2>2, <2>3, ReturnTypes
  <2>5. StoreTypes'
    <3>1. CASE OpenFails(c)
      BY <3>1 DEF OpenFails, StoreTypes, TypeOK, history
    <3>2. CASE Write(c)
      BY <2>1, <2>2, <3>2 DEF Write, StoreTypes, TypeOK
    <3>3. CASE WriteSpoils(c)
      BY <2>1, <3>3 DEF WriteSpoils, StoreTypes, TypeOK
    <3> QED
      BY <1>9, <3>1, <3>2, <3>3
  <2> QED
    BY <2>4, <2>5
<1> QED
  BY <1>1, <1>2, <1>3, <1>4, <1>5, <1>6, <1>7, <1>8, <1>9 DEF Quoting

LEMMA QuotingWorld ==
  ASSUME NEW c \in Callers, Quoting(c)
  PROVE  UNCHANGED <<listed, pricer, up, since>>
  BY DEF Quoting, Hit, Miss, Fallback, Page, PageFails, BulkFound, BulkFails, Open,
         OpenFails, Write, WriteSpoils, world, history

LEMMA TypeStep == ASSUME TypeOK, [Next]_vars PROVE TypeOK'
<1> USE Numbers
<1>p. CallerTypes /\ StoreTypes /\ WorldTypes
  BY TypeParts
<1>1. ASSUME NEW c \in Callers, NEW j \in {"scan", "estimate"}, Start(c, j) PROVE TypeOK'
  <2>1. CallerTypes'
    <3>1. \A d \in Callers : Busy(d)' => InRange(d)'
      BY <1>1, Lists DEF Start, At, Goto, TypeOK, Busy, InRange
    <3>2. rows' \in [Callers -> Seq(Quotes \cup {Failed})]
      BY <1>1 DEF Start, TypeOK
    <3>3. \A d \in Callers : pc'[d] \in {"open", "write"} => held'[d] # 0
      BY <1>1 DEF Start, Goto, TypeOK, call
    <3> QED
      BY <1>1, <3>1, <3>2, <3>3 DEF Start, Goto, CallerTypes, TypeOK, Labels, call
  <2> QED
    BY <1>1, <1>p, <2>1, PartsType DEF Start, StoreTypes, WorldTypes, world, history
<1>2. ASSUME NEW c \in Callers, RuleSilent(c) PROVE TypeOK'
  <2>1. Busy(c) /\ NextItem(c) /\ UNCHANGED <<job, page, seen, held, rows>>
    BY <1>2 DEF RuleSilent, At, Busy, call
  <2>2. CallerTypes'
    BY <2>1, NextItemTypes DEF CallerTypes, TypeOK
  <2> QED
    BY <1>2, <1>p, <2>2, PartsType DEF RuleSilent, StoreTypes, WorldTypes, world, history
<1>3. ASSUME NEW c \in Callers, RuleHolds(c) PROVE TypeOK'
  <2>1. CallerTypes'
    BY <1>3 DEF RuleHolds, At, Goto, CallerTypes, TypeOK, Busy, InRange, Labels, call
  <2> QED
    BY <1>3, <1>p, <2>1, PartsType DEF RuleHolds, StoreTypes, WorldTypes, world, history
<1>4. ASSUME NEW c \in Callers, RulePanics(c) PROVE TypeOK'
  <2>1. CASE c = "loop"
    BY <1>4, <1>p, <2>1, AllStopTypes, PartsType DEF RulePanics, StoreTypes, WorldTypes
  <2>2. CASE c # "loop"
    <3>1. CallerTypes'
      BY <1>4, <2>2 DEF RulePanics, At, Goto, CallerTypes, TypeOK, Busy, InRange, Labels, call
    <3> QED
      BY <1>4, <1>p, <2>2, <3>1, PartsType DEF RulePanics, StoreTypes, WorldTypes
  <2> QED
    BY <2>1, <2>2
<1>5. ASSUME NEW c \in Callers, Reply(c) PROVE TypeOK'
  <2>1. CallerTypes'
    BY <1>5 DEF Reply, At, Goto, CallerTypes, TypeOK, Busy, InRange, Labels, call
  <2> QED
    BY <1>5, <1>p, <2>1, PartsType DEF Reply, StoreTypes, WorldTypes, world, history
<1>6. ASSUME NEW c \in Callers, Quoting(c) PROVE TypeOK'
  BY <1>6, <1>p, QuotingTypes, QuotingWorld, PartsType DEF WorldTypes
<1>7. ASSUME NEW k \in Keys, NEW p \in Prices[k], ChangePrice(k, p) PROVE TypeOK'
  <2>1. WorldTypes'
    BY <1>7 DEF ChangePrice, WorldTypes, TypeOK
  <2>2. CallerTypes' /\ StoreTypes'
    BY <1>7, <1>p DEF ChangePrice, callers, call, CallerTypes, StoreTypes, Busy, InRange
  <2> QED
    BY <2>1, <2>2, PartsType
<1>8. CASE Tick
  <2>1. \A a \in 0..TTL : Older(a) \in 0..TTL
    BY DEF Older
  <2>2. file' \in [Keys -> Files]
    <3>1. \A f \in Files : [f EXCEPT !.age = Older(@)] \in Files
      BY <2>1 DEF Files, NoEntry, Older
    <3> QED
      BY <1>8, <3>1 DEF Tick, TypeOK
  <2>3. WorldTypes'
    BY <1>8, <2>1 DEF Tick, WorldTypes, TypeOK, world
  <2>4. CallerTypes' /\ stored' = stored /\ spoilt' = spoilt
    BY <1>8, <1>p DEF Tick, callers, call, CallerTypes, Busy, InRange
  <2> QED
    BY <1>p, <2>2, <2>3, <2>4, PartsType DEF StoreTypes
<1>9. CASE Restart
  BY <1>9, <1>p, AllStopTypes, PartsType DEF Restart, StoreTypes, WorldTypes
<1>10. CASE UNCHANGED vars
  BY <1>10 DEF vars, TypeOK
<1> QED
  BY <1>1, <1>2, <1>3, <1>4, <1>5, <1>6, <1>7, <1>8, <1>9, <1>10 DEF Next, Work

-----------------------------------------------------------------------------
(* The cache, ages, and prices in hand.                                    *)

(* A step of one caller that is not the end of the process.                *)
Alone(c) ==
  \/ \E j \in {"scan", "estimate"} : Start(c, j)
  \/ RuleSilent(c) \/ RuleHolds(c) \/ Quoting(c) \/ Reply(c)
  \/ RulePanics(c) /\ c # "loop"

LEMMA AloneFrame ==
  ASSUME TypeOK, NEW c \in Callers, Alone(c)
  PROVE  /\ UNCHANGED <<listed, since>>
         /\ \A d \in Callers \ {c} :
              /\ pc'[d] = pc[d] /\ job'[d] = job[d] /\ item'[d] = item[d]
              /\ held'[d] = held[d] /\ rows'[d] = rows[d] /\ Key(d)' = Key(d)
<1>1. UNCHANGED <<listed, since>>
  BY QuotingWorld
     DEF Alone, Start, RuleSilent, RuleHolds, RulePanics, Reply, world, history
<1>2. ASSUME NEW d \in Callers \ {c}
      PROVE  /\ pc'[d] = pc[d] /\ job'[d] = job[d] /\ item'[d] = item[d]
             /\ held'[d] = held[d] /\ rows'[d] = rows[d]
  <2>1. CASE \/ \E j \in {"scan", "estimate"} : Start(c, j)
             \/ RuleSilent(c) \/ RuleHolds(c) \/ Reply(c)
             \/ RulePanics(c) /\ c # "loop"
    BY <2>1 DEF Start, RuleSilent, RuleHolds, RulePanics, Reply, NextItem, Goto, call, TypeOK
  <2>2. CASE Hit(c) \/ Fallback(c) \/ OpenFails(c) \/ Write(c) \/ WriteSpoils(c)
    BY <2>2 DEF Hit, Fallback, OpenFails, Write, WriteSpoils, Return, NextItem, Forget,
                Goto, TypeOK
  <2>3. CASE Miss(c) \/ BulkFound(c) \/ BulkFails(c) \/ Open(c) \/ PageFails(c)
    BY <2>3 DEF Miss, BulkFound, BulkFails, Open, PageFails, Forget, Goto, call, TypeOK
  <2>4. ASSUME NEW has \in {"nothing", "unusable", "price"}, NEW more \in BOOLEAN,
               Page(c, has, more)
        PROVE  /\ pc'[d] = pc[d] /\ job'[d] = job[d] /\ item'[d] = item[d]
               /\ held'[d] = held[d] /\ rows'[d] = rows[d]
    BY <2>4 DEF Page, Goto, TypeOK
  <2> QED
    BY <2>1, <2>2, <2>3, <2>4 DEF Alone, Quoting
<1> QED
  BY <1>1, <1>2 DEF Key

(* A caller that writes nothing and leaves the cache alone.                *)
LEMMA KeptFrame ==
  ASSUME TypeOK, CacheKept, NEW c \in Callers, Alone(c), pc[c] # "write",
         UNCHANGED <<file, stored, spoilt>>
  PROVE  CacheKept'
<1>1. \A d \in Callers, k \in Keys : Writing(d, k) => Writing(d, k)'
  BY AloneFrame DEF Writing
<1> QED
  BY <1>1 DEF CacheKept

LEMMA KeptAlone ==
  ASSUME TypeOK, CacheKept, NEW c \in Callers, Alone(c)
  PROVE  CacheKept'
<1>k. Busy(c) => Key(c) \in Keys
  BY KeyType
<1>o. \A d \in Callers \ {c}, k \in Keys : Writing(d, k) => Writing(d, k)'
  BY AloneFrame DEF Writing
<1>1. CASE Open(c)
  <2>1. Key(c) \in Keys /\ Key(c)' = Key(c) /\ pc'[c] = "write" /\ pc[c] # "write"
    BY <1>1, <1>k DEF Open, At, Goto, Busy, Key, TypeOK
  <2>2. /\ Writing(c, Key(c))'
        /\ \A k \in Keys : k # Key(c) => file'[k] = file[k] /\ ~Writing(c, k)
        /\ UNCHANGED <<stored, spoilt>>
    BY <1>1, <2>1 DEF Open, Writing, history, TypeOK
  <2> QED
    BY <1>o, <2>1, <2>2 DEF CacheKept
<1>2. CASE Write(c)
  <2>1. Key(c) \in Keys /\ held[c] # 0
    BY <1>2, <1>k DEF Write, At, Busy, TypeOK
  <2>2. /\ Found(file'[Key(c)])
        /\ \A k \in Keys : k # Key(c) => /\ file'[k] = file[k] /\ ~Writing(c, k)
                                         /\ stored'[k] = stored[k] /\ spoilt'[k] = spoilt[k]
    BY <1>2, <2>1 DEF Write, Writing, Found, Entry, TypeOK
  <2> QED
    BY <1>o, <2>1, <2>2 DEF CacheKept
<1>3. CASE WriteSpoils(c)
  <2>1. Key(c) \in Keys
    BY <1>3, <1>k DEF WriteSpoils, At, Busy
  <2>2. /\ spoilt'[Key(c)] /\ UNCHANGED stored
        /\ \A k \in Keys : k # Key(c) => /\ file'[k] = file[k] /\ ~Writing(c, k)
                                         /\ spoilt'[k] = spoilt[k]
    BY <1>3, <2>1 DEF WriteSpoils, Writing, TypeOK
  <2> QED
    BY <1>o, <2>1, <2>2 DEF CacheKept
<1>4. CASE \/ \E j \in {"scan", "estimate"} : Start(c, j)
           \/ RuleSilent(c) \/ RuleHolds(c) \/ Reply(c)
           \/ RulePanics(c) /\ c # "loop"
  <2>1. pc[c] # "write" /\ UNCHANGED <<file, stored, spoilt>>
    BY <1>4 DEF Start, RuleSilent, RuleHolds, RulePanics, Reply, At, history
  <2> QED
    BY <2>1, KeptFrame
<1>5. CASE Quoting(c) /\ ~(Open(c) \/ Write(c) \/ WriteSpoils(c))
  <2>1. pc[c] # "write" /\ UNCHANGED <<file, stored, spoilt>>
    BY <1>5 DEF Quoting, Hit, Miss, Fallback, Page, PageFails, BulkFound, BulkFails,
                OpenFails, At, history
  <2> QED
    BY <2>1, KeptFrame
<1> QED
  BY <1>1, <1>2, <1>3, <1>4, <1>5 DEF Alone

LEMMA AgesAlone ==
  ASSUME TypeOK, AgesInv, HeldInv, NEW c \in Callers, Alone(c)
  PROVE  AgesInv'
<1>1. UNCHANGED <<listed, since>>
  BY AloneFrame
<1>2. \/ UNCHANGED file
      \/ Key(c) \in Keys /\ file' = [file EXCEPT ![Key(c)] = NoEntry]
      \/ Key(c) \in Keys /\ Write(c)
  <2>1. Busy(c) => Key(c) \in Keys
    BY KeyType
  <2> QED
    BY <2>1 DEF Alone, Start, RuleSilent, RuleHolds, RulePanics, Reply, Quoting, Hit, Miss,
                Fallback, Page, PageFails, BulkFound, BulkFails, Open, OpenFails, Write,
                WriteSpoils, At, Busy
<1>3. CASE UNCHANGED file
  BY <1>1, <1>3 DEF AgesInv
<1>4. CASE Key(c) \in Keys /\ file' = [file EXCEPT ![Key(c)] = NoEntry]
  BY <1>1, <1>4, Numbers DEF AgesInv, TypeOK
<1>5. CASE Key(c) \in Keys /\ Write(c)
  <2>1. held[c] # 0 /\ since[Key(c)][held[c]] = 0
    BY <1>5 DEF Write, At, HeldInv, TypeOK
  <2>2. /\ file'[Key(c)].price = held[c] /\ file'[Key(c)].age = 0
        /\ \A k \in Keys : k # Key(c) => file'[k] = file[k]
    BY <1>5 DEF Write, Entry, TypeOK
  <2> QED
    BY <1>1, <2>1, <2>2 DEF AgesInv
<1> QED
  BY <1>2, <1>3, <1>4, <1>5

LEMMA HeldAlone ==
  ASSUME TypeOK, AgesInv, HeldInv, NEW c \in Callers, Alone(c)
  PROVE  HeldInv'
<1> DEFINE Mine == held'[c] # 0 => /\ pc'[c] \in {"ask", "open", "write"}
                                    /\ since[Key(c)'][held'[c]] = 0
<1>1. ASSUME \/ \E j \in {"scan", "estimate"} : Start(c, j)
             \/ RuleSilent(c) \/ RuleHolds(c) \/ Reply(c)
             \/ RulePanics(c) /\ c # "loop"
             \/ Miss(c) \/ BulkFails(c)
      PROVE  Mine
  <2>1. pc[c] \notin {"ask", "open", "write"} /\ held' = held
    BY <1>1 DEF Start, RuleSilent, RuleHolds, RulePanics, Reply, Miss, BulkFails, At, call
  <2> QED
    BY <2>1 DEF HeldInv
<1>2. ASSUME Hit(c) \/ Fallback(c) \/ OpenFails(c) \/ Write(c) \/ WriteSpoils(c) \/ PageFails(c)
      PROVE  Mine
  BY <1>2 DEF Hit, Fallback, OpenFails, Write, WriteSpoils, PageFails, Return, Forget, TypeOK
<1>3. ASSUME Open(c) PROVE Mine
  <2>1. pc'[c] = "write" /\ held' = held /\ since' = since /\ Key(c)' = Key(c)
    BY <1>3 DEF Open, Goto, Key, call, history, TypeOK
  <2> QED
    BY <2>1 DEF HeldInv
<1>4. ASSUME BulkFound(c) PROVE Mine
  <2>1. Key(c) \in Keys
    BY <1>4, KeyType DEF BulkFound, At, Busy
  <2>2. pc'[c] = "open" /\ held'[c] = listed[Key(c)] /\ Key(c)' = Key(c)
    BY <1>4 DEF BulkFound, Goto, Key, TypeOK
  <2> QED
    BY <2>1, <2>2 DEF AgesInv
<1>5. ASSUME NEW has \in {"nothing", "unusable", "price"}, NEW more \in BOOLEAN,
             Page(c, has, more)
      PROVE  Mine
  <2> DEFINE some  == seen[c] \/ has # "nothing"
             price == IF held[c] = 0 /\ has = "price" THEN listed[Key(c)] ELSE held[c]
  <2>1. Key(c) \in Keys /\ pc[c] = "ask"
    BY <1>5, KeyType DEF Page, At, Busy
  <2>2. price # 0 => since[Key(c)][price] = 0
    BY <2>1 DEF AgesInv, HeldInv
  <2>3. held'[c] = price /\ Key(c)' = Key(c)
    BY <1>5 DEF Page, Key, TypeOK
  <2>4. pc'[c] \in {"ask", AfterPages(Key(c), some, price)}
    BY <1>5, <2>1 DEF Page, Goto, TypeOK
  <2>5. price # 0 => pc'[c] \in {"ask", "open"}
    BY <2>4 DEF AfterPages
  <2> QED
    BY <2>2, <2>3, <2>5
<1>6. Mine
  BY <1>1, <1>2, <1>3, <1>4, <1>5 DEF Alone, Quoting
<1>7. ASSUME NEW d \in Callers \ {c}, held'[d] # 0
      PROVE  pc'[d] \in {"ask", "open", "write"} /\ since'[Key(d)'][held'[d]] = 0
  BY <1>7, AloneFrame DEF HeldInv
<1> QED
  BY <1>6, <1>7, AloneFrame DEF HeldInv

LEMMA LinesAlone ==
  ASSUME TypeOK, LinesInv, NEW c \in Callers, Alone(c)
  PROVE  LinesInv'
<1> DEFINE Mine == /\ pc'[c] = "rule" => job'[c] = "scan"
                   /\ job'[c] = "estimate" =>
                        /\ Len(rows'[c]) <= Len(LineKey)
                        /\ pc'[c] \notin {"idle", "reply"} => Len(rows'[c]) = item'[c] - 1
<1>r. rows[c] \in Seq(Quotes \cup {Failed}) /\ Len(rows[c]) \in Nat /\ item[c] \in Nat
  BY DEF TypeOK
<1>1. ASSUME NEW j \in {"scan", "estimate"}, Start(c, j) PROVE Mine
  <2>1. /\ job'[c] = j /\ item'[c] = 1 /\ rows'[c] = <<>>
        /\ pc'[c] = IF j = "scan" THEN "rule" ELSE "load"
    BY <1>1 DEF Start, Goto, TypeOK
  <2> QED
    BY <2>1, Lists
<1>2. ASSUME RuleSilent(c) \/ RuleHolds(c) \/ (RulePanics(c) /\ c # "loop") PROVE Mine
  <2>1. job'[c] = "scan"
    BY <1>2 DEF RuleSilent, RuleHolds, RulePanics, At, LinesInv
  <2> QED
    BY <2>1
<1>3. ASSUME Reply(c) PROVE Mine
  <2>1. pc'[c] = "idle" /\ rows'[c] = <<>>
    BY <1>3 DEF Reply, Goto, TypeOK
  <2> QED
    BY <2>1, Lists DEF Busy
<1>4. ASSUME NEW q, Return(c, q), Busy(c) PROVE Mine
  <2>1. /\ job'[c] = job[c] /\ item'[c] = item[c] + 1
        /\ rows'[c] = Append(rows[c], q)
        /\ pc'[c] = "rule" => job[c] = "scan"
    BY <1>4 DEF Return, NextItem, Goto, TypeOK
  <2>2. Len(rows'[c]) = Len(rows[c]) + 1
    BY <1>r, <2>1
  <2>3. job[c] = "estimate" => Len(rows[c]) = item[c] - 1 /\ item[c] \in 1..Len(LineKey)
    BY <1>4, Lists DEF LinesInv, TypeOK, Busy
  <2> QED
    BY <1>r, <2>1, <2>2, <2>3, Lists
<1>5. ASSUME Busy(c), pc'[c] # "rule", UNCHANGED <<job, item, rows>> PROVE Mine
  BY <1>5 DEF LinesInv, Busy
<1>6. ASSUME Hit(c) \/ Fallback(c) \/ OpenFails(c) \/ Write(c) \/ WriteSpoils(c) PROVE Mine
  <2>1. Busy(c) /\ \E q : Return(c, q)
    BY <1>6 DEF Hit, Fallback, OpenFails, Write, WriteSpoils, At, Busy
  <2> QED
    BY <1>4, <2>1
<1>7. ASSUME Miss(c) \/ BulkFound(c) \/ BulkFails(c) \/ Open(c) \/ PageFails(c) PROVE Mine
  <2>1. Busy(c) /\ pc'[c] # "rule" /\ UNCHANGED <<job, item, rows>>
    BY <1>7 DEF Miss, BulkFound, BulkFails, Open, PageFails, AfterPages, Goto, At, Busy, call,
                TypeOK
  <2> QED
    BY <1>5, <2>1
<1>8. ASSUME NEW has \in {"nothing", "unusable", "price"}, NEW more \in BOOLEAN,
             Page(c, has, more)
      PROVE  Mine
  <2>1. Busy(c) /\ pc'[c] # "rule" /\ UNCHANGED <<job, item, rows>>
    BY <1>8 DEF Page, AfterPages, Goto, At, Busy, TypeOK
  <2> QED
    BY <1>5, <2>1
<1> HIDE DEF Mine
<1>9. ASSUME Quoting(c) PROVE Mine
  BY <1>6, <1>7, <1>8, <1>9 DEF Quoting
<1>10. Mine
  <2>1. CASE \E j \in {"scan", "estimate"} : Start(c, j)
    BY <1>1, <2>1
  <2>2. CASE RuleSilent(c) \/ RuleHolds(c) \/ (RulePanics(c) /\ c # "loop")
    BY <1>2, <2>2
  <2>3. CASE Reply(c)
    BY <1>3, <2>3
  <2>4. CASE Quoting(c)
    BY <1>9, <2>4
  <2> QED
    BY <2>1, <2>2, <2>3, <2>4 DEF Alone
<1>11. \A d \in Callers \ {c} : UNCHANGED <<pc[d], job[d], item[d], rows[d]>>
  BY AloneFrame
<1> USE DEF Mine
<1> QED
  BY <1>10, <1>11 DEF LinesInv

(* The process ends or starts: nobody holds a price, and the files that    *)
(* were being written are spoilt.                                          *)
LEMMA StopKeeps ==
  ASSUME TypeOK, CacheKept, AgesInv, AllStop, UNCHANGED <<listed, file, since, stored>>
  PROVE  CacheKept' /\ AgesInv' /\ HeldInv' /\ LinesInv'
<1>1. \A k \in Keys : spoilt[k] \/ (\E c \in Callers : Writing(c, k)) => spoilt'[k]
  BY DEF AllStop
<1> QED
  BY <1>1 DEF AllStop, Each, CacheKept, AgesInv, HeldInv, LinesInv

LEMMA IInvStep == ASSUME IInv, [Next]_vars PROVE IInv'
<1> USE Numbers
<1>p. TypeOK /\ CacheKept /\ AgesInv /\ HeldInv /\ LinesInv /\ TypeOK'
  BY TypeStep DEF IInv
<1>l. ASSUME UNCHANGED <<pc, job, item, rows>> PROVE LinesInv'
  BY <1>l, <1>p DEF LinesInv
<1>1. ASSUME NEW c \in Callers, Alone(c) PROVE IInv'
  BY <1>1, <1>p, KeptAlone, AgesAlone, HeldAlone, LinesAlone DEF IInv
<1>2. ASSUME NEW c \in Callers, RulePanics(c), c = "loop" PROVE IInv'
  BY <1>2, <1>p, StopKeeps DEF RulePanics, IInv
<1>3. ASSUME NEW k \in Keys, NEW p \in Prices[k], ChangePrice(k, p) PROVE IInv'
  <2>1. UNCHANGED <<file, pc, job, item, held, rows, stored, spoilt>>
    BY <1>3 DEF ChangePrice, callers, call
  <2>2. CacheKept'
    BY <1>p, <2>1 DEF CacheKept, Writing, Key
  <2>3. /\ listed' = [listed EXCEPT ![k] = p] /\ p \in Money /\ listed \in [Keys -> Money]
        /\ \A l \in Keys, q \in Money :
             since'[l][q] = IF l = k /\ q = p THEN 0 ELSE since[l][q]
    BY <1>3, <1>p DEF ChangePrice, TypeOK
  <2>4. AgesInv'
    <3> SUFFICES ASSUME NEW l \in Keys
                 PROVE  /\ since'[l][listed'[l]] = 0
                        /\ Found(file[l]) => since'[l][file[l].price] <= file[l].age
      BY <2>1 DEF AgesInv
    <3>1. since'[l][listed'[l]] = 0
      <4>1. since[l][listed[l]] = 0 /\ listed[l] \in Money
        BY <1>p, <2>3 DEF AgesInv
      <4> QED
        BY <2>3, <4>1
    <3>2. ASSUME Found(file[l]) PROVE since'[l][file[l].price] <= file[l].age
      <4>1. since[l][file[l].price] <= file[l].age
        BY <1>p, <3>2 DEF AgesInv
      <4>2. file[l].price \in Money /\ file[l].age \in Nat
        BY <1>p, <3>2 DEF TypeOK
      <4>3. since'[l][file[l].price] \in {0, since[l][file[l].price]}
        BY <2>3, <4>2
      <4> QED
        BY <4>1, <4>2, <4>3
    <3> QED
      BY <3>1, <3>2
  <2>5. HeldInv'
    <3> SUFFICES ASSUME NEW c \in Callers, held[c] # 0
                 PROVE  pc[c] \in {"ask", "open", "write"} /\ since'[Key(c)][held[c]] = 0
      BY <2>1 DEF HeldInv, Key
    <3>1. pc[c] \in {"ask", "open", "write"} /\ since[Key(c)][held[c]] = 0
      BY <1>p DEF HeldInv
    <3>2. Key(c) \in Keys
      BY <1>p, <3>1, KeyType DEF Busy
    <3>3. held[c] \in Money
      BY <1>p DEF TypeOK
    <3> QED
      BY <2>3, <3>1, <3>2, <3>3
  <2> QED
    BY <1>l, <1>p, <2>1, <2>2, <2>4, <2>5 DEF IInv
<1>4. CASE Tick
  <2>1. UNCHANGED <<listed, pc, job, item, held, rows, stored, spoilt>> /\ \A c \in Callers : held[c] = 0
    BY <1>4 DEF Tick, callers, call, world
  <2>2. /\ \A k \in Keys : file'[k].price = file[k].price /\ file'[k].age = Older(file[k].age)
        /\ \A k \in Keys, q \in Money :
             since'[k][q] = IF q = listed[k] THEN 0 ELSE Older(since[k][q])
    <3>1. \A f \in Files : /\ [f EXCEPT !.age = Older(@)].price = f.price
                           /\ [f EXCEPT !.age = Older(@)].age = Older(f.age)
      BY DEF Files, NoEntry
    <3> QED
      BY <1>4, <1>p, <3>1 DEF Tick, TypeOK
  <2>3. CacheKept'
    BY <1>p, <2>1, <2>2 DEF CacheKept, Found, Writing, Key
  <2>4. AgesInv'
    <3> SUFFICES ASSUME NEW k \in Keys
                 PROVE  /\ since'[k][listed[k]] = 0
                        /\ Found(file'[k]) => since'[k][file'[k].price] <= file'[k].age
      BY <2>1 DEF AgesInv
    <3>1. since'[k][listed[k]] = 0
      BY <1>p, <2>2 DEF TypeOK
    <3>2. ASSUME Found(file'[k]) PROVE since'[k][file'[k].price] <= file'[k].age
      <4> DEFINE s == since[k][file[k].price]
                 a == file[k].age
      <4>1. Found(file[k]) /\ file[k].price \in Money /\ a \in 0..TTL
        BY <1>p, <2>2, <3>2 DEF Found, TypeOK
      <4>2. s \in 0..TTL /\ s <= a
        <5>1. s <= a
          BY <1>p, <4>1 DEF AgesInv
        <5>2. since[k] \in [Money -> 0..TTL]
          BY <1>p DEF TypeOK
        <5> QED
          BY <4>1, <5>1, <5>2
      <4>3. /\ since'[k][file[k].price] \in {0, Older(s)}
            /\ file'[k].price = file[k].price /\ file'[k].age = Older(a)
        BY <2>2, <4>1
      <4>4. Older(s) <= Older(a) /\ 0 <= Older(a)
        BY <4>1, <4>2 DEF Older
      <4> HIDE DEF s, a
      <4> QED
        BY <4>3, <4>4
    <3> QED
      BY <3>1, <3>2
  <2>5. HeldInv'
    BY <2>1 DEF HeldInv
  <2> QED
    BY <1>l, <1>p, <2>1, <2>3, <2>4, <2>5 DEF IInv
<1>5. CASE Restart
  BY <1>5, <1>p, StopKeeps DEF Restart, IInv
<1>6. CASE UNCHANGED vars
  BY <1>6, <1>l, <1>p DEF vars, IInv, CacheKept, AgesInv, HeldInv, Writing, Key
<1> QED
  BY <1>1, <1>2, <1>3, <1>4, <1>5, <1>6 DEF Next, Work, Alone

(* Every state of the cache and its callers satisfies the types, keeps     *)
(* what was stored, and knows how old its prices are (Quote, FileCache).   *)
THEOREM Invariance == Spec => []IInv
BY InitOK, IInvStep, PTL DEF Spec

(* The variables stay within their types (PriceCache).                     *)
THEOREM TypeCorrect == Spec => []TypeOK
<1>1. IInv => TypeOK
  BY DEF IInv
<1> QED
  BY <1>1, Invariance, PTL

-----------------------------------------------------------------------------
(* What Quote answers.                                                     *)

(* Who answers, and with what.                                             *)
LEMMA Answers ==
  ASSUME TypeOK, [Next]_vars, NEW c \in Callers, Answered(c)
  PROVE  /\ Busy(c) /\ Key(c) \in Keys
         /\ \/ Hit(c) /\ Answer(c) = Quote(file[Key(c)], FALSE)
            \/ /\ Fallback(c)
               /\ Answer(c) = IF Found(file[Key(c)]) THEN Quote(file[Key(c)], TRUE) ELSE Failed
            \/ /\ OpenFails(c) \/ Write(c) \/ WriteSpoils(c)
               /\ Answer(c) = [price |-> held[c], stale |-> FALSE]
<1>r. rows \in [Callers -> Seq(Quotes \cup {Failed})]
  BY DEF TypeOK
<1>1. rows'[c] # rows[c] /\ rows'[c] # <<>>
  <2>1. Len(rows[c]) \in Nat /\ Len(<<>>) = 0
    BY <1>r
  <2> QED
    BY <2>1 DEF Answered
<1>2. ASSUME NEW q, Return(c, q) PROVE Answer(c) = q
  <2>1. rows'[c] = Append(rows[c], q) /\ rows[c] \in Seq(Quotes \cup {Failed})
    BY <1>2, <1>r DEF Return
  <2>2. Len(Append(rows[c], q)) = Len(rows[c]) + 1
    BY <2>1
  <2> QED
    BY <2>1, <2>2 DEF Answer
<1>3. Hit(c) \/ Fallback(c) \/ OpenFails(c) \/ Write(c) \/ WriteSpoils(c)
  <2>1. ASSUME NEW d \in Callers, NEW q, Return(d, q), d # c PROVE FALSE
    BY <1>1, <1>r, <2>1 DEF Return
  <2>2. ASSUME NEW d \in Callers, Quoting(d)
        PROVE  \/ Hit(d) \/ Fallback(d) \/ OpenFails(d) \/ Write(d) \/ WriteSpoils(d)
               \/ rows' = rows
    BY <2>2 DEF Quoting, Miss, Page, PageFails, BulkFound, BulkFails, Open
  <2>3. ASSUME NEW d \in Callers, NEW j \in {"scan", "estimate"}, Start(d, j) PROVE FALSE
    BY <1>1, <1>r, <2>3 DEF Start
  <2>4. ASSUME NEW d \in Callers,
               RuleSilent(d) \/ RuleHolds(d) \/ RulePanics(d) \/ Reply(d)
        PROVE  FALSE
    BY <1>1, <1>r, <2>4 DEF RuleSilent, RuleHolds, RulePanics, Reply, AllStop, Each
  <2>5. ASSUME \/ \E k \in Keys : \E p \in Prices[k] : ChangePrice(k, p)
               \/ Tick \/ Restart \/ UNCHANGED vars
        PROVE  FALSE
    BY <1>1, <2>5 DEF ChangePrice, Tick, Restart, AllStop, Each, callers, vars
  <2>6. PICK d \in Callers : Quoting(d)
    BY <2>3, <2>4, <2>5 DEF Next, Work
  <2>7. Hit(d) \/ Fallback(d) \/ OpenFails(d) \/ Write(d) \/ WriteSpoils(d)
    BY <1>1, <2>2, <2>6
  <2>8. \E q : Return(d, q)
    BY <2>7 DEF Hit, Fallback, OpenFails, Write, WriteSpoils
  <2> QED
    BY <2>1, <2>7, <2>8
<1>4. Busy(c) /\ Key(c) \in Keys
  BY <1>3, KeyType DEF Hit, Fallback, OpenFails, Write, WriteSpoils, At, Busy
<1> QED
  BY <1>2, <1>3, <1>4 DEF Hit, Fallback, OpenFails, Write, WriteSpoils

LEMMA AnswerRecent ==
  ASSUME IInv, [Next]_vars, NEW c \in Callers,
         Answered(c), Answer(c) # Failed, ~Answer(c).stale
  PROVE  since[Key(c)][Answer(c).price] < TTL
<1>p. TypeOK /\ AgesInv /\ HeldInv /\ TTL \in Nat \ {0}
  BY Numbers DEF IInv
<1>1. Key(c) \in Keys
  BY <1>p, Answers
<1> DEFINE k == Key(c)
<1>2. CASE Hit(c) /\ Answer(c) = Quote(file[k], FALSE)
  <2>1. Found(file[k]) /\ file[k].age < TTL /\ Answer(c).price = file[k].price
    BY <1>2 DEF Hit, Fresh, Quote
  <2>2. since[k][file[k].price] <= file[k].age
    BY <1>p, <1>1, <2>1 DEF AgesInv
  <2>3. file[k].price \in Money /\ file[k].age \in 0..TTL /\ since[k] \in [Money -> 0..TTL]
    BY <1>p, <1>1, <2>1, Numbers DEF TypeOK
  <2>4. since[k][file[k].price] \in 0..TTL
    BY <2>3
  <2> QED
    BY <1>p, <2>1, <2>2, <2>3, <2>4
<1>3. CASE Fallback(c) /\ Answer(c) \in {Quote(file[k], TRUE), Failed}
  BY <1>3 DEF Quote
<1>4. CASE /\ OpenFails(c) \/ Write(c) \/ WriteSpoils(c)
           /\ Answer(c) = [price |-> held[c], stale |-> FALSE]
  <2>1. held[c] # 0
    BY <1>p, <1>4 DEF OpenFails, Write, WriteSpoils, At, TypeOK
  <2> QED
    BY <1>p, <1>4, <2>1 DEF HeldInv
<1> QED
  BY <1>p, <1>2, <1>3, <1>4, Answers

LEMMA AnswerKnown ==
  ASSUME IInv, [Next]_vars, NEW c \in Callers, Answered(c), Answer(c) = Failed
  PROVE  \/ ~stored[Key(c)] \/ spoilt[Key(c)]
         \/ \E d \in Callers \ {c} : Writing(d, Key(c))
<1>p. TypeOK /\ CacheKept
  BY DEF IInv
<1>1. Key(c) \in Keys
  BY <1>p, Answers
<1>2. Fallback(c) /\ ~Found(file[Key(c)])
  <2>1. CASE Hit(c) /\ Answer(c) = Quote(file[Key(c)], FALSE)
    BY <2>1 DEF Hit, Fresh, Found, Quote, Failed
  <2>2. CASE /\ OpenFails(c) \/ Write(c) \/ WriteSpoils(c)
             /\ Answer(c) = [price |-> held[c], stale |-> FALSE]
    BY <1>p, <2>2 DEF OpenFails, Write, WriteSpoils, At, TypeOK, Failed
  <2>3. CASE Fallback(c) /\ Answer(c) = IF Found(file[Key(c)]) THEN Quote(file[Key(c)], TRUE)
                                        ELSE Failed
    BY <2>3 DEF Quote, Failed
  <2> QED
    BY <1>p, <2>1, <2>2, <2>3, Answers
<1>3. \A d \in Callers : Writing(d, Key(c)) => d # c
  BY <1>2 DEF Fallback, At, Writing
<1> QED
  BY <1>p, <1>1, <1>2, <1>3 DEF CacheKept

(* A price that Quote does not mark as stale was the source's price within *)
(* the last TTL, for every interleaving of the callers' reads and writes.  *)
THEOREM AnswersAreRecent == Spec => NotStaleIsRecent
<1>1. IInv /\ [Next]_vars
        => [\A c \in Callers :
              Answered(c) /\ Answer(c) # Failed /\ ~Answer(c).stale
                => since[Key(c)][Answer(c).price] < TTL]_vars
  BY AnswerRecent
<1> QED
  BY <1>1, Invariance, PTL DEF Spec, NotStaleIsRecent

(* A price that has been in the cache is quoted when no source answers,    *)
(* unless a write of its file failed or is going on.                       *)
THEOREM KnownPricesAreQuoted == Spec => KnownPriceQuoted
<1>1. IInv /\ [Next]_vars
        => [\A c \in Callers :
              Answered(c) /\ Answer(c) = Failed
                => \/ ~stored[Key(c)] \/ spoilt[Key(c)]
                   \/ \E d \in Callers \ {c} : Writing(d, Key(c))]_vars
  BY AnswerKnown
<1> QED
  BY <1>1, Invariance, PTL DEF Spec, KnownPriceQuoted

-----------------------------------------------------------------------------
(* The estimate.                                                           *)

Nothing == [total |-> 0, stale |-> FALSE, currency |-> NoCurrency]

(* EstimateSpend after each line.                                          *)
After(answers) ==
  CHOOSE after : after = [i \in 0..Len(answers) |->
                            IF i = 0 THEN Nothing ELSE AddRow(after[i - 1], i, answers[i])]

LEMMA EstimateSteps ==
  ASSUME NEW answers, Len(answers) \in Nat
  PROVE  /\ EstimateSpend(answers) = After(answers)[Len(answers)]
         /\ After(answers)[0] = Nothing
         /\ \A i \in 0..(Len(answers) - 1) :
              After(answers)[i + 1] = AddRow(After(answers)[i], i + 1, answers[i + 1])
<1> DEFINE Step(g, i) == IF i = 0 THEN Nothing ELSE AddRow(g[i - 1], i, answers[i])
           I == {n \in Nat : \E g : g = [i \in 0..n |-> Step(g, i)]}
<1>1. 0 \in I
  <2> DEFINE g == [i \in 0..0 |-> Nothing]
  <2>1. \A i \in 0..0 : i = 0
    OBVIOUS
  <2>2. g = [i \in 0..0 |-> Step(g, i)]
    BY <2>1
  <2> QED
    BY <2>2
<1>2. ASSUME NEW n \in Nat, n \in I PROVE n + 1 \in I
  <2>1. PICK g : g = [i \in 0..n |-> Step(g, i)]
    BY <1>2
  <2> DEFINE h == [i \in 0..(n + 1) |-> Step(g, i)]
  <2>2. \A i \in 0..n : h[i] = g[i]
    <3>1. \A i \in 0..n : g[i] = Step(g, i)
      <4> HIDE DEF Step
      <4> QED
        BY <2>1
    <3>2. \A i \in 0..n : h[i] = Step(g, i)
      <4> HIDE DEF Step
      <4> QED
        OBVIOUS
    <3> HIDE DEF Step, h
    <3> QED
      BY <3>1, <3>2
  <2>3. \A i \in 0..(n + 1) : Step(g, i) = Step(h, i)
    <3> SUFFICES ASSUME NEW i \in 0..(n + 1), i # 0 PROVE g[i - 1] = h[i - 1]
      OBVIOUS
    <3>1. i - 1 \in 0..n
      OBVIOUS
    <3> HIDE DEF h
    <3> QED
      BY <2>2, <3>1
  <2>4. h = [i \in 0..(n + 1) |-> Step(h, i)]
    <3> HIDE DEF Step
    <3> QED
      BY <2>3
  <2> HIDE DEF h, Step
  <2> QED
    BY <2>4
<1> HIDE DEF I
<1>3. Nat \subseteq I
  BY <1>1, <1>2, SetInduction
<1>4. \E g : g = [i \in 0..Len(answers) |-> Step(g, i)]
  BY <1>3 DEF I
<1>5. After(answers) = [i \in 0..Len(answers) |-> Step(After(answers), i)]
  BY <1>4 DEF After
<1>6. EstimateSpend(answers) = After(answers)[Len(answers)]
  BY DEF EstimateSpend, After, Nothing
<1>7. \A i \in 0..Len(answers) : After(answers)[i] = Step(After(answers), i)
  <2> HIDE DEF Step
  <2> QED
    BY <1>5
<1>8. ASSUME NEW i \in 0..(Len(answers) - 1)
      PROVE  After(answers)[i + 1] = AddRow(After(answers)[i], i + 1, answers[i + 1])
  <2>1. i + 1 \in 0..Len(answers) /\ i + 1 # 0 /\ (i + 1) - 1 = i
    OBVIOUS
  <2>2. After(answers)[i + 1] = Step(After(answers), i + 1)
    BY <1>7, <2>1
  <2> QED
    BY <2>1, <2>2
<1>9. 0 \in 0..Len(answers)
  OBVIOUS
<1> QED
  BY <1>6, <1>7, <1>8, <1>9

LEMMA MixedIsNamed == "mixed" # NoCurrency
  BY Zenon DEF NoCurrency

(* What a report says of the currencies of some of its lines.              *)
SaysCurrency(said, lines, C) ==
  \/ lines = {} /\ said = NoCurrency
  \/ \E k \in lines : said = C[k] /\ \A j \in lines : C[j] = C[k]
  \/ said = "mixed" /\ \E k, l \in lines : C[k] # C[l]

LEMMA OneMoreCurrency ==
  ASSUME NEW lines, NEW k, NEW C, C[k] # NoCurrency, \A j \in lines : C[j] # NoCurrency,
         NEW said, SaysCurrency(said, lines, C)
  PROVE  SaysCurrency(IF said \in {NoCurrency, C[k]} THEN C[k] ELSE "mixed", lines \cup {k}, C)
<1> DEFINE now == IF said \in {NoCurrency, C[k]} THEN C[k] ELSE "mixed"
<1>1. CASE lines = {} /\ said = NoCurrency
  <2>1. now = C[k] /\ lines \cup {k} = {k}
    BY <1>1
  <2> QED
    BY <2>1 DEF SaysCurrency
<1>2. ASSUME NEW l \in lines, said = C[l], \A j \in lines : C[j] = C[l]
      PROVE  SaysCurrency(now, lines \cup {k}, C)
  <2>1. CASE C[l] = C[k]
    <3>1. now = C[k] /\ \A j \in lines \cup {k} : C[j] = C[k]
      BY <1>2, <2>1
    <3> QED
      BY <3>1 DEF SaysCurrency
  <2>2. CASE C[l] # C[k]
    <3>1. now = "mixed"
      BY <1>2, <2>2
    <3> QED
      BY <2>2, <3>1 DEF SaysCurrency
  <2> QED
    BY <2>1, <2>2
<1>3. CASE said = "mixed" /\ \E j, l \in lines : C[j] # C[l]
  <2>1. now = "mixed"
    BY <1>3, MixedIsNamed
  <2> QED
    BY <1>3, <2>1 DEF SaysCurrency
<1> QED
  BY <1>1, <1>2, <1>3 DEF SaysCurrency

(* ... as EstimateMatchesLines has it.                                     *)
LEMMA CurrencyAsStated ==
  ASSUME NEW lines, IsFiniteSet(lines), NEW C, \A j \in lines : C[j] # NoCurrency,
         NEW said, SaysCurrency(said, lines, C),
         NEW all, \A x : x \in all <=> \E i \in lines : x = C[i]
  PROVE  IF Cardinality(all) > 1 THEN said = "mixed" ELSE {said} \ {NoCurrency} = all
<1>f. IsFiniteSet(all) /\ Cardinality(all) \in Nat
  <2>1. [i \in lines |-> C[i]] \in Surjection(lines, all)
    BY DEF Surjection
  <2> QED
    BY <2>1, FS_Surjection, FS_CardinalityType
<1>1. CASE lines = {} /\ said = NoCurrency
  <2>1. all = {} /\ {said} \ {NoCurrency} = {}
    BY <1>1
  <2>2. Cardinality({}) = 0
    BY FS_EmptySet
  <2> QED
    BY <2>1, <2>2
<1>2. CASE \E k \in lines : said = C[k] /\ \A j \in lines : C[j] = C[k]
  <2>1. all = {said} /\ {said} \ {NoCurrency} = {said}
    BY <1>2
  <2>2. Cardinality({said}) = 1
    BY FS_Singleton
  <2> QED
    BY <2>1, <2>2
<1>3. ASSUME said = "mixed", NEW k \in lines, NEW l \in lines, C[k] # C[l]
      PROVE  said = "mixed" /\ Cardinality(all) > 1
  <2>1. {C[k], C[l]} \in SUBSET all /\ Cardinality({C[k], C[l]}) = 2
    BY <1>3, TwoMembers
  <2>2. Cardinality({C[k], C[l]}) <= Cardinality(all)
    BY <1>f, <2>1, FS_Subset
  <2> QED
    BY <1>f, <1>3, <2>1, <2>2
<1> QED
  BY <1>1, <1>2, <1>3 DEF SaysCurrency

LEMMA EstimateSays ==
  ASSUME NEW answers \in Seq(Quotes \cup {Failed}), Len(answers) <= Len(LineKey)
  PROVE  LET result     == EstimateSpend(answers)
             priced     == {i \in DOMAIN answers : answers[i] # Failed}
             cost       == [i \in priced |-> Quantity[i] * answers[i].price]
             currencies == {Currency[LineKey[i]] : i \in priced}
         IN  /\ result.total = SumFunction(cost)
             /\ result.stale <=> \E i \in priced : answers[i].stale
             /\ IF Cardinality(currencies) > 1 THEN result.currency = "mixed"
                ELSE {result.currency} \ {NoCurrency} = currencies
<1> DEFINE n      == Len(answers)
           priced == {i \in DOMAIN answers : answers[i] # Failed}
           P(m)   == {i \in 1..m : answers[i] # Failed}
           cost   == [i \in priced |-> Quantity[i] * answers[i].price]
           C      == [i \in DOMAIN LineKey |-> Currency[LineKey[i]]]
           Says(sum, m) == /\ sum.total = SumFunctionOnSet(cost, P(m))
                           /\ sum.stale \in BOOLEAN
                           /\ sum.stale <=> \E i \in P(m) : answers[i].stale
                           /\ SaysCurrency(sum.currency, P(m), C)
           I == {m \in Nat : m <= n => Says(After(answers)[m], m)}
<1>1. /\ n \in Nat /\ DOMAIN answers = 1..n /\ P(n) = priced
      /\ \A i \in 1..n : i \in DOMAIN LineKey
      /\ \A m \in Nat : m <= n => P(m) \subseteq priced /\ P(m) \subseteq 1..m
  BY Lists
<1>2. \A i \in priced : /\ i \in DOMAIN LineKey /\ answers[i].stale \in BOOLEAN
                        /\ cost[i] = Quantity[i] * answers[i].price /\ cost[i] \in Int
  <2> SUFFICES ASSUME NEW i \in priced
               PROVE  Quantity[i] * answers[i].price \in Int /\ answers[i].stale \in BOOLEAN
    BY <1>1
  <2>1. Quantity[i] \in Nat
    BY <1>1, PriceConstantsOK
  <2>2. answers[i] \in Quotes
    BY <1>1
  <2>3. answers[i].price \in Nat /\ answers[i].stale \in BOOLEAN
    BY <2>2, Numbers DEF Quotes
  <2> QED
    BY <2>1, <2>3
<1>3. \A i \in DOMAIN LineKey : C[i] = Currency[LineKey[i]] /\ C[i] # NoCurrency
  <2>1. \A k \in Keys : Currency[k] # NoCurrency
    BY PriceConstantsOK
  <2> QED
    BY <2>1, Lists
<1>4. \A m \in Nat : IsFiniteSet(1..m)
  BY FS_Interval
<1>5. \A m \in Nat : IsFiniteSet(P(m))
  BY <1>4, FS_Subset
<1>6. 0 \in I
  <2>1. P(0) = {} /\ After(answers)[0] = Nothing
    BY <1>1, EstimateSteps
  <2>2. SumFunctionOnSet(cost, {}) = 0
    <3> HIDE DEF cost
    <3> QED
      BY SumEmpty
  <2>3. Nothing.total = 0 /\ Nothing.stale = FALSE /\ Nothing.currency = NoCurrency
    BY DEF Nothing
  <2>4. SaysCurrency(NoCurrency, {}, C)
    BY DEF SaysCurrency
  <2>5. Says(Nothing, 0)
    <3> HIDE DEF cost, C, P
    <3> QED
      BY <2>1, <2>2, <2>3, <2>4
  <2> QED
    BY <2>1, <2>5
<1>7. ASSUME NEW m \in Nat, m \in I PROVE m + 1 \in I
  <2> DEFINE sum == After(answers)[m]
             q   == answers[m + 1]
  <2> SUFFICES ASSUME m + 1 <= n PROVE Says(After(answers)[m + 1], m + 1)
    OBVIOUS
  <2>1. Says(sum, m)
    BY <1>1, <1>7
  <2>2. After(answers)[m + 1] = AddRow(sum, m + 1, q)
    <3>1. m \in 0..(n - 1)
      BY <1>1
    <3> QED
      BY <1>1, <3>1, EstimateSteps
  <2> HIDE DEF sum
  <2>3. CASE q = Failed
    <3>1. P(m + 1) = P(m)
      BY <2>3
    <3> QED
      BY <2>1, <2>2, <2>3, <3>1 DEF AddRow
  <2>4. CASE q # Failed
    <3> DEFINE c   == C[m + 1]
               sum2 == [total    |-> sum.total + Quantity[m + 1] * q.price,
                        stale    |-> sum.stale \/ q.stale,
                        currency |-> IF sum.currency \in {NoCurrency, c} THEN c ELSE "mixed"]
    <3>1. P(m + 1) = P(m) \cup {m + 1} /\ m + 1 \notin P(m)
      BY <2>4
    <3>2. m + 1 \in priced /\ P(m + 1) \subseteq priced
      BY <1>1, <2>4
    <3>3. AddRow(sum, m + 1, q) = sum2
      BY <1>2, <1>3, <2>4, <3>2 DEF AddRow
    <3>4. sum2.total = SumFunctionOnSet(cost, P(m + 1))
      <4>1. IsFiniteSet(P(m)) /\ \A i \in P(m) \cup {m + 1} : cost[i] \in Int
        BY <1>2, <1>5, <3>1, <3>2
      <4>2. cost[m + 1] = Quantity[m + 1] * q.price
        BY <1>2, <3>2
      <4> HIDE DEF cost, P
      <4>3. SumFunctionOnSet(cost, P(m) \cup {m + 1}) = SumFunctionOnSet(cost, P(m)) + cost[m + 1]
        BY <3>1, <4>1, SumAdd
      <4> QED
        BY <2>1, <3>1, <4>2, <4>3
    <3>5. /\ sum2.stale \in BOOLEAN
          /\ sum2.stale <=> \E i \in P(m + 1) : answers[i].stale
      <4>1. q.stale \in BOOLEAN
        BY <1>2, <3>2
      <4> HIDE DEF P
      <4> QED
        BY <2>1, <3>1, <4>1
    <3>6. SaysCurrency(sum2.currency, P(m + 1), C)
      <4>1. C[m + 1] # NoCurrency /\ \A j \in P(m) : C[j] # NoCurrency
        BY <1>2, <1>3, <3>1, <3>2
      <4> HIDE DEF C, P
      <4>2. SaysCurrency(IF sum.currency \in {NoCurrency, C[m + 1]} THEN C[m + 1] ELSE "mixed",
                         P(m) \cup {m + 1}, C)
        BY <2>1, <4>1, OneMoreCurrency
      <4> QED
        BY <3>1, <4>2
    <3> HIDE DEF sum2
    <3> QED
      BY <2>2, <3>3, <3>4, <3>5, <3>6
  <2> QED
    BY <2>3, <2>4
<1> HIDE DEF I
<1>8. Nat \subseteq I
  BY <1>6, <1>7, SetInduction
<1>9. Says(EstimateSpend(answers), n) /\ P(n) = priced
  <2>1. n \in I
    BY <1>1, <1>8
  <2> QED
    BY <1>1, <2>1, EstimateSteps DEF I
<1>10. SumFunction(cost) = SumFunctionOnSet(cost, priced)
  BY DEF SumFunction
<1>11. {Currency[LineKey[i]] : i \in priced} = {C[i] : i \in priced}
  BY <1>2, <1>3
<1>12. IF Cardinality({C[i] : i \in priced}) > 1 THEN EstimateSpend(answers).currency = "mixed"
       ELSE {EstimateSpend(answers).currency} \ {NoCurrency} = {C[i] : i \in priced}
  <2>1. IsFiniteSet(priced) /\ \A j \in priced : C[j] # NoCurrency
    BY <1>1, <1>2, <1>3, <1>5
  <2> DEFINE said == EstimateSpend(answers).currency
  <2>2. SaysCurrency(said, priced, C)
    BY <1>9
  <2> DEFINE all == {C[i] : i \in priced}
  <2>3. \A x : x \in all <=> \E i \in priced : x = C[i]
    OBVIOUS
  <2> HIDE DEF C, priced, said, all
  <2>4. IF Cardinality(all) > 1 THEN said = "mixed" ELSE {said} \ {NoCurrency} = all
    BY <2>1, <2>2, <2>3, CurrencyAsStated
  <2> QED
    BY <2>4 DEF said, all
<1> QED
  BY <1>9, <1>10, <1>11, <1>12

(* The estimate of GET /api/cost is the sum of its priced lines, is marked *)
(* when one of them is stale, and never adds up currencies in silence, for *)
(* every list of lines and of answers (EstimateSpend).                     *)
THEOREM EstimatesAddUp == Spec => []EstimateMatchesLines
<1>1. IInv => EstimateMatchesLines
  <2> SUFFICES ASSUME IInv, NEW c \in Callers, job[c] = "estimate"
               PROVE  LET result     == EstimateSpend(rows[c])
                          priced     == {i \in DOMAIN rows[c] : rows[c][i] # Failed}
                          cost       == [i \in priced |-> Quantity[i] * rows[c][i].price]
                          currencies == {Currency[LineKey[i]] : i \in priced}
                      IN  /\ result.total = SumFunction(cost)
                          /\ result.stale <=> \E i \in priced : rows[c][i].stale
                          /\ IF Cardinality(currencies) > 1 THEN result.currency = "mixed"
                             ELSE {result.currency} \ {NoCurrency} = currencies
    BY DEF EstimateMatchesLines
  <2>1. rows[c] \in Seq(Quotes \cup {Failed}) /\ Len(rows[c]) <= Len(LineKey)
    BY DEF IInv, TypeOK, LinesInv
  <2> QED
    BY <2>1, EstimateSays
<1> QED
  BY <1>1, Invariance, PTL

=============================================================================
