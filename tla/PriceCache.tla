----------------------------- MODULE PriceCache -----------------------------
(***************************************************************************)
(* Unit prices (internal/pricing) and those who ask for them: the waste    *)
(* scan of the main loop and of GET /api/waste (internal/waste Scanner),   *)
(* and the estimate of GET /api/cost (internal/cost EstimateSpend).  Every *)
(* HTTP request has a goroutine of its own, so calls of Quote overlap, and *)
(* they meet in the cache files, which are written in place.               *)
(*                                                                         *)
(* A key is a family with its attributes: one price at the source and one  *)
(* file in the cache.                                                      *)
(***************************************************************************)
EXTENDS Integers, Sequences, FiniteSets, Functions

CONSTANTS
  Keys,
  Source,     \* the branch of resolve: "ec2", "ec2bulk", "storage", "alicloud"
  Currency,   \* what the source charges in
  Prices,     \* unit prices the source may ask, none of them free
  Requests,   \* handlers of GET /api/waste and /api/cost at a time (bound)
  RuleKey,    \* keys of the waste rules, in the order of the catalog
  LineKey,    \* keys of the lines of the cost map
  Quantity,   \* usage of each line
  Offers,     \* offer files of the bulk interface
  TTL,        \* freshness of an entry, in ticks
  MaxPages    \* 100 in the code

(* Report.Currency before the first row.                                   *)
NoCurrency == ""

ASSUME PriceConstantsOK ==
  /\ Source \in [Keys -> {"ec2", "ec2bulk", "storage", "alicloud"}]
  /\ Currency \in [Keys -> STRING] /\ \A k \in Keys : Currency[k] # NoCurrency
  /\ Prices \in [Keys -> SUBSET (Nat \ {0})]
  /\ "loop" \notin Requests
  /\ RuleKey \in Seq(Keys) /\ RuleKey # <<>>
  /\ LineKey \in Seq(Keys) /\ LineKey # <<>>
  /\ Quantity \in [DOMAIN LineKey -> Nat]
  /\ TTL \in Nat \ {0} /\ MaxPages \in Nat

VARIABLES
  listed,   \* the price at the source
  file,     \* the cache file of each key
  pricer,   \* d.pricer # nil: SENTINEL_COST_MAP is set and could be loaded
  up,       \* the process runs
  pc,       \* where a caller is
  job,      \* scan or estimate
  item,     \* the rule or line in hand
  page,     \* page of GetProducts
  seen,     \* some product was on the pages so far
  held,     \* the unit price found so far, 0 for none
  rows,     \* what Quote answered to the job in hand, in order
  since,    \* history: ticks since the source last asked that price
  stored,   \* history: the key has been in the cache
  spoilt    \* history: a write that failed, overlapped or was cut short

call    == <<page, seen, held>>
callers == <<pc, job, item, call, rows>>
history == <<since, stored, spoilt>>
world   == <<listed, pricer, up>>
vars    == <<listed, file, pricer, up, pc, job, item, page, seen, held, rows,
             since, stored, spoilt>>

Callers == Requests \cup {"loop"}
Labels  == {"idle", "rule", "load", "ask", "bulk", "fallback", "open", "write", "reply"}

(* A file that is missing, empty or torn is no entry.                      *)
Money   == UNION {Prices[k] : k \in Keys}
NoEntry == [price |-> 0, age |-> TTL]
Entry(p) == [price |-> p, age |-> 0]
Files   == [price : Money, age : 0..TTL] \cup {NoEntry}

Quotes == [price : Money, stale : BOOLEAN]
Failed == [price |-> 0, stale |-> FALSE]    \* PriceError, Err

TypeOK ==
  /\ listed \in [Keys -> Money] /\ \A k \in Keys : listed[k] \in Prices[k]
  /\ file \in [Keys -> Files]
  /\ pricer \in BOOLEAN /\ up \in BOOLEAN
  /\ pc \in [Callers -> Labels]
  /\ job \in [Callers -> {"scan", "estimate"}]
  /\ item \in [Callers -> Nat]
  /\ \A c \in Callers : pc[c] \notin {"idle", "reply"}
       => item[c] \in (IF job[c] = "scan" THEN DOMAIN RuleKey ELSE DOMAIN LineKey)
  /\ page \in [Callers -> 0..(MaxPages + 1)]
  /\ seen \in [Callers -> BOOLEAN]
  /\ held \in [Callers -> Money \cup {0}]
  /\ \A c \in Callers : pc[c] \in {"open", "write"} => held[c] # 0
  /\ rows \in [Callers -> Seq(Quotes \cup {Failed})]
  /\ since \in [Keys -> [Money -> 0..TTL]]
  /\ stored \in [Keys -> BOOLEAN] /\ spoilt \in [Keys -> BOOLEAN]

Each(v) == [c \in Callers |-> v]

Init ==
  /\ listed \in {l \in [Keys -> Money] : \A k \in Keys : l[k] \in Prices[k]}
  /\ file = [k \in Keys |-> NoEntry]
  /\ pricer \in BOOLEAN
  /\ up = TRUE
  /\ pc = Each("idle") /\ job = Each("scan") /\ item = Each(1)
  /\ page = Each(0) /\ seen = Each(FALSE) /\ held = Each(0)
  /\ rows = Each(<<>>)
  /\ since = [k \in Keys |-> [p \in Money |-> IF p = listed[k] THEN 0 ELSE TTL]]
  /\ stored = [k \in Keys |-> FALSE]
  /\ spoilt = [k \in Keys |-> FALSE]

-----------------------------------------------------------------------------
(* Jobs.                                                                   *)

Key(c) == IF job[c] = "scan" THEN RuleKey[item[c]] ELSE LineKey[item[c]]

Items(c) == IF job[c] = "scan" THEN Len(RuleKey) ELSE Len(LineKey)

Writing(c, k) == pc[c] = "write" /\ Key(c) = k

At(c, label)   == up /\ pc[c] = label
Goto(c, label) == pc' = [pc EXCEPT ![c] = label]

(* GET /api/cost estimates only with a price catalog.                      *)
Start(c, j) ==
  /\ At(c, "idle")
  /\ j = "estimate" => c # "loop" /\ pricer
  /\ job' = [job EXCEPT ![c] = j]
  /\ item' = [item EXCEPT ![c] = 1]
  /\ rows' = [rows EXCEPT ![c] = <<>>]
  /\ Goto(c, IF j = "scan" THEN "rule" ELSE "load")
  /\ UNCHANGED <<world, file, call, history>>

(* On to the next rule or line, or to the end.                             *)
NextItem(c) ==
  /\ item' = [item EXCEPT ![c] = @ + 1]
  /\ Goto(c, IF item[c] = Items(c) THEN "reply"
             ELSE IF job[c] = "scan" THEN "rule" ELSE "load")

(* The query failed, found nothing, or a sample that is not true; or the   *)
(* rule names no price family, or attributes that cannot be parsed.        *)
RuleSilent(c) ==
  /\ At(c, "rule")
  /\ NextItem(c)
  /\ UNCHANGED <<world, file, job, call, rows, history>>

(* A candidate: applyPricing asks for the price.                           *)
RuleHolds(c) ==
  /\ At(c, "rule") /\ pricer
  /\ Goto(c, "load")
  /\ UNCHANGED <<world, file, job, item, call, rows, history>>

(* The files that callers would have written are left as they are.         *)
AllStop ==
  /\ spoilt' = [k \in Keys |-> spoilt[k] \/ \E c \in Callers : Writing(c, k)]
  /\ pc' = Each("idle") /\ job' = Each("scan") /\ item' = Each(1)
  /\ page' = Each(0) /\ seen' = Each(FALSE) /\ held' = Each(0)
  /\ rows' = Each(<<>>)

(* A nil *Catalog in the interface field Pricer is not a nil interface:    *)
(* applyPricing calls Quote on it, which reads its TTL.  net/http recovers *)
(* the handler; nobody recovers the main loop.                             *)
RulePanics(c) ==
  /\ At(c, "rule") /\ ~pricer
  /\ IF c = "loop" THEN up' = FALSE /\ AllStop
     ELSE /\ Goto(c, "reply")
          /\ UNCHANGED <<up, job, item, call, rows, spoilt>>
  /\ UNCHANGED <<listed, pricer, file, since, stored>>

(* The candidates go to the Tracker, or the report to the client.          *)
Reply(c) ==
  /\ At(c, "reply")
  /\ Goto(c, "idle")
  /\ rows' = [rows EXCEPT ![c] = <<>>]
  /\ UNCHANGED <<world, file, job, item, call, history>>

-----------------------------------------------------------------------------
(* Quote.                                                                  *)

Forget(c) ==
  /\ page' = [page EXCEPT ![c] = 0]
  /\ seen' = [seen EXCEPT ![c] = FALSE]
  /\ held' = [held EXCEPT ![c] = 0]

Return(c, q) ==
  /\ rows' = [rows EXCEPT ![c] = Append(@, q)]
  /\ NextItem(c)
  /\ Forget(c)
  /\ UNCHANGED job

(* What FileCache.Load makes of a file.                                    *)
Found(f) == f.price # 0

(* Mutant: an entry is used as it is, whatever its age.                    *)
FreshAnyAge(f) == Found(f)

Fresh(f) == Found(f) /\ f.age < TTL

Quote(f, stale) == [price |-> f.price, stale |-> stale]

Hit(c) ==
  /\ At(c, "load") /\ Fresh(file[Key(c)])
  /\ Return(c, Quote(file[Key(c)], FALSE))
  /\ UNCHANGED <<world, file, history>>

(* Mutant: an expired entry is removed before the source is asked.         *)
MissEvicts(c) ==
  /\ At(c, "load") /\ ~Fresh(file[Key(c)])
  /\ Goto(c, "ask")
  /\ file' = [file EXCEPT ![Key(c)] = NoEntry]
  /\ UNCHANGED <<world, job, item, call, rows, history>>

Miss(c) ==
  /\ At(c, "load") /\ ~Fresh(file[Key(c)])
  /\ Goto(c, "ask")
  /\ UNCHANGED <<world, file, job, item, call, rows, history>>

(* All sources failed: an entry of any age will do, and is marked.         *)
Fallback(c) ==
  /\ At(c, "fallback")
  /\ LET f == file[Key(c)]
     IN  Return(c, IF Found(f) THEN Quote(f, TRUE) ELSE Failed)
  /\ UNCHANGED <<world, file, history>>

-----------------------------------------------------------------------------
(* resolve.                                                                *)

(* GetProducts gives up after so many pages, with what it has.             *)
LastPage(c) == page[c] > MaxPages

(* How resolve goes on after the last page: with a price; with the bulk    *)
(* file, if ec2 was to use it and the query gave no product at all; or not.*)
AfterPages(k, some, price) ==
  IF price # 0 THEN "open"
  ELSE IF Source[k] = "ec2bulk" /\ ~some THEN "bulk" ELSE "fallback"

(* A page of products: none; some, but no usable rate; or the price.  Only *)
(* Query API answers come in pages.                                        *)
Page(c, has, more) ==
  /\ At(c, "ask")
  /\ LET k     == Key(c)
         some  == seen[c] \/ has # "nothing"
         price == IF held[c] = 0 /\ has = "price" THEN listed[k] ELSE held[c]
     IN  /\ held' = [held EXCEPT ![c] = price]
         /\ IF more /\ ~LastPage(c)
            THEN /\ Source[k] # "alicloud"
                 /\ page' = [page EXCEPT ![c] = @ + 1]
                 /\ seen' = [seen EXCEPT ![c] = some]
                 /\ UNCHANGED pc
            ELSE /\ page' = [page EXCEPT ![c] = 0]
                 /\ seen' = [seen EXCEPT ![c] = FALSE]
                 /\ Goto(c, AfterPages(k, some, price))
  /\ UNCHANGED <<world, file, job, item, rows, history>>

(* Mutant: after a failure GetProducts starts over.                        *)
PageFailsRetries(c) ==
  /\ At(c, "ask")
  /\ Forget(c)
  /\ UNCHANGED <<world, file, pc, job, item, rows, history>>

(* The request fails, the status is not 200, or the answer cannot be read: *)
(* what earlier pages held is dropped.                                     *)
PageFails(c) ==
  /\ At(c, "ask")
  /\ Goto(c, AfterPages(Key(c), FALSE, 0))
  /\ Forget(c)
  /\ UNCHANGED <<world, file, job, item, rows, history>>

(* FindOnDemandRates reads the offer file's sections as they come.  Rates  *)
(* are looked for among the products matched so far.  A kind of terms that *)
(* is not OnDemand is an error: its brace has been read when the decoder   *)
(* is asked to skip a value.                                               *)
AfterSection(state, section) ==
  CASE state.rates = "error" -> state
    [] section = "products"  -> [state EXCEPT !.matched = TRUE]
    [] section = "OnDemand"  -> [state EXCEPT !.rates = IF state.matched THEN "found" ELSE "none"]
    [] section = "Reserved"  -> [state EXCEPT !.rates = "error"]

FindOnDemandRates(offer) ==
  LET after[i \in 0..Len(offer)] ==
        IF i = 0 THEN [matched |-> FALSE, rates |-> "none"]
        ELSE AfterSection(after[i - 1], offer[i])
  IN  after[Len(offer)].rates

BulkFound(c) ==
  /\ At(c, "bulk")
  /\ \E offer \in Offers : FindOnDemandRates(offer) = "found"
  /\ held' = [held EXCEPT ![c] = listed[Key(c)]]
  /\ Goto(c, "open")
  /\ UNCHANGED <<world, file, job, item, page, seen, rows, history>>

BulkFails(c) ==
  /\ At(c, "bulk")
  /\ Goto(c, "fallback")
  /\ UNCHANGED <<world, file, job, item, call, rows, history>>

-----------------------------------------------------------------------------
(* FileCache.Store.                                                        *)

(* Mutant: an entry that exists is left alone.                             *)
OpenKeepsOld(c) ==
  /\ At(c, "open") /\ ~Found(file[Key(c)])
  /\ file' = [file EXCEPT ![Key(c)] = NoEntry]
  /\ Goto(c, "write")
  /\ UNCHANGED <<world, job, item, call, rows, history>>

(* os.WriteFile truncates before it writes.                                *)
Open(c) ==
  /\ At(c, "open")
  /\ file' = [file EXCEPT ![Key(c)] = NoEntry]
  /\ Goto(c, "write")
  /\ UNCHANGED <<world, job, item, call, rows, history>>

(* The error of Store is dropped.                                          *)
OpenFails(c) ==
  /\ At(c, "open")
  /\ Return(c, [price |-> held[c], stale |-> FALSE])
  /\ UNCHANGED <<world, file, history>>

Write(c) ==
  /\ At(c, "write")
  /\ file' = [file EXCEPT ![Key(c)] = Entry(held[c])]
  /\ Return(c, [price |-> held[c], stale |-> FALSE])
  /\ stored' = [stored EXCEPT ![Key(c)] = TRUE]
  /\ spoilt' = [spoilt EXCEPT ![Key(c)] = FALSE]
  /\ UNCHANGED <<world, since>>

(* The disk is full; or another caller has written the file since it was   *)
(* truncated, and the end of its longer text remains.                      *)
WriteSpoils(c) ==
  /\ At(c, "write")
  /\ file' = [file EXCEPT ![Key(c)] = NoEntry]
  /\ Return(c, [price |-> held[c], stale |-> FALSE])
  /\ spoilt' = [spoilt EXCEPT ![Key(c)] = TRUE]
  /\ UNCHANGED <<world, since, stored>>

-----------------------------------------------------------------------------
(* The estimate: a fold of the answers to its lines.                       *)

(* Mutant: the mark of the last line stands for all.                       *)
AddRowLastStale(sum, i, q) ==
  IF q = Failed THEN sum
  ELSE [total    |-> sum.total + Quantity[i] * q.price,
        stale    |-> q.stale,
        currency |-> IF sum.currency \in {NoCurrency, Currency[LineKey[i]]}
                     THEN Currency[LineKey[i]] ELSE "mixed"]

AddRow(sum, i, q) ==
  IF q = Failed THEN sum
  ELSE LET c == Currency[LineKey[i]] IN
       [total    |-> sum.total + Quantity[i] * q.price,
        stale    |-> sum.stale \/ q.stale,
        currency |-> IF sum.currency \in {NoCurrency, c} THEN c ELSE "mixed"]

EstimateSpend(answers) ==
  LET after[i \in 0..Len(answers)] ==
        IF i = 0 THEN [total |-> 0, stale |-> FALSE, currency |-> NoCurrency]
        ELSE AddRow(after[i - 1], i, answers[i])
  IN  after[Len(answers)]

-----------------------------------------------------------------------------
(* The world.                                                              *)

ChangePrice(k, p) ==
  /\ p # listed[k]
  /\ listed' = [listed EXCEPT ![k] = p]
  /\ since' = [since EXCEPT ![k][p] = 0]
  /\ UNCHANGED <<file, pricer, up, callers, stored, spoilt>>

Older(age) == IF age < TTL THEN age + 1 ELSE age

(* A tick is long (the TTL is a day): what was answered has been written.  *)
Tick ==
  /\ \A c \in Callers : held[c] = 0
  /\ file' = [k \in Keys |-> [file[k] EXCEPT !.age = Older(@)]]
  /\ since' = [k \in Keys |-> [p \in Money |->
                 IF p = listed[k] THEN 0 ELSE Older(since[k][p])]]
  /\ UNCHANGED <<world, callers, stored, spoilt>>

Restart ==
  /\ up' = TRUE
  /\ pricer' \in BOOLEAN
  /\ AllStop
  /\ UNCHANGED <<listed, file, since, stored>>

Quoting(c) ==
  \/ Hit(c) \/ Miss(c) \/ Fallback(c)
  \/ \E has \in {"nothing", "unusable", "price"}, more \in BOOLEAN : Page(c, has, more)
  \/ PageFails(c)
  \/ BulkFound(c) \/ BulkFails(c)
  \/ Open(c) \/ OpenFails(c)
  \/ Write(c) \/ WriteSpoils(c)

Work(c) ==
  \/ RuleSilent(c) \/ RuleHolds(c) \/ RulePanics(c)
  \/ Quoting(c)
  \/ Reply(c)

Next ==
  \/ \E c \in Callers :
       \/ \E j \in {"scan", "estimate"} : Start(c, j)
       \/ Work(c)
  \/ \E k \in Keys : \E p \in Prices[k] : ChangePrice(k, p)
  \/ Tick
  \/ Restart

Spec == Init /\ [][Next]_vars

(* Time passes, the ticker starts scans, and a caller that has begun goes  *)
(* on (the HTTP clients have no timeout: README, assumptions).  For the    *)
(* scans of the loop, rules that hold, answers that end with a price and   *)
(* files that can be opened come again and again.  Nothing is assumed of   *)
(* the requests to the API, of their queries, or of anyone's writes.       *)
Fairness ==
  /\ SF_vars(Tick)
  /\ WF_vars(Start("loop", "scan"))
  /\ \A c \in Callers : WF_vars(Work(c))
  /\ \A i \in DOMAIN RuleKey : LET Mine(A) == A /\ item["loop"] = i IN
       /\ SF_vars(Mine(RuleHolds("loop")))
       /\ SF_vars(Mine(Page("loop", "price", FALSE)))
       /\ SF_vars(Mine(Open("loop")))

LiveSpec == Spec /\ Fairness

-----------------------------------------------------------------------------
(* Safety.                                                                 *)

(* Quote has answered c, and this is the answer.                           *)
Answered(c) == Len(rows'[c]) > Len(rows[c])
Answer(c)   == rows'[c][Len(rows'[c])]

(* A price that is not marked as stale was the source's price within the   *)
(* last TTL, whoever asked for it and however the writes of the callers    *)
(* met in the file (Quote: an entry is used as it is within the TTL).      *)
NotStaleIsRecent ==
  [][\A c \in Callers :
       Answered(c) /\ Answer(c) # Failed /\ ~Answer(c).stale
         => since[Key(c)][Answer(c).price] < TTL]_vars

(* What has been in the cache is there for the time when no source answers *)
(* (Quote: "use an expired entry and mark it stale"), for ever: only a     *)
(* write that is going on, was cut short, failed or met another can leave  *)
(* a caller without a price.                                               *)
KnownPriceQuoted ==
  [][\A c \in Callers :
       Answered(c) /\ Answer(c) = Failed
         => \/ ~stored[Key(c)] \/ spoilt[Key(c)]
            \/ \E d \in Callers \ {c} : Writing(d, Key(c))]_vars

(* The estimate is what its lines say (EstimateSpend): lines without a     *)
(* price count for nothing, one stale price marks it, and currencies are   *)
(* never added up in silence, in whatever order they come.                 *)
EstimateMatchesLines ==
  \A c \in Callers : job[c] = "estimate" =>
    LET result     == EstimateSpend(rows[c])
        priced     == {i \in DOMAIN rows[c] : rows[c][i] # Failed}
        cost       == [i \in priced |-> Quantity[i] * rows[c][i].price]
        currencies == {Currency[LineKey[i]] : i \in priced}
    IN  /\ result.total = SumFunction(cost)
        /\ result.stale <=> \E i \in priced : rows[c][i].stale
        /\ IF Cardinality(currencies) > 1 THEN result.currency = "mixed"
           ELSE {result.currency} \ {NoCurrency} = currencies

-----------------------------------------------------------------------------
(* The inductive invariant behind these.                                   *)

CacheKept ==
  \A k \in Keys : stored[k] => \/ Found(file[k]) \/ spoilt[k]
                              \/ \E c \in Callers : Writing(c, k)

(* An entry is at least as old as the news that its price was asked.       *)
AgesInv ==
  \A k \in Keys : /\ since[k][listed[k]] = 0
                  /\ Found(file[k]) => since[k][file[k].price] <= file[k].age

(* A price in hand was asked within the tick.                              *)
HeldInv ==
  \A c \in Callers : held[c] # 0 => /\ pc[c] \in {"ask", "open", "write"}
                                     /\ since[Key(c)][held[c]] = 0

(* An estimate has an answer for each line behind it, and only an estimate *)
(* asks without a rule.                                                    *)
LinesInv ==
  \A c \in Callers :
    /\ pc[c] = "rule" => job[c] = "scan"
    /\ job[c] = "estimate" =>
         /\ Len(rows[c]) <= Len(LineKey)
         /\ pc[c] \notin {"idle", "reply"} => Len(rows[c]) = item[c] - 1

IInv == TypeOK /\ CacheKept /\ AgesInv /\ HeldInv /\ LinesInv

-----------------------------------------------------------------------------
(* Liveness.                                                               *)

(* Every scan and every request ends, whatever the sources answer: a list  *)
(* whose pages never end is given up (GetProducts).                        *)
JobsEnd == \A c \in Callers : pc[c] # "idle" ~> pc[c] = "idle"

Settled == <>[][~Restart]_vars /\ <>[](up /\ pricer)

(* When the price of a rule's resource no longer changes, there comes a    *)
(* time after which nobody is told an older one: slow callers and failed   *)
(* writes do not keep it in the cache, and it is not renewed by being used.*)
PriceCatchesUp ==
  \A i \in DOMAIN RuleKey, p \in Money :
    Settled /\ <>[](listed[RuleKey[i]] = p)
      => <>[][\A c \in Callers :
                Answered(c) /\ Key(c) = RuleKey[i] /\ Answer(c) # Failed
                  => Answer(c).price = p]_vars

=============================================================================
