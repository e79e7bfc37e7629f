------------------------------ MODULE CostReport ------------------------------
(***************************************************************************)
(* Actual spend and what is made of it: the sources of bills               *)
(* (internal/billing), the projection to the end of the month and the      *)
(* growth by service (internal/cost), as the handler of /api/cost and the  *)
(* weekly summary use them (cmd/sentinel/api.go costJSON, daemon.go        *)
(* maybeWeeklyCost).  A bill arrives day by day, later than the day, and   *)
(* also between the pages of one answer and between the three requests of  *)
(* one summary.                                                            *)
(*                                                                         *)
(* Days are numbered through; money is whole, rates are fractions.         *)
(***************************************************************************)
EXTENDS Integers, SequencesExt, FiniteSetsExt

CONSTANTS
  Months,        \* the lengths of the months, in days
  Services,
  Charge(_, _),  \* what the service costs on that day
  PageDays,      \* days on a page of the answer (external)
  Days,          \* today, in the runs (bound)
  MaxLag,        \* days a bill may be late (bound)
  MaxFaults      \* requests that fail (bound)

MonthIds   == DOMAIN Months
First[m \in MonthIds] == IF m = 1 THEN 1 ELSE First[m - 1] + Months[m - 1]
LastDay    == First[Len(Months)] + Months[Len(Months)] - 1
MonthOf    == [d \in 1..LastDay |-> CHOOSE m \in MonthIds : First[m] <= d /\ d < First[m] + Months[m]]
DayOf(d)   == d - First[MonthOf[d]] + 1

ASSUME ConstantsOK ==
  /\ Months \in Seq(28..31) /\ Months # <<>>
  /\ IsFiniteSet(Services)
  /\ \A d \in 1..LastDay, s \in Services : Charge(d, s) \in Nat
  /\ PageDays \in Nat \ {0}
  /\ \A d \in Days : d \in 15..LastDay /\ MonthOf[d] + 1 < Len(Months)
  /\ MaxLag \in Nat /\ MaxFaults \in Nat

VARIABLES
  source,     \* where the bills come from
  today,      \* a day
  confirmed,  \* the last day whose bill has arrived
  job,        \* the report being made: its reader, the day it began, what it has fetched
  fetch,      \* the request under way: what had arrived when it began, the day its next page
              \* begins, its last day, the rows so far
  report,     \* the last report
  faults      \* bound

vars == <<source, today, confirmed, job, fetch, report, faults>>

Sources  == {"aws-ce", "alicloud-bss"}
Readers  == {"api", "weekly"}
Parts    == {"this", "prev", "month"}
NoName   == ""
NoJob    == [reader |-> "none"]
NoFetch  == [part |-> "none"]
NoReport == [reader |-> "none"]

Init ==
  /\ source \in Sources /\ today \in Days /\ confirmed \in (today - MaxLag)..today
  /\ job = NoJob /\ fetch = NoFetch /\ report = NoReport /\ faults = 0

(* The clouds confirm with a delay.                                        *)
Confirm ==
  /\ confirmed < today
  /\ confirmed' = confirmed + 1
  /\ UNCHANGED <<source, today, job, fetch, report, faults>>

-----------------------------------------------------------------------------
(* DailySpend.                                                             *)

(* The bill of some days: a row for each day and service that cost         *)
(* something.                                                              *)
Bill == [d \in 1..LastDay |->
           LET costly == SetToSeq({s \in Services : Charge(d, s) > 0})
           IN [i \in DOMAIN costly |-> [day |-> d, service |-> costly[i], cost |-> Charge(d, costly[i])]]]

RowsOf(a, b) == FlattenSeq([i \in 1..(Min({b, confirmed}) - a + 1) |-> Bill[a + i - 1]])

Begin(part, a, b) ==
  fetch' = [part |-> part, since |-> confirmed, at |-> IF source = "aws-ce" THEN a ELSE First[MonthOf[a]],
            end |-> IF source = "aws-ce" THEN b ELSE First[MonthOf[a] + 1] - 1, rows |-> <<>>]

(* Mutant: the token stays out of the next request.                        *)
FirstPageAgain ==
  /\ fetch # NoFetch
  /\ fetch.at <= fetch.end
  /\ fetch' = [fetch EXCEPT !.rows = @ \o RowsOf(fetch.at, Min({fetch.end, fetch.at + PageDays - 1}))]
  /\ UNCHANGED <<source, today, confirmed, job, report, faults>>

(* A page and the next token.  BSS answers for the month of the first day  *)
(* at once, without services.                                              *)
Page ==
  LET to == IF source = "aws-ce" THEN Min({fetch.end, fetch.at + PageDays - 1}) ELSE fetch.end
      new == RowsOf(fetch.at, to)
      anonymous == [i \in DOMAIN new |-> [new[i] EXCEPT !.service = NoName]]
  IN /\ fetch # NoFetch
     /\ fetch.at <= fetch.end
     /\ fetch' = [fetch EXCEPT !.at = to + 1, !.rows = @ \o IF source = "aws-ce" THEN new ELSE anonymous]
     /\ UNCHANGED <<source, today, confirmed, job, report, faults>>

-----------------------------------------------------------------------------
(* The projection: fractions as numerator and denominator.                 *)

Costs(rows)         == [i \in DOMAIN rows |-> rows[i].cost]
Sum(rows)           == SumFunction(Costs(rows))
RecentTail(rows, n) == IF Len(rows) <= n THEN rows ELSE SubSeq(rows, Len(rows) - n + 1, Len(rows))

(* AddDate(0, 1, 0) keeps the day of the month, and goes on into the month *)
(* after the next one when the next one has no such day.                   *)
AddMonth(d) == First[MonthOf[d] + 1] + DayOf(d) - 1

(* Mutant: the length of the next month.                                   *)
DaysInNextMonth(d) == Months[MonthOf[d] + 1]

DaysInMonth(d) == First[MonthOf[AddMonth(d)]] - First[MonthOf[d]]

ProjectEOM(rows, now) ==
  LET mtd == Sum(rows)
      tail == RecentTail(rows, 7)
      remaining == Max({0, DaysInMonth(now) - DayOf(now)})
  IN [mtd |-> mtd,
      conservative |-> [num |-> mtd * DayOf(now) + mtd * remaining, den |-> DayOf(now)],
      aggressive   |-> IF rows = <<>> THEN [num |-> 0, den |-> 1]
                       ELSE [num |-> mtd * Len(tail) + Sum(tail) * remaining, den |-> Len(tail)]]

-----------------------------------------------------------------------------
(* Growth.                                                                 *)

Of(rows, s)      == {i \in DOMAIN rows : rows[i].service = s}
SumOf(rows, s)   == SumFunctionOnSet(Costs(rows), Of(rows, s))
Named(rows)      == {rows[i].service : i \in DOMAIN rows}

(* Mutant: a week has seven days.                                          *)
DailyOfWeek(rows, s) == [num |-> SumOf(rows, s), den |-> 7]

(* dailyByService: by the rows that are there.                             *)
Daily(rows, s) ==
  IF Of(rows, s) = {} THEN [num |-> 0, den |-> 1]
  ELSE [num |-> SumOf(rows, s), den |-> Cardinality(Of(rows, s))]

More(a, b) == a.num * b.den > b.num * a.den

(* WeeklyTopGrowth; no more than five in the runs.                         *)
Growing(this, prev) == {s \in Named(this) : More(Daily(this, s), Daily(prev, s))}

-----------------------------------------------------------------------------
(* The readers.                                                            *)

MonthStart(d) == First[MonthOf[d]]

CostJSON ==
  /\ job = NoJob
  /\ job' = [reader |-> "api", now |-> today, this |-> <<>>, prev |-> <<>>, failed |-> {}]
  /\ Begin("month", MonthStart(today), today)
  /\ UNCHANGED <<source, today, confirmed, report, faults>>

WeeklyCost ==
  /\ job = NoJob
  /\ job' = [reader |-> "weekly", now |-> today, this |-> <<>>, prev |-> <<>>, failed |-> {}]
  /\ Begin("this", today - 7, today)
  /\ UNCHANGED <<source, today, confirmed, report, faults>>

(* What follows an answer, with its rows.                                  *)
Conclude(rows, failed) ==
  /\ report' = [reader |-> job.reader, now |-> job.now, eom |-> ProjectEOM(rows, job.now),
                growing |-> Growing(job.this, job.prev), failed |-> failed,
                since |-> fetch.since, until |-> confirmed]
  /\ job' = NoJob /\ fetch' = NoFetch

Answered(rows, failed) ==
  CASE fetch.part = "this" ->
         job' = [job EXCEPT !.this = rows] /\ Begin("prev", job.now - 14, job.now - 8) /\ UNCHANGED report
    [] fetch.part = "prev" ->
         /\ job' = [job EXCEPT !.prev = rows, !.failed = failed]
         /\ Begin("month", MonthStart(job.now), job.now) /\ UNCHANGED report
    [] OTHER -> Conclude(rows, failed)

LastPage ==
  /\ fetch # NoFetch
  /\ fetch.at > fetch.end
  /\ Answered(fetch.rows, job.failed)
  /\ UNCHANGED <<source, today, confirmed, faults>>

(* An error on any page loses the pages before it.  It ends the page of    *)
(* the API, and the summary if it is the first request of it; the summary  *)
(* goes on without the others.                                             *)
FetchFails ==
  /\ fetch # NoFetch /\ faults < MaxFaults
  /\ faults' = faults + 1
  /\ IF job.reader = "api" \/ fetch.part = "this"
     THEN job' = NoJob /\ fetch' = NoFetch /\ report' = NoReport
     ELSE Answered(<<>>, job.failed \cup {fetch.part})
  /\ UNCHANGED <<source, today, confirmed>>

Next == Confirm \/ CostJSON \/ WeeklyCost \/ Page \/ LastPage \/ FetchFails
Spec == Init /\ [][Next]_vars

-----------------------------------------------------------------------------
(* Properties.                                                             *)

Rows    == [day : 1..LastDay, service : Services \cup {NoName}, cost : Nat]
Jobs    == [reader : Readers, now : Days, this : Seq(Rows), prev : Seq(Rows), failed : SUBSET Parts]
Fetches == [part : Parts, since : Int, at : 1..(LastDay + 1), end : 0..LastDay, rows : Seq(Rows)]

TypeOK ==
  /\ source \in Sources /\ today \in Days /\ confirmed \in (today - MaxLag)..today
  /\ job \in Jobs \cup {NoJob} /\ (job # NoJob => job.now = today)
  /\ fetch \in Fetches \cup {NoFetch}
  /\ (fetch = NoFetch) <=> (job = NoJob)
  /\ report = NoReport \/ report.reader \in Readers
  /\ faults \in Nat

(* The rows of an answer are days of its range, in order, none twice: what *)
(* arrives between two pages is on neither or on the second.               *)
PagesFit ==
  fetch # NoFetch =>
    \A i, j \in DOMAIN fetch.rows :
      /\ fetch.rows[i].day < fetch.at
      /\ i < j => fetch.rows[i].day <= fetch.rows[j].day
      /\ i # j /\ source = "aws-ce" => fetch.rows[i] # fetch.rows[j]

(* The days that the request under way is for.                             *)
FirstAsked == CASE fetch.part = "this"  -> job.now - 7
                [] fetch.part = "prev"  -> job.now - 14
                [] fetch.part = "month" -> MonthStart(job.now)
LastAsked  == IF fetch.part = "prev" THEN job.now - 8 ELSE job.now

CostOf(d)    == SumFunction([s \in Services |-> Charge(d, s)])
Spent(m, to) == SumFunction([d \in First[m]..to |-> CostOf(d)])

Billed(r) == r.service \in Services /\ r.cost = Charge(r.day, r.service) /\ r.cost > 0

(* No cost of the days from a to b that are not after k is missing.        *)
Complete(rows, a, b, k) ==
  \A d \in a..b, s \in Services :
    d <= k /\ Charge(d, s) > 0 => \E i \in DOMAIN rows : rows[i].day = d /\ rows[i].service = s

(* The pages so far hold what had arrived when the request began, and      *)
(* nothing that had not arrived by now.                                    *)
FetchInv ==
  fetch # NoFetch =>
    /\ fetch.since <= confirmed
    /\ fetch.end = IF source = "aws-ce" THEN LastAsked ELSE First[MonthOf[FirstAsked] + 1] - 1
    /\ fetch.at \in (IF source = "aws-ce" THEN FirstAsked ELSE MonthStart(FirstAsked))..(fetch.end + 1)
    /\ source = "aws-ce" =>
         /\ \A i \in DOMAIN fetch.rows : /\ Billed(fetch.rows[i])
                                         /\ fetch.rows[i].day \in FirstAsked..confirmed
         /\ Complete(fetch.rows, FirstAsked, fetch.at - 1, fetch.since)
    /\ fetch.part = "month" =>
         /\ Spent(MonthOf[job.now], Min({fetch.at - 1, fetch.since})) <= Sum(fetch.rows)
         /\ Sum(fetch.rows) <= Spent(MonthOf[job.now], Min({fetch.at - 1, confirmed}))

(* The rows of this week had arrived before the week before was asked for. *)
JobInv ==
  job # NoJob /\ source = "aws-ce" =>
    /\ \A i \in DOMAIN job.prev : Billed(job.prev[i]) /\ job.prev[i].day \in (job.now - 14)..(job.now - 8)
    /\ \A i \in DOMAIN job.this : LET r == job.this[i] IN
         /\ Billed(r) /\ r.day \in (job.now - 7)..job.now
         /\ fetch.part = "prev" => r.day <= fetch.since
         /\ fetch.part = "month" /\ "prev" \notin job.failed
              => Complete(job.prev, job.now - 14, job.now - 8, r.day)

IInv == TypeOK /\ PagesFit /\ FetchInv /\ JobInv

(* Where the next month has the day of today, the projection is the        *)
(* average of the month so far times the days of the month, and lies       *)
(* between the averages of two real bills: the spend it starts from leaves *)
(* out no day that had arrived when the request began, and counts nothing  *)
(* twice nor what is still to come, however the bills arrive between its   *)
(* pages.  (Where the next month has no such day, the days of two months   *)
(* are counted.)                                                           *)
ProjectionIsReference ==
  report # NoReport /\ "month" \notin report.failed =>
    LET m == MonthOf[report.now] IN
    /\ Spent(m, report.since) <= report.eom.mtd /\ report.eom.mtd <= Spent(m, report.until)
    /\ DayOf(report.now) <= Months[m + 1] =>
         report.eom.conservative = [num |-> report.eom.mtd * Months[m], den |-> DayOf(report.now)]

(* A service that the summary calls growing really cost more on some day   *)
(* of the last week than on some day of the week before, provided that     *)
(* both requests were answered and that the source knows services: bills   *)
(* that arrive meanwhile, gaps, and windows of unequal length do not make  *)
(* a steady service grow.                                                  *)
GrowthIsReal ==
  report.reader = "weekly" /\ "prev" \notin report.failed /\ source = "aws-ce" =>
    \A s \in report.growing :
      \E d \in (report.now - 7)..report.now, e \in (report.now - 14)..(report.now - 8) : Charge(d, s) > Charge(e, s)

=============================================================================
