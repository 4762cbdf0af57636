------------------------------- MODULE Reports -------------------------------
(***************************************************************************)
(* The reports of the admin endpoints, each a function of the records, the *)
(* meter's events, the request log and the audit log of UsageLog, with the *)
(* filters and the thresholds of its handler.  Orders, pages and "top ten" *)
(* lists, of which a report's numbers do not depend, are left out; a       *)
(* percentage is rounded as the code rounds it, an average is left out.    *)
(* Many handlers count the same things again, each in its own way: what    *)
(* the properties at the end say is that they agree, with each other, with *)
(* the records and with what happened.                                     *)
(***************************************************************************)
EXTENDS UsageLog

---------------------------------------------------------------------------
(* Groups of indexes of a function whose values are records.               *)

Sum(fn, field, S) == MapThenSumSet(LAMBDA x : fn[x][field], S)
Values(fn, field, S) == {fn[x][field] : x \in S}
Split(fn, field, S) == [v \in Values(fn, field, S) |-> {x \in S : fn[x][field] = v}]
Round(a, b) == (2 * a + b) \div (2 * b)                  \* Math.round(a / b)
Percent(part, whole) == IF whole = 0 THEN 0 ELSE Round(100 * part, whole)
Leaders(fn, field) == {v \in DOMAIN fn : \A w \in DOMAIN fn : fn[w][field] <= fn[v][field]}
AllOf(fn, field) == Sum(fn, field, DOMAIN fn)

(* Of keys: how many, and their credits.                                   *)
Money(S) == LET spent == Sum(recs, "spent", S)  left == Sum(recs, "credits", S) IN
    [keys |-> Cardinality(S), allocated |-> left + spent, spent |-> spent, remaining |-> left,
     calls |-> Sum(recs, "calls", S), used |-> Percent(spent, left + spent)]
MoneyBy(field, S) == LET g == Split(recs, field, S) IN [v \in DOMAIN g |-> Money(g[v])]

(* Of calls, in the meter or in the log.                                   *)
Usage(fn, S) == LET yes == {i \in S : fn[i].allowed} IN
    [calls |-> Cardinality(S), allowed |-> Cardinality(yes), denied |-> Cardinality(S \ yes),
     credits |-> Sum(fn, "credits", yes), keys |-> Cardinality(Values(fn, "key", S)),
     tools |-> Cardinality(Values(fn, "tool", S))]
UsageBy(fn, field, S) == LET g == Split(fn, field, S) IN [v \in DOMAIN g |-> Usage(fn, g[v])]
DeniedBy(fn, field, S) == UsageBy(fn, field, {i \in S : ~fn[i].allowed})

All == DOMAIN recs
Active == {k \in All : recs[k].active}
(* Slip: the suspended count as live.                                      *)
LiveAnyway == Active
Live == {k \in Active : ~recs[k].suspended}
Revoked == All \ Active
Suspended == {k \in All : recs[k].suspended}
Lapsed == {k \in All : recs[k].expires # 0 /\ recs[k].expires <= hour}
Events == DOMAIN meter
Charges == {i \in Events : meter[i].allowed}
Entries == DOMAIN log
Served == {i \in Entries : log[i].allowed}

(* The namespace of an event that has none is the default one, but a query *)
(* for it does not find the event.                                         *)
NsOf(i) == IF meter[i].ns = "undefined" THEN "default" ELSE meter[i].ns
PerNamespace(S) == [n \in {NsOf(i) : i \in S} |-> Usage(meter, {i \in S : NsOf(i) = n})]
(* Slip: the events of the first hour are left out.                        *)
GetEventsAfter(since, ns) == {i \in Events : meter[i].hour > since /\ ns \in {"", meter[i].ns}}
GetEvents(since, ns) == {i \in Events : meter[i].hour >= since /\ ns \in {"", meter[i].ns}}
GetSummary(since, ns) ==
    LET E == GetEvents(since, ns) IN
    [total |-> Usage(meter, E), perTool |-> UsageBy(meter, "tool", E),
     perKey |-> UsageBy(meter, "name", E), denyReasons |-> DeniedBy(meter, "reason", E)]

---------------------------------------------------------------------------
(* Of the keys and their states.                                           *)

KeyUsage(k, since) ==
    LET E == {i \in Events : meter[i].key = k /\ meter[i].hour >= since} IN
    [total |-> Usage(meter, E), perTool |-> UsageBy(meter, "tool", E),
     hours |-> UsageBy(meter, "hour", E), denyReasons |-> DeniedBy(meter, "reason", E)]

(* The credits allocated are those that remain, and what was spent is      *)
(* subtracted from them once more.                                         *)
KeyStats(ns) ==
    LET S == {k \in All : ns \in {"", recs[k].ns}}  all == Money(S) IN
    [total |-> all.keys, revoked |-> Cardinality(S \ Active),
     suspended |-> Cardinality(S \cap Active \cap Suspended),
     expired |-> Cardinality((S \cap Live) \cap Lapsed),
     active |-> Cardinality((S \cap Live) \ Lapsed),
     allocated |-> all.remaining, spent |-> all.spent, remaining |-> all.remaining - all.spent,
     calls |-> all.calls, byNamespace |-> MoneyBy("ns", S),
     byGroup |-> MoneyBy("group", {k \in S : recs[k].group # NoGroup})]

(* Slip: a key revoked while suspended is counted as both.                 *)
KeyStatusTwice ==
    LET fit == (Live \ Lapsed) IN
    [total |-> Cardinality(All), suspended |-> Cardinality(Suspended),
     revoked |-> Cardinality(Revoked), expired |-> Cardinality(Live \cap Lapsed),
     active |-> Cardinality(fit),
     low |-> {k \in fit : recs[k].credits <= 10},
     soon |-> {k \in fit : recs[k].expires # 0 /\ recs[k].expires <= hour + 7 * Day}]
(* Suspended comes first: a key revoked while suspended counts as such.    *)
KeyStatus ==
    LET fit == (Live \ Lapsed) IN
    [total |-> Cardinality(All), suspended |-> Cardinality(Suspended),
     revoked |-> Cardinality(Revoked \ Suspended), expired |-> Cardinality(Live \cap Lapsed),
     active |-> Cardinality(fit),
     low |-> {k \in fit : recs[k].credits <= 10},
     soon |-> {k \in fit : recs[k].expires # 0 /\ recs[k].expires <= hour + 7 * Day}]

(* Expired comes before suspended.                                         *)
SystemDashboard ==
    LET near(k, d) == recs[k].expires # 0 /\ recs[k].expires - hour <= d * Day IN
    [keys |-> [total |-> Cardinality(All), revoked |-> Cardinality(Revoked),
               expired |-> Cardinality(Active \cap Lapsed),
               suspended |-> Cardinality((Active \cap Suspended) \ Lapsed),
               active |-> Cardinality(Live \ Lapsed)],
     credits |-> Money(All), usage |-> GetSummary(0, ""),
     critical |-> Cardinality({k \in Active : near(k, 1)})
                  + Cardinality({k \in Active : recs[k].credits <= 0}),
     warning |-> Cardinality({k \in Active : near(k, 7) /\ ~near(k, 1)}),
     info |-> Cardinality(Active \cap Suspended)]

(* The audit log's counts, the age of revoked keys and the keys at risk.   *)
KeyLifecycleReport ==
    [events |-> [e \in DOMAIN audit |-> MapThenSumSet(LAMBDA k : audit[e][k], Keys)],
     ended |-> {k \in Revoked : (IF recs[k].expires # 0 THEN Min({recs[k].expires, hour}) ELSE hour)
                                > recs[k].born},
     zero |-> {k \in Live : recs[k].credits <= 0}, expired |-> Live \cap Lapsed,
     soon |-> {k \in Live \ Lapsed : recs[k].expires # 0 /\ recs[k].expires - hour <= 7 * Day}]

LifecycleAnalysis ==
    [total |-> Cardinality(All), active |-> Cardinality(Live), inactive |-> Cardinality(Revoked),
     suspended |-> Cardinality(Active \cap Suspended), used |-> Money(All).used,
     stale |-> {k \in Live : ~recs[k].used},
     soon |-> {k \in Active : recs[k].expires > hour /\ recs[k].expires - hour <= 7 * Day},
     byNamespace |-> [n \in Values(recs, "ns", All) |->
                        LET S == {k \in All : recs[k].ns = n} IN
                        [total |-> Cardinality(S), active |-> Cardinality(S \cap Live),
                         suspended |-> Cardinality(S \cap Suspended)]]]

KeyChurn == [total |-> Cardinality(All), active |-> Cardinality(Live),
             revoked |-> Cardinality(Revoked \ Suspended), suspended |-> Cardinality(Suspended),
             neverUsed |-> Cardinality({k \in Active : recs[k].calls = 0}),
             churn |-> Percent(Cardinality(Revoked \ Suspended), Cardinality(All))]

KeyAge == LET age(k) == hour - recs[k].born  within(d) == {k \in Active : age(k) < d * Day} IN
    [total |-> Cardinality(Active), day |-> Cardinality(within(1)),
     week |-> Cardinality(within(7) \ within(1)), month |-> Cardinality(within(30) \ within(7)),
     older |-> Cardinality(Active \ within(30)),
     oldest |-> {k \in Active : \A j \in Active : age(j) <= age(k)}]

(* The score of the system's health from those of keys, errors and credits.*)
SystemHealth ==
    LET n == Cardinality(All)
        ills == Cardinality(Suspended) + Cardinality(Revoked \ Suspended)
                + Cardinality(Live \cap Lapsed) + Cardinality({k \in Live : recs[k].credits <= 10})
        m == Money(All)
        spentIn1000 == (1000 * m.spent) \div Max({1, m.allocated})
        keyScore == IF n = 0 THEN 100 ELSE Max({0, Round(100 * (n - ills), n)})
        errors == IF log = <<>> THEN 100
                  ELSE Max({0, Round(100 * Len(log) - 200 * Cardinality(Entries \ Served), Len(log))})
        credits == IF spentIn1000 > 900 THEN Max({0, 50 - (spentIn1000 - 900) \div 2})
                   ELSE IF spentIn1000 > 800 THEN 80 - (3 * (spentIn1000 - 800)) \div 10 ELSE 100
        score == (40 * keyScore + 35 * errors + 25 * credits + 50) \div 100
    IN [keys |-> keyScore, errors |-> errors, credits |-> credits, score |-> score,
        level |-> IF score >= 80 THEN "healthy" ELSE IF score >= 60 THEN "good"
                  ELSE IF score >= 40 THEN "warning" ELSE "critical"]

(* Slip: an empty key is only a warning.                                   *)
KeyHealthOverviewMild ==
    LET critical == {k \in Live : recs[k].credits < 0}
        warning == {k \in Live \ critical : Money({k}).used >= 75}
    IN [total |-> Cardinality(Live), critical |-> critical, warning |-> warning,
        healthy |-> Live \ (critical \cup warning)]
KeyHealthOverview ==
    LET critical == {k \in Live : recs[k].credits = 0}
        warning == {k \in Live \ critical : Money({k}).used >= 75}
    IN [total |-> Cardinality(Live), critical |-> critical, warning |-> warning,
        healthy |-> Live \ (critical \cup warning)]

---------------------------------------------------------------------------
(* Of the credits of the keys.                                             *)

SystemOverview == [total |-> Cardinality(All), active |-> Cardinality(Live),
                   revoked |-> Cardinality(Revoked),
                   suspended |-> Cardinality(Active \cap Suspended), credits |-> Money(Live),
                   tools |-> Cardinality(Values(log, "tool", Served))]
CreditFlow == [total |-> Money(Active), spenders |-> {k \in Active : recs[k].spent > 0},
               byTool |-> UsageBy(meter, "tool", Charges)]
NamespaceUsage == MoneyBy("ns", Active)
NamespaceRevenue == MoneyBy("ns", Live)
NamespaceComparison == LET by == MoneyBy("ns", Live) IN [by |-> by, leader |-> Leaders(by, "allocated")]
NamespaceActivity == LET by == MoneyBy("ns", Live) IN [by |-> by, top |-> Leaders(by, "spent")]

(* Slip: revoked members count too.                                        *)
GroupPerformanceRevoked ==
    LET members(g) == {k \in All : group.of[k] = g} IN
    [groups |-> [g \in group.alive |-> Money(members(g))],
     ungrouped |-> Cardinality(Active \ UNION {members(g) : g \in group.alive})]
(* The members the table of groups knows, of the groups that are left.     *)
GroupPerformance ==
    LET members(g) == {k \in Active : group.of[k] = g} IN
    [groups |-> [g \in group.alive |-> Money(members(g))],
     ungrouped |-> Cardinality(Active \ UNION {members(g) : g \in group.alive})]

(* The group a record names, be it deleted or not.                         *)
GroupRevenue == LET by == MoneyBy("group", Live) IN [by |-> by, top |-> Leaders(by, "spent")]
GroupActivity == MoneyBy("group", Live)

ConsumerInsights ==
    [total |-> Money(All), active |-> {k \in All : recs[k].calls > 0},
     tools |-> [k \in All |-> Values(log, "tool", {i \in Served : log[i].key = k})]]
ConsumerActivity ==
    LET busy == {k \in Live : recs[k].calls > 0} IN
    [total |-> Cardinality(Live), active |-> Cardinality(busy), inactive |-> Cardinality(Live \ busy),
     last |-> [k \in Live |-> LET E == {i \in Entries : log[i].key = k} IN
                              IF E = {} THEN -1 ELSE log[Max(E)].hour]]
ConsumerRetention ==
    LET kept(S) == Cardinality({k \in S : recs[k].calls > 0})
        day(k) == recs[k].born \div Day IN
    [total |-> Cardinality(Live), kept |-> kept(Live),
     cohorts |-> [d \in {day(k) : k \in Live} |-> LET S == {k \in Live : day(k) = d} IN
                    [created |-> Cardinality(S), kept |-> kept(S), spent |-> Sum(recs, "spent", S)]]]
ConsumerGrowth == [total |-> Cardinality(Live), allocated |-> Money(Live).allocated,
                   fresh |-> {k \in Live : hour - recs[k].born < Day}]
ConsumerSegmentation ==
    LET segment(k) == IF recs[k].calls >= 20 THEN "power" ELSE IF recs[k].calls >= 5 THEN "regular"
                      ELSE IF recs[k].calls >= 1 THEN "casual" ELSE "dormant" IN
    [s \in {segment(k) : k \in Live} |-> Money({k \in Live : segment(k) = s})]
ConsumerLifetimeValue ==
    LET tier(k) == IF recs[k].spent >= 100 THEN "high" ELSE IF recs[k].spent >= 10 THEN "medium"
                   ELSE "low"
        spenders == {k \in Live : recs[k].spent > 0} IN
    [total |-> Cardinality(Live), value |-> Sum(recs, "spent", spenders),
     tiers |-> [k \in spenders |-> tier(k)]]
ConsumerRiskScore ==
    LET level(k) == LET score == Min({Money({k}).used, 100}) IN
                    IF score >= 75 THEN "critical" ELSE IF score >= 50 THEN "high"
                    ELSE IF score >= 25 THEN "medium" ELSE "low" IN
    [r \in {"low", "medium", "high", "critical"} |-> {k \in Live : level(k) = r}]

(* More than 90 % left, or a tenth or ten credits at most after some use.  *)
CreditEfficiency ==
    LET left(k) == Percent(recs[k].credits, Money({k}).allocated)
        funded == {k \in Live : Money({k}).allocated > 0} IN
    [total |-> Money(Live), over |-> {k \in funded : left(k) > 90},
     under |-> {k \in funded : recs[k].spent > 0 /\ (recs[k].credits <= 10 \/ left(k) <= 10)}]
CreditWaste == LET m == Money(Live) IN
    [allocated |-> m.allocated, wasted |-> m.remaining,
     percent |-> [k \in Live |-> Percent(recs[k].credits, Money({k}).allocated)]]

(* Slip: what lies on a lower bound is in no range.                        *)
InRangesStrictly(lows, value, S) ==
    LET range(k) == {i \in DOMAIN lows : value[k] > lows[i]
                                         /\ (i = Len(lows) \/ value[k] < lows[i + 1])} IN
    [i \in DOMAIN lows |-> {k \in S : i \in range(k)}]
(* A value is counted in the first range it fits, if there is one.         *)
InRanges(lows, value, S) ==
    LET range(k) == {i \in DOMAIN lows : value[k] >= lows[i]
                                         /\ (i = Len(lows) \/ value[k] < lows[i + 1])} IN
    [i \in DOMAIN lows |-> {k \in S : i \in range(k)}]
CreditDistribution == InRanges(<<0, 11, 51, 101, 501, 1001>>, [k \in Live |-> recs[k].credits], Live)
CreditUtilization == InRanges(<<0, 1, 26, 51, 76, 100>>, [k \in Live |-> Money({k}).used], Live)
(* A key to which nothing was ever allocated is in no tier.                *)
CreditAllocation == [total |-> Money(Live),
                     tiers |-> InRanges(<<1, 101, 501>>, [k \in Live |-> Money({k}).allocated], Live)]
KeyRanking(field) == SetToSortSeq(Live, LAMBDA j, k : recs[j][field] > recs[k][field])

(* Credits an hour, in whole credits where the code keeps hundredths; a    *)
(* key just made is a thousandth of an hour old.                           *)
Pace(k) == IF hour = recs[k].born THEN 1000 * recs[k].spent
           ELSE Round(recs[k].spent, hour - recs[k].born)
TotalPace == FoldSet(LAMBDA k, n : n + Pace(k), 0, Live)
ConsumerSpendVelocity == [pace |-> [k \in Live |-> Pace(k)],
                          fastest |-> {k \in Live : Pace(k) > 0 /\ \A j \in Live : Pace(j) <= Pace(k)}]
CreditBurnRate == LET m == Money(Live) IN
    [total |-> m, pace |-> TotalPace,
     left |-> IF TotalPace > 0 THEN Round(m.remaining, TotalPace) ELSE -1]
(* Slip: the forecast exceeds what remains.                                *)
RevenueForecastOpen == [h \in {1, 24, 168, 720} |-> TotalPace * h]
RevenueForecast == [h \in {1, 24, 168, 720} |->
    Min({TotalPace * h, Sum(recs, "credits", Live)})]
UsageForecasting ==
    LET callsLeft(k) == IF recs[k].calls > 0 /\ recs[k].spent > 0
                        THEN (recs[k].credits * recs[k].calls) \div recs[k].spent ELSE -1 IN
    [total |-> Money(Active), left |-> [k \in Active |-> callsLeft(k)],
     atRisk |-> {k \in Active : callsLeft(k) \in 0 .. 5}, byTool |-> UsageBy(meter, "tool", Charges)]
CapacityPlanning ==
    [total |-> Money(Active), burn |-> Usage(meter, Charges), byNamespace |-> MoneyBy("ns", Active),
     depleted |-> {k \in Active : recs[k].credits <= 0 /\ recs[k].spent > 0},
     low |-> {k \in Active : recs[k].credits > 0 /\ 10 * recs[k].credits <= Money({k}).allocated}]

---------------------------------------------------------------------------
(* Of the meter's events.                                                  *)

CostAnalysis(since, ns) ==
    LET E == GetEvents(since, ns) IN
    [total |-> Usage(meter, E), perTool |-> UsageBy(meter, "tool", E), perNamespace |-> PerNamespace(E),
     hours |-> UsageBy(meter, "hour", E), perKey |-> UsageBy(meter, "name", E)]
RevenueAnalysis == [total |-> Usage(meter, Charges), byTool |-> UsageBy(meter, "tool", Charges),
                    byKey |-> UsageBy(meter, "name", Charges), hours |-> UsageBy(meter, "hour", Charges),
                    flow |-> Money(Active)]
TrafficAnalysis ==
    LET hours == UsageBy(meter, "hour", Events) IN
    [total |-> Usage(meter, Events), tools |-> UsageBy(meter, "tool", Events), hours |-> hours,
     peak |-> Leaders(hours, "calls"), keys |-> UsageBy(meter, "name", Events),
     byNamespace |-> PerNamespace(Events)]
(* Slip: a refund, which has a reason, counts as a denial.                 *)
DenialAnalysisByReason ==
    LET denials == {i \in Events : meter[i].reason # "none"} IN
    [calls |-> Cardinality(Events), denials |-> Cardinality(denials),
     byReason |-> UsageBy(meter, "reason", denials), perKey |-> UsageBy(meter, "name", denials),
     perTool |-> UsageBy(meter, "tool", denials), hours |-> UsageBy(meter, "hour", denials)]
DenialAnalysis ==
    LET denials == {i \in Events : ~meter[i].allowed /\ meter[i].reason # "none"} IN
    [calls |-> Cardinality(Events), denials |-> Cardinality(denials),
     byReason |-> UsageBy(meter, "reason", denials), perKey |-> UsageBy(meter, "name", denials),
     perTool |-> UsageBy(meter, "tool", denials), hours |-> UsageBy(meter, "hour", denials)]
Of(reason) == {i \in Events : ~meter[i].allowed /\ meter[i].reason = reason}
RateLimitAnalysis == [calls |-> Cardinality(Events), limited |-> Cardinality(Of("rate_limited")),
                      perKey |-> UsageBy(meter, "name", Of("rate_limited")),
                      perTool |-> UsageBy(meter, "tool", Of("rate_limited")),
                      hours |-> UsageBy(meter, "hour", Of("rate_limited"))]
QuotaAnalysis == [total |-> Cardinality(All),
                  limited |-> {k \in All : DailyCalls[k] > 0},
                  denials |-> Cardinality(Of("quota_exceeded")),
                  perTool |-> UsageBy(meter, "tool", Of("quota_exceeded")),
                  hours |-> UsageBy(meter, "hour", Of("quota_exceeded")),
                  today |-> [k \in All |-> recs[k].dayCalls]]
SlaMonitoring ==
    LET all == Usage(meter, Events) IN
    [total |-> all, rate |-> IF all.calls = 0 THEN 100 ELSE Percent(all.allowed, all.calls),
     reasons |-> DeniedBy(meter, "reason", Events), byTool |-> UsageBy(meter, "tool", Events)]
DependencyMap ==
    [tools |-> [t \in Values(meter, "tool", Charges) |->
                    LET E == {i \in Charges : meter[i].tool = t} IN
                    [calls |-> Cardinality(E), keys |-> Values(meter, "name", E)]],
     keys |-> [n \in Values(meter, "name", Charges) |->
                    Values(meter, "tool", {i \in Charges : meter[i].name = n})]]
AnomalyDetection ==
    LET by == UsageBy(meter, "name", Events)
        spent == {k \in Active : recs[k].spent > 0}
        allocated(k) == Money({k}).allocated IN
    [denied |-> {n \in DOMAIN by : by[n].calls >= 3 /\ 2 * by[n].denied > by[n].calls},
     depleted |-> {k \in spent : 4 * recs[k].spent >= 3 * allocated(k)},
     low |-> {k \in spent : recs[k].credits <= 10 \/ 10 * recs[k].credits <= allocated(k)}]

---------------------------------------------------------------------------
(* Of the request log.                                                     *)

RequestLog(key, tool, yes, no, since) ==
    LET S == {i \in Entries : /\ key \in {"", log[i].key} /\ tool \in {"", log[i].tool}
                               /\ IF log[i].allowed THEN yes ELSE no
                               /\ log[i].hour >= since} IN
    [total |-> Usage(log, S), credits |-> Sum(log, "credits", S), page |-> S]
ToolStats(since) == UsageBy(log, "tool", {i \in Entries : log[i].hour >= since})
ToolStatsOf(tool, since) ==
    LET S == {i \in Entries : log[i].hour >= since /\ log[i].tool = tool} IN
    [total |-> Usage(log, S), reasons |-> DeniedBy(log, "reason", S),
     consumers |-> UsageBy(log, "key", S)]
ErrorTrends ==
    LET no(S) == Cardinality({i \in S : ~log[i].allowed})
        n == Len(log)  mid == n \div 2
        diff == (no(mid + 1 .. n) * mid - no(1 .. mid) * (n - mid)) * 20   \* over mid * (n - mid)
    IN [calls |-> n, denials |-> no(Entries), byTool |-> UsageBy(log, "tool", Entries),
        reasons |-> DeniedBy(log, "reason", Entries),
        trend |-> IF n >= 4 /\ diff > mid * (n - mid) THEN "degrading"
                  ELSE IF n >= 4 /\ -diff > mid * (n - mid) THEN "improving" ELSE "stable"]
ErrorBreakdown == [allowed |-> Cardinality(Served), denied |-> Cardinality(Entries \ Served),
                   errors |-> DeniedBy(log, "reason", Entries)]
ToolErrorRate ==
    LET by == UsageBy(log, "tool", Entries) IN
    [by |-> by, worst |-> {t \in DOMAIN by : by[t].denied > 0 /\ \A u \in DOMAIN by :
                              by[u].denied * by[t].calls <= by[t].denied * by[u].calls}]
RequestTrends == LET hours == UsageBy(log, "hour", Entries) IN
    [total |-> Usage(log, Entries), hours |-> hours, peak |-> Leaders(hours, "calls")]
(* Hours of the day, whatever the day.                                     *)
PeakUsage == LET of(i) == log[i].hour % Day IN
    [h \in {of(i) : i \in Entries} |-> Usage(log, {i \in Entries : of(i) = h})]
(* Slip: only what was served makes an hour.                               *)
HourlyTrafficServed == LET hours == UsageBy(log, "hour", Served) IN
    [hours |-> hours, requests |-> AllOf(hours, "calls"), credits |-> AllOf(hours, "credits"),
     busiest |-> Leaders(hours, "calls")]
HourlyTraffic == LET hours == UsageBy(log, "hour", Entries) IN
    [hours |-> hours, requests |-> AllOf(hours, "calls"), credits |-> AllOf(hours, "credits"),
     busiest |-> Leaders(hours, "calls")]
DailySummary == LET day(i) == log[i].hour \div Day IN
    [d \in {day(i) : i \in Entries} |->
        [use |-> Usage(log, {i \in Entries : day(i) = d}),
         newKeys |-> Cardinality({k \in All : recs[k].born \div Day = d})]]
AccessHeatmap == UsageBy(log, "hour", Served)
ToolRevenue == LET by == UsageBy(log, "tool", Served) IN
    [by |-> by, total |-> AllOf(by, "credits"), top |-> Leaders(by, "credits")]
ToolPopularity == LET by == UsageBy(log, "tool", Served) IN
    [by |-> by, total |-> AllOf(by, "calls"), top |-> Leaders(by, "calls")]
ToolProfitability == LET by == UsageBy(log, "tool", Served) IN
    [by |-> by, total |-> AllOf(by, "credits"),
     least |-> {t \in DOMAIN by : \A u \in DOMAIN by : by[t].credits <= by[u].credits}]
ToolAdoption ==
    [t \in Values(log, "tool", Served) |->
        LET S == {i \in Served : log[i].tool = t} IN
        [consumers |-> Values(log, "key", S), calls |-> Cardinality(S),
         rate |-> Percent(Cardinality(Values(log, "key", S)), Cardinality(Live)),
         first |-> log[Min(S)].hour, last |-> log[Max(S)].hour]]
ToolCorrelation ==
    LET tools == [k \in Values(log, "key", Served) |->
                    Values(log, "tool", {i \in Served : log[i].key = k})]
        pairs == {p \in SUBSET Tools : Cardinality(p) = 2}
        shared(p) == Cardinality({k \in DOMAIN tools : p \subseteq tools[k]}) IN
    [consumers |-> Cardinality(DOMAIN tools),
     pairs |-> [p \in {q \in pairs : shared(q) > 0} |-> shared(p)]]

(* The least duration that p percent of them do not exceed.                *)
Percentile(S, p) == Min({log[i].ms : i \in {j \in S :
    100 * Cardinality({i \in S : log[i].ms <= log[j].ms}) >= p * Cardinality(S)}})
Latency(S) == [calls |-> Cardinality(S), least |-> Min({log[i].ms : i \in S}),
               p95 |-> Percentile(S, 95), most |-> Max({log[i].ms : i \in S})]
LatencyAnalysis ==
    LET tools == Split(log, "tool", Served)  keys == Split(log, "key", Served) IN
    [byTool |-> [t \in DOMAIN tools |-> Latency(tools[t])],
     byKey |-> [k \in DOMAIN keys |-> Latency(keys[k])],
     total |-> IF Served = {} THEN [calls |-> 0, least |-> 0, p95 |-> 0, most |-> 0]
               ELSE Latency(Served)]
ResponseTimeDistribution ==
    [ranges |-> InRanges(<<0, 51, 101, 251, 501, 1001>>, [i \in Served |-> log[i].ms], Served),
     p |-> IF Served = {} THEN <<0, 0, 0>>
           ELSE <<Percentile(Served, 50), Percentile(Served, 95), Percentile(Served, 99)>>]

---------------------------------------------------------------------------
(* Properties.                                                             *)

CountOf(fn) == MapThenSumSet(LAMBDA v : Cardinality(fn[v]), DOMAIN fn)
Equal(values) == Cardinality(values) = 1

(* Every report that counts keys by state counts each key once, those that *)
(* speak of the same keys count the same, and every distribution over keys *)
(* is one: segments, cohorts, ages, bands, ranges, risks, groups and       *)
(* namespaces leave no key out and count none twice.                       *)
KeysAgree ==
    LET s == KeyStats("")  d == SystemDashboard.keys  t == KeyStatus
        o == SystemOverview  l == LifecycleAnalysis  c == KeyChurn  a == KeyAge
        h == KeyHealthOverview  n == Cardinality(DOMAIN recs) IN
    /\ Equal({n, s.total, s.active + s.suspended + s.revoked + s.expired,
              d.total, d.active + d.suspended + d.revoked + d.expired,
              t.total, t.active + t.suspended + t.revoked + t.expired,
              o.total, o.active + o.suspended + o.revoked, AllOf(s.byNamespace, "keys"),
              l.total, l.active + l.suspended + l.inactive, AllOf(l.byNamespace, "total"),
              c.total, c.active + c.suspended + c.revoked, QuotaAnalysis.total})
    /\ Equal({s.active, d.active, t.active})
    /\ Equal({o.active, l.active, c.active, h.total, o.credits.keys, AllOf(l.byNamespace, "active"),
              Cardinality(h.healthy) + Cardinality(h.warning) + Cardinality(h.critical),
              ConsumerActivity.total, ConsumerActivity.active + ConsumerActivity.inactive,
              ConsumerRetention.total, AllOf(ConsumerRetention.cohorts, "created"),
              ConsumerGrowth.total, AllOf(ConsumerSegmentation, "keys"),
              ConsumerLifetimeValue.total, CountOf(ConsumerRiskScore), Len(KeyRanking("spent")),
              AllOf(NamespaceRevenue, "keys"), AllOf(GroupActivity, "keys"),
              CountOf(CreditDistribution), CountOf(CreditUtilization)})
    /\ Equal({a.total, a.day + a.week + a.month + a.older, AllOf(NamespaceUsage, "keys"),
              AllOf(GroupPerformance.groups, "keys") + GroupPerformance.ungrouped})
    /\ CountOf(CreditAllocation.tiers) = Cardinality({k \in DOMAIN recs :
            recs[k].active /\ ~recs[k].suspended /\ recs[k].credits + recs[k].spent > 0})

(* So do the credits: allocated is spent and remaining, whatever is summed *)
(* by namespace, group or segment is the total of the overview, a forecast *)
(* grows with its horizon and never exceeds what remains.                  *)
MoneyAgrees ==
    LET o == SystemOverview.credits  c == CreditFlow.total  b == CreditBurnRate
        w == CreditWaste  f == RevenueForecast IN
    /\ Equal({c, CapacityPlanning.total, UsageForecasting.total, RevenueAnalysis.flow})
    /\ Equal({o, CreditEfficiency.total, CreditAllocation.total, b.total})
    /\ \A field \in {"allocated", "spent", "remaining", "calls"} :
          /\ Equal({o[field], AllOf(NamespaceComparison.by, field), AllOf(NamespaceActivity.by, field),
                    AllOf(GroupRevenue.by, field), AllOf(ConsumerSegmentation, field)})
          /\ Equal({c[field], AllOf(NamespaceUsage, field), AllOf(CapacityPlanning.byNamespace, field)})
    /\ \A x \in {o, c, SystemDashboard.credits} : x.allocated = x.spent + x.remaining
    /\ Equal({SystemDashboard.credits.spent, KeyStats("").spent, ConsumerInsights.total.spent,
              MapThenSumSet(LAMBDA n : KeyStats(n).spent, Namespaces)})
    /\ w.allocated = w.wasted + o.spent /\ ConsumerGrowth.allocated = o.allocated
    /\ ConsumerLifetimeValue.value = o.spent /\ AllOf(ConsumerRetention.cohorts, "spent") = o.spent
    /\ b.pace = MapThenSumSet(LAMBDA k : ConsumerSpendVelocity.pace[k], DOMAIN ConsumerSpendVelocity.pace)
    /\ f[1] <= f[24] /\ f[24] <= f[168] /\ f[168] <= f[720] /\ f[720] <= o.remaining

(* A key that one report warns of is not fine in another: what is empty is *)
(* at risk, what is nearly empty is an anomaly, a health and a risk.       *)
WarningsAgree ==
    LET a == AnomalyDetection  h == KeyHealthOverview  e == CreditEfficiency IN
    /\ h.critical = KeyLifecycleReport.zero
    /\ CapacityPlanning.depleted \cup CapacityPlanning.low \subseteq a.low \cup ConsumerInsights.active
    /\ CapacityPlanning.depleted \subseteq a.low
    /\ a.low \cap KeyStatus.low = {k \in KeyStatus.low : recs[k].spent > 0}
    /\ a.low \ e.under \subseteq {k \in DOMAIN recs : recs[k].suspended}
    /\ e.over \cap ConsumerRiskScore["critical"] = {}
    /\ a.depleted \subseteq ConsumerRiskScore["critical"] \cup {k \in DOMAIN recs : recs[k].suspended}
    /\ h.warning \subseteq ConsumerRiskScore["critical"]
    /\ KeyStatus.soon \subseteq LifecycleAnalysis.soon
    /\ KeyLifecycleReport.soon = KeyStatus.soon
    /\ LifecycleAnalysis.stale \cap ConsumerInsights.active = {}
    /\ UsageForecasting.atRisk \subseteq {k \in DOMAIN recs : recs[k].calls > 0}

(* The meter tells one story: by tool, key, namespace, hour or reason, in  *)
(* every report the same number of calls, denials and credits.             *)
UsageAgrees ==
    LET cost == CostAnalysis(0, "")  traffic == TrafficAnalysis  deny == DenialAnalysis
        summary == GetSummary(0, "")  revenue == RevenueAnalysis  sla == SlaMonitoring
        slow == RateLimitAnalysis  quota == QuotaAnalysis IN
    /\ Equal({cost.total, traffic.total, sla.total, summary.total, SystemDashboard.usage.total})
    /\ \A field \in {"calls", "denied", "credits"} :
          Equal({cost.total[field], AllOf(cost.perTool, field), AllOf(cost.perNamespace, field),
                 AllOf(cost.hours, field), AllOf(cost.perKey, field), AllOf(traffic.hours, field),
                 AllOf(traffic.byNamespace, field), AllOf(traffic.keys, field),
                 AllOf(traffic.tools, field), AllOf(sla.byTool, field), AllOf(summary.perKey, field)})
    /\ Equal({cost.total.denied, deny.denials, AllOf(deny.byReason, "calls"), AllOf(deny.perKey, "calls"),
              AllOf(deny.perTool, "calls"), AllOf(deny.hours, "calls"), AllOf(sla.reasons, "calls"),
              AllOf(summary.denyReasons, "calls")})
    /\ Equal({cost.total.credits, revenue.total.credits, AllOf(revenue.byTool, "credits"),
              AllOf(revenue.byKey, "credits"), AllOf(revenue.hours, "credits"),
              AllOf(CreditFlow.byTool, "credits"), AllOf(UsageForecasting.byTool, "credits"),
              CapacityPlanning.burn.credits})
    /\ Equal({slow.limited, AllOf(slow.perKey, "calls"), AllOf(slow.perTool, "calls"),
              AllOf(slow.hours, "calls")})
    /\ Equal({quota.denials, AllOf(quota.perTool, "calls"), AllOf(quota.hours, "calls")})
    /\ slow.limited + quota.denials <= deny.denials /\ slow.calls = deny.calls
    /\ AllOf(DependencyMap.tools, "calls") = cost.total.allowed
    /\ \A t \in DOMAIN DependencyMap.tools : \A n \in DependencyMap.tools[t].keys :
          t \in DependencyMap.keys[n]
    /\ AnomalyDetection.denied \subseteq DOMAIN deny.perKey

(* The log tells one story too: by tool, hour, day or reason, in every     *)
(* report the same numbers of requests, answers, refusals and credits.     *)
RequestsAgree ==
    LET all == RequestLog("", "", TRUE, TRUE, 0)  trends == RequestTrends  errors == ErrorTrends
        traffic == HourlyTraffic  broken == ErrorBreakdown  slow == LatencyAnalysis IN
    /\ \A field \in {"calls", "allowed", "denied", "credits"} :
          Equal({all.total[field], trends.total[field], AllOf(trends.hours, field),
                 AllOf(ToolStats(0), field), AllOf(PeakUsage, field), AllOf(traffic.hours, field),
                 AllOf(ToolErrorRate.by, field), AllOf(errors.byTool, field),
                 MapThenSumSet(LAMBDA d : DailySummary[d].use[field], DOMAIN DailySummary),
                 MapThenSumSet(LAMBDA t : ToolStatsOf(t, 0).total[field], Tools)})
    /\ Equal({all.total.credits, all.credits, traffic.credits, ToolRevenue.total,
              ToolProfitability.total, AllOf(ToolPopularity.by, "credits")})
    /\ Equal({all.total.denied, errors.denials, broken.denied, AllOf(broken.errors, "calls"),
              AllOf(errors.reasons, "calls"), RequestLog("", "", FALSE, TRUE, 0).total.calls})
    /\ Equal({all.total.allowed, broken.allowed, ToolPopularity.total, AllOf(AccessHeatmap, "calls"),
              AllOf(ToolAdoption, "calls"), slow.total.calls, AllOf(slow.byTool, "calls"),
              AllOf(slow.byKey, "calls"), CountOf(ResponseTimeDistribution.ranges),
              RequestLog("", "", TRUE, FALSE, 0).total.calls})
    /\ ToolRevenue.top \cap ToolProfitability.least # {} =>
          \A t, u \in DOMAIN ToolRevenue.by : ToolRevenue.by[t].credits = ToolRevenue.by[u].credits
    /\ slow.total.least <= slow.total.p95 /\ slow.total.p95 <= slow.total.most
    /\ ResponseTimeDistribution.p[1] <= ResponseTimeDistribution.p[2]
    /\ \A p \in DOMAIN ToolCorrelation.pairs : \A t \in p :
          ToolCorrelation.pairs[p] <= Cardinality(ToolAdoption[t].consumers)
    /\ SystemOverview.tools = Cardinality(DOMAIN ToolAdoption)
    /\ ConsumerActivity.active = Cardinality({k \in ConsumerInsights.active : recs[k].active
                                                                      /\ ~recs[k].suspended})
    /\ errors.trend # "stable" => errors.denials > 0

(* What happened, in the order it did: the log holds the latest calls, the *)
(* meter the events of the latest ones, and a quarter of the meter is      *)
(* dropped only when it is full.                                           *)
Happened(how) == {i \in DOMAIN facts : facts[i].how \in how}
EventsOf(i) == CASE facts[i].how \in {"cached", "broken"} -> 0
                 [] facts[i].how = "refunded" -> 2
                 [] OTHER -> 1
Recorded == MapThenSumSet(LAMBDA i : EventsOf(i), DOMAIN facts)
HistoryKept ==
    /\ Len(log) = Min({MaxLog, Len(facts)})
    /\ \A i \in DOMAIN log : LET f == facts[Len(facts) - Len(log) + i] IN
          /\ log[i].key = f.key /\ log[i].tool = f.tool
          /\ log[i].allowed <=> f.how \in {"served", "cached"}
          /\ log[i].credits = IF log[i].allowed THEN Price[f.tool] ELSE 0
    /\ Len(meter) <= MaxEvents
    /\ Len(meter) = Recorded \/ (Recorded > MaxEvents /\ Len(meter) >= MaxEvents - MaxEvents \div 4)
    /\ \A i \in 1 .. Len(meter) - 1 : meter[i].id <= meter[i + 1].id
    /\ meter # <<>> => meter[Len(meter)].id = Max({i \in DOMAIN facts : EventsOf(i) > 0})

(* While the meter has dropped nothing, what it charged to a key is what   *)
(* the key's record spent since the start; a surcharge is not in the meter *)
(* and twice in the record, with a call of its own.  A refunded call is in *)
(* the meter twice and in the record not at all.  The daily count is that  *)
(* of the day it was last looked at.                                       *)
LedgerAgrees ==
    Len(meter) = Recorded => \A k \in DOMAIN recs :
        LET mine == {i \in DOMAIN facts : facts[i].key = k}
            was(field) == IF k \in DOMAIN before THEN before[k][field] ELSE 0
            extra == Sum(facts, "extra", mine)
            today == {i \in DOMAIN meter : meter[i].key = k /\ meter[i].allowed
                                           /\ meter[i].hour \div Day = recs[k].day}
            back == {i \in today : meter[i].reason = "refund"} IN
        /\ recs[k].spent = was("spent") + KeyUsage(k, 0).total.credits + 2 * extra
        /\ recs[k].calls = was("calls") + KeyUsage(k, 0).total.allowed
                           - 2 * Cardinality(mine \cap Happened({"refunded"}))
                           + Cardinality({i \in mine : facts[i].extra > 0})
        /\ QuotaAnalysis.today[k] = Cardinality(today) - 2 * Cardinality(back)
                           + (IF was("day") = recs[k].day THEN was("dayCalls") ELSE 0)

(* While neither dropped anything, the log's revenue is the meter's, plus  *)
(* the calls answered from the cache, less what failed without a refund,   *)
(* less what the groups' prices exceed those of the tools; the log refuses *)
(* what the meter denied, what failed and what the circuit kept away.      *)
LogsAgree ==
    (Len(meter) = Recorded /\ Len(log) = Len(facts)) =>
        LET price(S) == MapThenSumSet(LAMBDA i : Price[facts[i].tool], S)
            served == Happened({"served"})  failed == Happened({"failed"}) IN
        /\ ToolRevenue.total = CostAnalysis(0, "").total.credits - Sum(facts, "paid", failed)
                               + price(Happened({"cached"})) + price(served) - Sum(facts, "paid", served)
        /\ RequestTrends.total.denied = CostAnalysis(0, "").total.denied
                               + Cardinality(Happened({"refunded", "failed", "broken"}))

(* The audit log knows the state of a key: who was suspended more often    *)
(* than resumed is suspended, who was revoked is not active, and nobody is *)
(* made twice.  A member of a group is counted under it wherever a report  *)
(* reads the record, but not the other way round.                          *)
AuditAgrees ==
    \A k \in DOMAIN recs :
        /\ audit["suspended"][k] > audit["resumed"][k] => recs[k].suspended
        /\ audit["suspended"][k] < audit["resumed"][k] => ~recs[k].suspended
        /\ audit["revoked"][k] > 0 => ~recs[k].active
        /\ audit["created"][k] + audit["cloned"][k] <= 1
        /\ group.of[k] # NoGroup => group.of[k] \in group.alive /\ recs[k].group = group.of[k]

ReportsHonoured ==
    KeysAgree /\ MoneyAgrees /\ WarningsAgree /\ UsageAgrees /\ RequestsAgree
    /\ HistoryKept /\ LedgerAgrees /\ LogsAgree /\ AuditAgrees
=============================================================================
