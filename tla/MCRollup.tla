------------------------------ MODULE MCRollup ------------------------------
(* Scopes: OEE windows over half hours, verdicts over whole hours, and the   *)
(* other counting routes, each alone beside the fills.                       *)
EXTENDS Readings

Cycle(t, k) == [ts |-> t, kind |-> k]
OeeScope == [cycles |-> {Cycle(t, "good") : t \in {0, 3, 5}} \cup {Cycle(3, "slow")},
             max |-> 4, fills |-> 1, ats |-> {6, 8}, hours |-> {}, requests |-> 2,
             views |-> {}, prices |-> {}]
VerdictScope ==
  [cycles |-> {Cycle(0, "good"), Cycle(2, "bad"), Cycle(4, "slow"), Cycle(6, "slow"),
               Cycle(10, "good")},
   max |-> 5, fills |-> 2, ats |-> {}, hours |-> {TheLine, 3}, requests |-> 1,
   views |-> {}, prices |-> Prices]
\* A regime that ends, without requests.
WalkScope ==
  [VerdictScope EXCEPT !.cycles = @ \cup {Cycle(2, "good"), Cycle(8, "good")},
                       !.max = 6, !.hours = {}, !.requests = 0]

Good(ticks) == {Cycle(t, "good") : t \in ticks}
\* Hours taken for empty get cycles, and a second fill their bucket, during a request.
MixedScope(ticks, at) ==
  [cycles |-> Good(ticks), max |-> 4, fills |-> 2, ats |-> {at}, hours |-> {},
   requests |-> 1, views |-> {}, prices |-> {}]
ViewScope(ticks, max, runs, requests, views, prices) ==
  [cycles |-> Good(ticks), max |-> max, fills |-> runs, ats |-> {}, hours |-> {},
   requests |-> requests, views |-> views, prices |-> prices]

Quality(from, to, grain) == [kind |-> "quality", from |-> from, to |-> to, grain |-> grain]
Profile(from, to) == [kind |-> "profile", from |-> from, to |-> to]
Baseline(w, refresh) == [kind |-> "baseline", window |-> w, refresh |-> refresh]

QualityScope ==
  ViewScope({0, 3, 4, 7, 8}, 4, 2, 1, {Quality(1, 8, PerHour), Quality(2, 7, PerHour), Quality(3, 9, Day)}, {})
ProfileScope == ViewScope({0, 2, 3, 5, 8}, 4, 1, 1, {Profile(1, 7), Profile(3, 9)}, Prices)
ProgressionScope == ViewScope({0, 2, 5, 6}, 4, 2, 2, {[kind |-> "progression"]}, {})
BaselineScope ==
  ViewScope({0, 1, 3}, 3, 0, 2,
            {Baseline(<<>>, FALSE), Baseline(<<>>, TRUE), Baseline(<<0, 4>>, FALSE)}, Prices)

MCHealthy == [p \in Prices |-> IF p = 1 THEN <<0, 5>> ELSE <<1, 7>>]
MCScopes ==
  {OeeScope, MixedScope({0, 3, 4, 8}, 8), MixedScope({2, 3, 6, 8}, 6), VerdictScope,
   WalkScope, QualityScope, ProfileScope, ProgressionScope, BaselineScope}
=============================================================================
