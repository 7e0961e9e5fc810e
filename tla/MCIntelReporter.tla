--------------------------- MODULE MCIntelReporter ---------------------------
EXTENDS IntelReporter
Setup(s, a, f) == [on |-> s, lan |-> {}, attacks |-> a, faults |-> f]
FewSetups == {Setup({"abuse"}, 3, 1), Setup({"otx"}, 2, 1), Setup({"dshield"}, 3, 0), Setup({"dshield"}, 2, 1),
              Setup({"hub"}, 2, 1), Setup({"geoip"}, 2, 1), Setup({"geoip", "abuse"}, 2, 0),
              Setup(Services, 1, 0), [Setup({"dshield"}, 2, 1) EXCEPT !.lan = {"b"}]}
Line(k, len) == [k |-> k, len |-> len]
FewCasts == {<<Line("o", 1), Line("bad", 1), Line("o", 2), Line("o", 1), Line("i", 3), Line("i", 1), Line("o", 1)>>,
             <<Line("i", 1), Line("o", 2)>>}
OldRows == {{1, 2}}
=============================================================================
