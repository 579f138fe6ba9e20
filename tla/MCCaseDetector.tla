--------------------------- MODULE MCCaseDetector ---------------------------
EXTENDS CaseDetector

\* A row near the first or the second airport.
Report(first, second, alt, ground, region) ==
    [away |-> <<first, second>>, alt |-> alt, rate |-> NULL, heading |-> NULL,
     ground |-> ground, region |-> region, ga |-> FALSE, sparse |-> FALSE]

Scene(reports, plan, skies, runs, closes, fails) ==
    [reports |-> reports, plan |-> plan, skies |-> skies, runs |-> runs,
     closes |-> closes, fails |-> fails]

Clear == [clouds |-> {[cover |-> "FEW", base |-> 400]}, visibility |-> 10]

Thick == [clouds |-> {[cover |-> "BKN", base |-> 2000], [cover |-> "OVC", base |-> 900]},
          visibility |-> 0]

One == {CHOOSE r \in Runs : TRUE}

\* An approach that is broken off, between two airports.
Approach ==
    Scene({Report(4, 8, 4000, FALSE, "east"), Report(8, 4, 2500, FALSE, "east"),
           Report(8, 4, 4000, FALSE, "east")}, NULL, {Clear}, Runs, 1, FALSE)

\* At cruise, in scope and out of it.
Cruise ==
    Scene({Report(90, 80, 36000, FALSE, "east"), Report(90, 80, 36000, FALSE, NULL)},
          NULL, {Clear}, Runs, 1, FALSE)

\* Late, then on the ground away from the destination.
Diverted ==
    Scene({Report(2, 9, 0, TRUE, "east"), Report(30, 40, 9000, FALSE, "east")},
          [origin |-> 1, destination |-> 2, departure |-> -60], {Clear}, One, 0, TRUE)

\* The weather turns; the aircraft is not seen, others are.
Fog == Scene({}, NULL, {Clear, Thick}, One, 0, TRUE)

MCScenes == {Approach, Cruise, Diverted, Fog}

MCNominal == [od \in {<<1, 2>>, <<2, 1>>} |-> 50]
=============================================================================
