--------------------------- MODULE CapabilityGroups ---------------------------
(***************************************************************************)
(* The registry of the tester: the capabilities of each group, as the      *)
(* get_group functions list them, and all groups together, as manager.py   *)
(* does.                                                                   *)
(***************************************************************************)
EXTENDS ReadingProbes, WritingProbes, ProcessProbes, NetworkProbes,
        DesktopProbes, RepositoryProbes, CloudProbes, SystemProbes

Group01 ==
  [T01 |-> G01_T01, T02 |-> G01_T02, T03 |-> G01_T03, T04 |-> G01_T04,
   T05 |-> G01_T05, T06 |-> G01_T06, T07 |-> G01_T07, T08 |-> G01_T08,
   T09 |-> G01_T09, T10 |-> G01_T10, T11 |-> G01_T11, T12 |-> G01_T12,
   T13 |-> G01_T13, T14 |-> G01_T14, T15 |-> G01_T15, T16 |-> G01_T16]

Group02 ==
  [T01 |-> G02_T01, T02 |-> G02_T02, T03 |-> G02_T03, T04 |-> G02_T04,
   T05 |-> G02_T05, T06 |-> G02_T06, T07 |-> G02_T07, T08 |-> G02_T08,
   T09 |-> G02_T09, T10 |-> G02_T10, T11 |-> G02_T11, T12 |-> G02_T12,
   T13 |-> G02_T13, T14 |-> G02_T14, T15 |-> G02_T15]

Group03 ==
  [T01 |-> G03_T01, T02 |-> G03_T02, T03 |-> G03_T03, T04 |-> G03_T04,
   T05 |-> G03_T05, T06 |-> G03_T06, T07 |-> G03_T07, T08 |-> G03_T08,
   T09 |-> G03_T09, T10 |-> G03_T10, T11 |-> G03_T11, T12 |-> G03_T12,
   T13 |-> G03_T13, T14 |-> G03_T14, T15 |-> G03_T15, T16 |-> G03_T16,
   T17 |-> G03_T17, T18 |-> G03_T18]

Group04 ==
  [T08 |-> G04_T08]

Group05 ==
  [T01 |-> G05_T01, T04 |-> G05_T04, T05 |-> G05_T05]

Group06 ==
  [T01 |-> G06_T01, T02 |-> G06_T02, T03 |-> G06_T03, T04 |-> G06_T04,
   T05 |-> G06_T05, T06 |-> G06_T06, T07 |-> G06_T07, T09 |-> G06_T09,
   T11 |-> G06_T11, T12 |-> G06_T12, T13 |-> G06_T13, T14 |-> G06_T14,
   T15 |-> G06_T15]

Group07 ==
  [T01 |-> G07_T01, T02 |-> G07_T02, T03 |-> G07_T03, T04 |-> G07_T04,
   T05 |-> G07_T05, T06 |-> G07_T06, T08 |-> G07_T08]

Group08 ==
  [T01 |-> G08_T01]

Group09 ==
  [T01 |-> G09_T01, T02 |-> G09_T02, T03 |-> G09_T03, T05 |-> G09_T05,
   T06 |-> G09_T06, T07 |-> G09_T07, T08 |-> G09_T08, T09 |-> G09_T09,
   T10 |-> G09_T10, T11 |-> G09_T11, T12 |-> G09_T12, T13 |-> G09_T13,
   T14 |-> G09_T14, T15 |-> G09_T15, T16 |-> G09_T16, T17 |-> G09_T17,
   T18 |-> G09_T18, T19 |-> G09_T19, T20 |-> G09_T20, T21 |-> G09_T21,
   T22 |-> G09_T22, T23 |-> G09_T23, T24 |-> G09_T24, T25 |-> G09_T25,
   T26 |-> G09_T26, T27 |-> G09_T27, T28 |-> G09_T28]

Group10 ==
  [T01 |-> G10_T01, T02 |-> G10_T02, T03 |-> G10_T03, T04 |-> G10_T04,
   T05 |-> G10_T05, T06 |-> G10_T06, T07 |-> G10_T07, T08 |-> G10_T08,
   T09 |-> G10_T09, T10 |-> G10_T10, T11 |-> G10_T11, T12 |-> G10_T12]

Group11 ==
  [T01 |-> G11_T01, T02 |-> G11_T02, T03 |-> G11_T03, T04 |-> G11_T04,
   T05 |-> G11_T05, T06 |-> G11_T06, T08 |-> G11_T08]

Group12 ==
  [T01 |-> G12_T01, T07 |-> G12_T07, T08 |-> G12_T08, T09 |-> G12_T09]

Group13 ==
  [T01 |-> G13_T01, T02 |-> G13_T02, T03 |-> G13_T03, T04 |-> G13_T04,
   T05 |-> G13_T05, T06 |-> G13_T06, T07 |-> G13_T07, T08 |-> G13_T08,
   T09 |-> G13_T09, T10 |-> G13_T10, T11 |-> G13_T11, T12 |-> G13_T12,
   T13 |-> G13_T13]

Group14 ==
  [T01 |-> G14_T01, T02 |-> G14_T02, T03 |-> G14_T03, T04 |-> G14_T04,
   T06 |-> G14_T06, T07 |-> G14_T07]

Group15 ==
  [T01 |-> G15_T01, T02 |-> G15_T02, T03 |-> G15_T03, T04 |-> G15_T04,
   T05 |-> G15_T05, T06 |-> G15_T06, T07 |-> G15_T07, T08 |-> G15_T08,
   T09 |-> G15_T09, T10 |-> G15_T10, T11 |-> G15_T11, T12 |-> G15_T12,
   T13 |-> G15_T13, T14 |-> G15_T14, T15 |-> G15_T15, T16 |-> G15_T16,
   T17 |-> G15_T17, T18 |-> G15_T18, T19 |-> G15_T19, T20 |-> G15_T20,
   T21 |-> G15_T21, T22 |-> G15_T22, T23 |-> G15_T23]

Group16 ==
  [T01 |-> G16_T01, T02 |-> G16_T02, T05 |-> G16_T05, T06 |-> G16_T06,
   T07 |-> G16_T07, T08 |-> G16_T08, T09 |-> G16_T09, T10 |-> G16_T10,
   T11 |-> G16_T11, T12 |-> G16_T12, T13 |-> G16_T13, T14 |-> G16_T14,
   T15 |-> G16_T15, T16 |-> G16_T16, T17 |-> G16_T17]

Group17 ==
  [T01 |-> G17_T01, T02 |-> G17_T02, T03 |-> G17_T03, T04 |-> G17_T04,
   T05 |-> G17_T05, T06 |-> G17_T06, T07 |-> G17_T07, T08 |-> G17_T08,
   T09 |-> G17_T09]

Group18 ==
  [T01 |-> G18_T01, T02 |-> G18_T02, T03 |-> G18_T03, T04 |-> G18_T04,
   T05 |-> G18_T05, T09 |-> G18_T09]

Group19 ==
  [T01 |-> G19_T01, T02 |-> G19_T02, T03 |-> G19_T03, T04 |-> G19_T04,
   T05 |-> G19_T05, T06 |-> G19_T06, T07 |-> G19_T07, T08 |-> G19_T08,
   T09 |-> G19_T09, T10 |-> G19_T10, T11 |-> G19_T11]

Group20 ==
  [T01 |-> G20_T01, T02 |-> G20_T02, T03 |-> G20_T03, T04 |-> G20_T04,
   T05 |-> G20_T05, T07 |-> G20_T07, T08 |-> G20_T08, T09 |-> G20_T09,
   T10 |-> G20_T10]

Group21 ==
  [T01 |-> G21_T01, T05 |-> G21_T05, T07 |-> G21_T07, T08 |-> G21_T08,
   T09 |-> G21_T09, T10 |-> G21_T10]

Group22 ==
  [T01 |-> G22_T01, T03 |-> G22_T03, T04 |-> G22_T04]

Group30 ==
  [T01 |-> G30_T01]

GroupFactories ==
  [G01 |-> Group01, G02 |-> Group02, G03 |-> Group03, G04 |-> Group04,
   G05 |-> Group05, G06 |-> Group06, G07 |-> Group07, G08 |-> Group08,
   G09 |-> Group09, G10 |-> Group10, G11 |-> Group11, G12 |-> Group12,
   G13 |-> Group13, G14 |-> Group14, G15 |-> Group15, G16 |-> Group16,
   G17 |-> Group17, G18 |-> Group18, G19 |-> Group19, G20 |-> Group20,
   G21 |-> Group21, G22 |-> Group22, G30 |-> Group30]

AllCapabilities ==
  UNION {{GroupFactories[g][t] : t \in DOMAIN GroupFactories[g]} :
           g \in DOMAIN GroupFactories}
=============================================================================
