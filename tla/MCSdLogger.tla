------------------------------ MODULE MCSdLogger ------------------------------
(***************************************************************************)
(* Small instances of SdLogger.                                            *)
(***************************************************************************)
EXTENDS SdLogger

Each(samples, events) == [k \in Rings |-> IF k = "sample" THEN samples ELSE events]

OneEach    == Each(1, 1)
TwoEach    == Each(2, 2)
OneSample  == Each(1, 0)
TwoSamples == Each(2, 0)

OnlyDaily == {{"daily"}}
Both      == {{"daily", "all"}}
AllOrNone == {{}, {"all"}}
===============================================================================
