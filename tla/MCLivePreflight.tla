---------------------------- MODULE MCLivePreflight ----------------------------
EXTENDS LivePreflight, TLC

\* Two tokens and five blocks; one sender owns nothing but the zero address' mint.
MCSymbols == <<"NVDA">>
MCLogs == [t \in {"NVDA", "USDG"} |->
             IF t = "NVDA" THEN (0 :> {3} @@ 1 :> {0, 1} @@ 2 :> {} @@ 3 :> {2} @@ 4 :> {1})
             ELSE (0 :> {} @@ 1 :> {2} @@ 2 :> {} @@ 3 :> {} @@ 4 :> {0})]
================================================================================
