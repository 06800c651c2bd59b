------------------------------- MODULE MCAuth -------------------------------
(* Instance of Auth for TLC: one browser with two tabs.                      *)
EXTENDS Auth, TLC

CONSTANTS b1, t1, t2, s1, a1, a2

OneBrowser == t1 :> b1 @@ t2 :> b1
OneSource == b1 :> s1

\* Nothing tells the tabs of a browser, or the accounts, apart.
Interchangeable == Permutations(Tabs) \cup Permutations(Accounts)
=============================================================================
