------------------------------- MODULE MCConsole -------------------------------
(* Model-checking instance of Console.                                        *)
EXTENDS Console

CONSTANTS
    p1, p2,    \* payments
    o1, o2     \* organizations

\* Two card payments, or payments of two rails.
MCForms == p1 :> {"card", "stk", "bank"} @@ p2 :> {"card", "paypal"}

MCContaining == {<<"success", "s">>}

MCRecord(own, type, outcome, costMinor, latencyMs, createdAt) ==
    [own |-> own, type |-> type, status |-> outcome, costMinor |-> costMinor,
     latencyMs |-> latencyMs, createdAt |-> createdAt, words |-> {}]

\* At the second tick of day 1: a check without a latency, and another
\* organization's.
MCContents ==
    {MCRecord(TRUE, "alien_id", "failed", 0, Null, 3),
     MCRecord(FALSE, "iprs_standard", "success", 5, 4, 3)}

\* Two checks of the last instant of day 0, and another organization's after them.
MCRecordsAtFirst ==
    <<MCRecord(TRUE, "iprs_standard", "success", 3, 1, 1),
      MCRecord(TRUE, "alien_id", "success", 4, 4, 1),
      MCRecord(FALSE, "alien_id", "success", 5, 2, 2)>>

MCFilterChanges ==
    {<<"type", "iprs_standard">>, <<"to", 1>>, <<"search", "s">>, <<"search", "">>}

Good == <<"good">>

\* Sheets: an identifier in some rows only; a licence alone, padded and broken
\* over lines; a column that is not one of a row's.
MCSheets ==
    {<<<<<<"id">>, <<"employer">>>>,
       <<<<Good, <<" ">>>>, << << >>, Good>>, << << >>, << >>>>>>>>,
     <<<<<<"employer">>, <<" ", "dl">>>>, <<<<Good, <<" ", "good", "\n">>>>>>>>,
     <<<<<<"id">>, <<"statement_pages">>>>, <<<<Good, Good>>>>>>}

\* Results with quotes, commas, line ends and empty cells.
MCResultTables ==
    {<<<<<<"a">>, <<"\"">>>>, <<<<",">>, << >>>>, << << >>, <<"\n">>>>>>,
     <<<<<<"\"", ",", "\r", "\"">>, <<" ", "a", "\n", "\"">>>>>>,
     <<<<<<"\"">>, <<"\"", "\"">>>>, <<<<"\n", "a">>, <<"a", ",">>>>>>}

\* Every product alone, and two with unlike forms.
MCCatalogues ==
    {{type} : type \in VERIFICATION_TYPES} \cup {{"alien_id", "motor_vehicle_ownership"}}
\* One organization has opted out of check 1 and has no row for check 2.
MCRowsAtFirst == o1 :> <<FALSE, Absent, Absent>> @@ o2 :> <<TRUE, TRUE, Absent>>

\* The user ticks check 1 of that organization.
MCEdits == {<<o1, 1, TRUE>>}
=============================================================================
