------------------------------ MODULE MC_Console ------------------------------
(* The pages of the management console for TLC.  They share no state that  *)
(* is modelled, so an instance explores one page at a time, the others     *)
(* left as they were opened: the state space is the sum of the pages', not *)
(* their product.                                                          *)
EXTENDS PricingPage, UsersPage, WalletPage, SessionPage, LogsPage, ChannelsPage, PlaygroundPage, TLC

VARIABLE page  \* the page that is explored

consoleVars == <<page, pricingVars, userVars, walletVars, sessionVars, logVars, channelVars, playVars>>

PageNames == {"pricing", "users", "wallet", "session", "logs", "channels", "playground"}

ConsoleInit ==
    /\ page \in PageNames
    /\ PricingInit /\ UsersInit /\ WalletPageInit /\ SessionInit /\ LogsInit /\ ChannelsInit /\ PlayInit
    /\ page # "wallet" => cards = {}
    /\ page # "session" => storedUser = NoOne /\ viewMode = "landing"

ConsoleNext ==
    /\ UNCHANGED page
    /\ IF page = "pricing" THEN PricingNext ELSE UNCHANGED pricingVars
    /\ IF page = "users" THEN UsersNext ELSE UNCHANGED userVars
    /\ IF page = "wallet" THEN WalletPageNext ELSE UNCHANGED walletVars
    /\ IF page = "session" THEN SessionNext ELSE UNCHANGED sessionVars
    /\ IF page = "logs" THEN LogsNext ELSE UNCHANGED logVars
    /\ IF page = "channels" THEN ChannelsNext ELSE UNCHANGED channelVars
    /\ IF page = "playground" THEN PlayNext ELSE UNCHANGED playVars

ConsoleSpec == ConsoleInit /\ [][ConsoleNext]_consoleVars

\* While the page of the logs is open its timer fires, its requests are served,
\* not refused for ever, and their answers are handled.
ConsoleFairSpec ==
    /\ ConsoleSpec
    /\ WF_logVars(page = "logs" /\ PollLogs)
    /\ SF_logVars(page = "logs" /\ LogsServed)
    /\ SF_logVars(page = "logs" /\ GoodLogsArrive)
    /\ WF_logVars(page = "logs" /\ LogsArrive)

\* The types of all the pages.
ConsoleTypeOK ==
    /\ page \in PageNames
    /\ PricingTypeOK /\ UsersTypeOK /\ WalletPageTypeOK /\ SessionTypeOK /\ LogsTypeOK
    /\ ChannelsTypeOK /\ PlayTypeOK

\* In the end the rows are those of the page that is viewed, whatever answers
\* have overtaken each other and whatever was deleted, for the timer goes on
\* fetching them; but with the filters of the render that it was set in.  Where
\* the user has set others, "polls must fetch the page being *viewed*"
\* (src/web/src/App.jsx:351) is not so: the controls show the others.
TimerHasTheLastWord == page = "logs" => <>[](logs = LogPage(logOffset, pollFilters))

-----------------------------------------------------------------------------
(* Prices: days of four "hours", a rule with two windows.                  *)
\* "1 :00" is 1:00 to the form and 0:00 to the engine.
Half(n) == [parseInt |-> n, atoi |-> n]
Hour(h) == [h |-> Half(h), m |-> Half(0)]
SpacedOne == [h |-> [parseInt |-> 1, atoi |-> 0], m |-> Half(0)]
TypedTimesMC == {Hour(h) : h \in 0..HoursOfDay} \cup {SpacedOne, Blank, Garbled}
Window(from, to, days) == [start |-> Hour(from), end |-> Hour(to), days |-> days]
DefaultSlotMC == Window(0, 1, {})
ExtraSlotMC == Window(2, 3, {})
StoredRule == [offPeak |-> TRUE, slots |-> <<Window(3, 1, {1}), Window(1, 3, {})>>]
SharedPricesMC == {[k \in Keys |-> IF k = <<DefaultGroup, "m1">> THEN StoredRule ELSE NoRule]}

(* Accounts: two administrators and a name that is free.                   *)
Staff == [role |-> "admin", status |-> "active", group |-> "default", balance |-> 10]
RegisteredMC == {[a \in Accounts |-> IF a = "new" THEN Gone ELSE Staff]}

(* Three records of two sessions.                                          *)
SessionOfMC == [i \in 1..3 |-> IF i = 2 THEN "s2" ELSE "s1"]

(* One provider, and room for another.                                     *)
KnownProvidersMC == {[ch \in Channels |-> IF ch = "ch1" THEN [upstream |-> "u1", models |-> "u1", active |-> TRUE]
                                          ELSE Absent]}

(* Tables with and without routes, limited keys, and no keys at all.       *)
ModalityMC == ("c1" :> "chat") @@ ("c2" :> "chat") @@ ("v1" :> "videos") @@ ("v2" :> "videos")
CataloguesMC ==
    { [routes |-> {}, models |-> {"c1", "v1"}, keys |-> "k1" :> {}],
      [routes |-> {<<"v2", "videos">>}, models |-> {"c1", "c2", "v1", "v2"}, keys |-> ("k1" :> {"v1"}) @@ ("k2" :> {})],
      [routes |-> {}, models |-> {}, keys |-> <<>>] }
=============================================================================
