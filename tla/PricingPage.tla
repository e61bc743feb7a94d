----------------------------- MODULE PricingPage -----------------------------
(* The pricing page of the management console                              *)
(* (src/web/src/components/PricingManager.jsx): the list of rules, one for *)
(* a group and a model, the rows ticked, and the form that adds or changes a *)
(* rule with its discount windows.  Amounts, names and badges are left     *)
(* out.  A request is decided by the server (Answer) and its answer is     *)
(* handled by the page (ListArrives, SaveReturns, DeleteReturns) in two    *)
(* steps, and answers may overtake each other.                             *)
EXTENDS OffPeakSlots, FiniteSets

CONSTANTS Groups, Models,
          DefaultGroup,
          NoRule, NoModel,
          TypedTimes,              \* the times a user may type
          DefaultSlot, ExtraSlot,  \* the window a new form starts with, and the one "add" appends
          SharedPrices,            \* the rules the server may hold when the page opens
          PageIsAdmins,            \* isAdmin
          MaxSlots, MaxGestures

Keys == Groups \X Models
Rules == [offPeak : BOOLEAN, slots : Seq(Slots)]

\* SavePricingRate and UpdateModel, which write the rules, look at the
\* windows of rules with off-peak prices.
Saveable(rule) == rule.offPeak => ValidateSlotsOverlap(rule.slots)

ASSUME PricingAssumption ==
    /\ DefaultGroup \in Groups
    /\ NoModel \notin Models
    /\ TypedTimes \subseteq Texts
    /\ DefaultSlot \in Slots /\ ExtraSlot \in Slots
    /\ PageIsAdmins \in BOOLEAN
    /\ NoRule \notin Keys \cup Rules
    /\ SharedPrices \subseteq [Keys -> Rules \cup {NoRule}]
    /\ \A table \in SharedPrices, k \in Keys : table[k] # NoRule => Saveable(table[k])

VARIABLES
    rules,         \* the server's: key -> rule
    prices,        \* the rows the page holds
    groupFilter,
    selectedKeys,
    priceForm,     \* [open, editing, group, model, offPeak, slots]
    loadingPrices, \* a list was asked for after the last one was answered
    saving,
    priceCalls,    \* requests sent and not yet handled
    pricingSteps   \* what the user did so far, bounded by MaxGestures

pricingVars == <<rules, prices, groupFilter, selectedKeys, priceForm, loadingPrices, saving,
                priceCalls, pricingSteps>>

\* A key without a rule is no row.
Configured(table) == {k \in Keys : table[k] # NoRule}

ClosedForm == [open |-> FALSE, editing |-> NoRule, group |-> DefaultGroup, model |-> NoModel,
               offPeak |-> TRUE, slots |-> <<DefaultSlot>>]

Unanswered == [served |-> FALSE, ok |-> FALSE, rows |-> [k \in Keys |-> NoRule]]
Call(op, keys, rule) == [op |-> op, keys |-> keys, rule |-> rule, reply |-> Unanswered]
ListCall == Call("list", {}, NoRule)

\* The start of fetchPrices.
fetchPrices(calls) ==
    /\ loadingPrices' = TRUE
    /\ priceCalls' = calls \cup {ListCall}

PricingInit ==
    /\ rules \in SharedPrices
    /\ prices = [k \in Keys |-> NoRule]
    /\ groupFilter = "all"
    /\ selectedKeys = {}
    /\ priceForm = ClosedForm
    /\ loadingPrices = TRUE
    /\ saving = FALSE
    /\ priceCalls = {ListCall}
    /\ pricingSteps = 0

-----------------------------------------------------------------------------
(* The server and the network.                                             *)

AfterCall(c) ==
    IF c.op = "list" THEN rules ELSE [k \in Keys |-> IF k \in c.keys THEN c.rule ELSE rules[k]]

AcceptsCall(c) == c.op = "save" => Saveable(c.rule)

\* The server carries the request out or refuses it; the request may be lost
\* on its way, the answer on its way back.
Answer ==
    \E c \in priceCalls, done, ok \in BOOLEAN :
        /\ ~c.reply.served
        /\ done => AcceptsCall(c)
        /\ ok => done
        /\ rules' = IF done THEN AfterCall(c) ELSE rules
        /\ priceCalls' = (priceCalls \ {c})
                \cup {[c EXCEPT !.reply = [served |-> TRUE, ok |-> ok, rows |-> rules']]}
        /\ UNCHANGED <<prices, groupFilter, selectedKeys, priceForm, loadingPrices, saving, pricingSteps>>

Returned(c) == c \in priceCalls /\ c.reply.served

\* The end of fetchPrices: a refused or lost list leaves the rows alone, and
\* any list that ends lowers the flag, another one asked for since or not.
ListArrives ==
    \E c \in priceCalls :
        /\ Returned(c) /\ c.op = "list"
        /\ prices' = IF c.reply.ok THEN c.reply.rows ELSE prices
        /\ loadingPrices' = FALSE
        /\ priceCalls' = priceCalls \ {c}
        /\ UNCHANGED <<rules, groupFilter, selectedKeys, priceForm, saving, pricingSteps>>

\* The end of handleSave: whatever form is open closes, and the list is
\* fetched anew; after a failure the form stays.
SaveReturns ==
    \E c \in priceCalls :
        /\ Returned(c) /\ c.op = "save"
        /\ saving' = FALSE
        /\ priceForm' = IF c.reply.ok THEN [priceForm EXCEPT !.open = FALSE] ELSE priceForm
        /\ IF c.reply.ok THEN fetchPrices(priceCalls \ {c})
           ELSE priceCalls' = priceCalls \ {c} /\ UNCHANGED loadingPrices
        /\ UNCHANGED <<rules, prices, groupFilter, selectedKeys, pricingSteps>>

\* The end of handleDelete and of handleBatchDelete: only the batch clears
\* the ticks.
DeleteReturns ==
    \E c \in priceCalls :
        /\ Returned(c) /\ c.op \in {"delete", "batch"}
        /\ selectedKeys' = IF c.reply.ok /\ c.op = "batch" THEN {} ELSE selectedKeys
        /\ IF c.reply.ok THEN fetchPrices(priceCalls \ {c})
           ELSE priceCalls' = priceCalls \ {c} /\ UNCHANGED loadingPrices
        /\ UNCHANGED <<rules, prices, groupFilter, priceForm, saving, pricingSteps>>

-----------------------------------------------------------------------------
(* The table.                                                              *)

Send(c) == priceCalls' = priceCalls \cup {c}

\* The rows of the group tab that is active.
filteredPrices == {k \in Configured(prices) : groupFilter \in {"all", k[1]}}

availableGroups == {DefaultGroup} \cup {k[1] : k \in Configured(prices)}

\* The form covers the page.
TableInReach == ~priceForm.open

\* The button is disabled while the flag is up.
Refresh ==
    /\ TableInReach
    /\ ~loadingPrices
    /\ fetchPrices(priceCalls)
    /\ UNCHANGED <<rules, prices, groupFilter, selectedKeys, priceForm, saving>>

\* A group tab; the ticks are dropped.
FilterGroup ==
    \E g \in {"all"} \cup availableGroups :
        /\ TableInReach
        /\ groupFilter' = g
        /\ selectedKeys' = {}
        /\ UNCHANGED <<rules, prices, priceForm, saving, priceCalls, loadingPrices>>

\* The box in the head of the table; the head is there when there are rows.
TickAll ==
    /\ PageIsAdmins /\ TableInReach /\ filteredPrices # {}
    /\ selectedKeys' \in {filteredPrices, {}}
    /\ UNCHANGED <<rules, prices, groupFilter, priceForm, saving, priceCalls, loadingPrices>>

\* The box of a row.
TickRow ==
    \E k \in filteredPrices :
        /\ PageIsAdmins /\ TableInReach
        /\ selectedKeys' = IF k \in selectedKeys THEN selectedKeys \ {k} ELSE selectedKeys \cup {k}
        /\ UNCHANGED <<rules, prices, groupFilter, priceForm, saving, priceCalls, loadingPrices>>

\* The rows with their buttons, for an admin.
RowsOffered == IF PageIsAdmins /\ TableInReach THEN filteredPrices ELSE {}

\* handleDelete, confirmed.
Delete ==
    \E k \in RowsOffered :
        /\ Send(Call("delete", {k}, NoRule))
        /\ UNCHANGED <<rules, prices, groupFilter, selectedKeys, priceForm, saving, loadingPrices>>

\* The bar over the table, and its two buttons.
BatchBarOffered == PageIsAdmins /\ TableInReach /\ selectedKeys # {}

Untick ==
    /\ BatchBarOffered
    /\ selectedKeys' = {}
    /\ UNCHANGED <<rules, prices, groupFilter, priceForm, saving, priceCalls, loadingPrices>>

\* handleBatchDelete, confirmed.
BatchDelete ==
    /\ BatchBarOffered
    /\ Send(Call("batch", selectedKeys, NoRule))
    /\ UNCHANGED <<rules, prices, groupFilter, selectedKeys, priceForm, saving, loadingPrices>>

-----------------------------------------------------------------------------
(* The form.                                                               *)

handleOpenAdd ==
    /\ PageIsAdmins /\ TableInReach
    /\ priceForm' = [ClosedForm EXCEPT !.open = TRUE,
                        !.group = IF groupFilter # "all" THEN groupFilter ELSE DefaultGroup]
    /\ UNCHANGED <<rules, prices, groupFilter, selectedKeys, saving, priceCalls, loadingPrices>>

\* A rule saved without windows is shown with one.
parseSlotsFromPrice(rule) == IF rule.slots = <<>> THEN <<DefaultSlot>> ELSE rule.slots

handleOpenEdit ==
    \E k \in RowsOffered :
        /\ priceForm' = [open |-> TRUE, editing |-> k, group |-> k[1], model |-> k[2],
                         offPeak |-> prices[k].offPeak, slots |-> parseSlotsFromPrice(prices[k])]
        /\ UNCHANGED <<rules, prices, groupFilter, selectedKeys, saving, priceCalls, loadingPrices>>

\* A gesture in the form.
EditForm(f) ==
    /\ priceForm.open
    /\ priceForm' = f
    /\ UNCHANGED <<rules, prices, groupFilter, selectedKeys, saving, priceCalls, loadingPrices>>

EditSlots(slots) == priceForm.offPeak /\ EditForm([priceForm EXCEPT !.slots = slots])

CancelForm ==
    /\ priceForm.open
    /\ priceForm' = [priceForm EXCEPT !.open = FALSE]
    /\ UNCHANGED <<rules, prices, groupFilter, selectedKeys, saving, priceCalls, loadingPrices>>

\* Model and group are fields of a new rule only.
TypeModel == \E m \in Models : priceForm.editing = NoRule /\ EditForm([priceForm EXCEPT !.model = m])
TypeGroup == \E g \in Groups : priceForm.editing = NoRule /\ EditForm([priceForm EXCEPT !.group = g])

SwitchOffPeak == EditForm([priceForm EXCEPT !.offPeak = ~priceForm.offPeak])

handleAddSlot == Len(priceForm.slots) < MaxSlots /\ EditSlots(Append(priceForm.slots, ExtraSlot))

\* A single window has no remove button.
RemoveOffered == Len(priceForm.slots) > 1

handleRemoveSlot ==
    \E i \in DOMAIN priceForm.slots :
        /\ RemoveOffered
        /\ EditSlots([j \in 1..(Len(priceForm.slots) - 1) |->
                        priceForm.slots[IF j < i THEN j ELSE j + 1]])

\* The fields of a window that are typed (its name and its discount are left
\* out).
SlotFields == {"start", "end"}

handleUpdateSlot ==
    \E i \in DOMAIN priceForm.slots, field \in SlotFields, t \in TypedTimes :
        EditSlots([priceForm.slots EXCEPT ![i] = [@ EXCEPT ![field] = t]])

\* The days of a window after its button for day d: the last day stays, and
\* all days are written as none.
isDayActive(days, d) == days = {} \/ d \in days

ToggledDays(days, d) ==
    LET current == IF days = {} THEN Days ELSE days
        updated == IF isDayActive(days, d) THEN current \ {d} ELSE current \cup {d}
    IN  IF updated = {} THEN days ELSE IF updated = Days THEN {} ELSE updated

\* Every day has its button.
DayButtons == Days

toggleSlotDay ==
    \E i \in DOMAIN priceForm.slots, d \in DayButtons :
        EditSlots([priceForm.slots EXCEPT ![i].days = ToggledDays(@, d)])

\* What handleSave lets through.
MaySave(f) ==
    /\ f.model # NoModel
    /\ f.offPeak =>
        /\ f.slots # <<>>
        /\ \A i \in DOMAIN f.slots : f.slots[i].start # Blank /\ f.slots[i].end # Blank
        /\ checkSlotsOverlap(f.slots)

SaveOffered == priceForm.open /\ ~saving

\* handleSave: without off-peak prices no window is sent.
handleSave ==
    /\ SaveOffered /\ MaySave(priceForm)
    /\ saving' = TRUE
    /\ Send(Call("save", {<<priceForm.group, priceForm.model>>},
                 [offPeak |-> priceForm.offPeak,
                  slots |-> IF priceForm.offPeak THEN priceForm.slots ELSE <<>>]))
    /\ UNCHANGED <<rules, prices, groupFilter, selectedKeys, priceForm, loadingPrices>>

Gesture ==
    \/ Refresh \/ FilterGroup \/ TickAll \/ TickRow \/ Untick \/ Delete \/ BatchDelete
    \/ handleOpenAdd \/ handleOpenEdit \/ CancelForm
    \/ TypeModel \/ TypeGroup \/ SwitchOffPeak
    \/ handleAddSlot \/ handleRemoveSlot \/ handleUpdateSlot \/ toggleSlotDay \/ handleSave

PricingNext ==
    \/ Answer \/ ListArrives \/ SaveReturns \/ DeleteReturns
    \/ /\ pricingSteps < MaxGestures
       /\ pricingSteps' = pricingSteps + 1
       /\ Gesture

PricingSpec == PricingInit /\ [][PricingNext]_pricingVars

-----------------------------------------------------------------------------
PricingTypeOK ==
    /\ rules \in [Keys -> Rules \cup {NoRule}]
    /\ prices \in [Keys -> Rules \cup {NoRule}]
    /\ groupFilter \in {"all"} \cup Groups
    /\ selectedKeys \subseteq Keys
    /\ priceForm \in [open : BOOLEAN, editing : Keys \cup {NoRule}, group : Groups,
                      model : Models \cup {NoModel}, offPeak : BOOLEAN, slots : Seq(Slots)]
    /\ loadingPrices \in BOOLEAN /\ saving \in BOOLEAN
    /\ \A c \in priceCalls :
        /\ c.op \in {"list", "save", "delete", "batch"}
        /\ c.keys \subseteq Keys
        /\ c.rule \in Rules \cup {NoRule}
        /\ c.reply \in [served : BOOLEAN, ok : BOOLEAN, rows : [Keys -> Rules \cup {NoRule}]]
    /\ pricingSteps \in Nat

\* Where the console and the engine read the times alike, a rule the page
\* sends gives every minute of the week at most one window when the billing
\* engine applies it: what handleSave lets through and what
\* CustomOffPeakStrategy matches agree on windows over midnight, on 24:00 and
\* on the days left empty.  (Of "08 :30" the form's check reads 8:30 and the
\* engine 0:30: that is left to the server's check.)
SentWindowsUnambiguous ==
    \A c \in priceCalls : c.op = "save" /\ ReadAlike(c.rule.slots) => Unambiguous(c.rule.slots)

\* Whatever is typed, and however the form reads it, a rule with off-peak
\* prices that the server stores gives every minute of the week at most one
\* window when the engine applies it (ValidateSlotsOverlap against
\* CustomOffPeakStrategy).
StoredWindowsUnambiguous ==
    \A k \in Keys : rules[k] # NoRule /\ rules[k].offPeak => Unambiguous(rules[k].slots)
=============================================================================
